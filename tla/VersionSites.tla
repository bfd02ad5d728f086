---------------------------- MODULE VersionSites ----------------------------
(***************************************************************************)
(* What a release has to rewrite (scripts/lib/release-sites.js and         *)
(* release-changelog.js).  A tracked text file is the places in it that    *)
(* may name a version; a locator of the manifest claims the occurrences of *)
(* the outgoing version at its places.                                     *)
(***************************************************************************)
EXTENDS Integers, Sequences, FiniteSets, SequencesExt

CONSTANTS
  Version,     \* versions: [core, pre], pre the prerelease identifiers
  Place,       \* places that may name a version
  FileOf,      \* FileOf[p]: the tracked text file a place is in
  Changelog,   \* CHANGELOG.md
  Readme,      \* README.md
  HeadingOf,   \* HeadingOf[v]: the place of the heading of v in the changelog
  Manifests,   \* release-version-sites.json, as sets of locators
  Nothing,     \* no version
  AnyVersion   \* a locator without applies_to_version

ASSUME VersionSitesAssumption ==
  /\ Nothing \notin Version /\ AnyVersion \notin Version
  /\ Version \subseteq [core : Nat, pre : Seq({0, 1} \X Nat)]
  /\ IsFiniteSet(Place)
  /\ \A v \in Version : HeadingOf[v] \in Place /\ FileOf[HeadingOf[v]] = Changelog
  /\ \A manifest \in Manifests : manifest \subseteq
       [at : SUBSET Place, kind : {"json-pointer", "anchored-text"},
        class : {"mutable", "retained"}, occurrences : Nat \ {0}, only : Version \cup {AnyVersion}]

\* names[p]: the version that p names; notes: there is text under `## Unreleased`;
\* channel: the dist-tag of the install command in the README.
Tree == [names : [Place -> Version \cup {Nothing}], notes : BOOLEAN,
         channel : {"latest", "next"}, manifest : Manifests]

-----------------------------------------------------------------------------
(* Versions.  An identifier is <<0, n>>, the number n, or <<1, n>>, the    *)
(* n-th word.  The words begin with a letter: a number comes before such a *)
(* word, as strings and in SemVer.                                         *)

IdBefore(a, b) == a[1] < b[1] \/ (a[1] = b[1] /\ a[2] < b[2])

\* A release comes after its prereleases; of two lists, the shorter one first.
PreBefore(p, q) ==
  /\ p # <<>>
  /\ \/ q = <<>>
     \/ \E k \in 1..Len(q) :
          /\ k - 1 <= Len(p) /\ \A m \in 1..k - 1 : p[m] = q[m]
          /\ IF k > Len(p) THEN TRUE ELSE IdBefore(p[k], q[k])

VersionBefore(v, w) == v.core < w.core \/ (v.core = w.core /\ PreBefore(v.pre, w.pre))

PublicationTag(v) == IF v.pre = <<>> THEN "latest" ELSE "next"

-----------------------------------------------------------------------------
Naming(tree, places, v) == {p \in places : tree.names[p] = v}

ActiveSites(tree, old) == {s \in tree.manifest : s.only \in {AnyVersion, old}}

Claims(tree, s, old) == Naming(tree, s.at, old)

ClaimedAs(tree, class, old) ==
  UNION {Claims(tree, s, old) : s \in {a \in ActiveSites(tree, old) : a.class = class}}

FilesOf(places) == {FileOf[p] : p \in places}

\* planVersionSites: one kind of locator to a file, as many occurrences as declared,
\* nothing claimed twice, and nothing that names the outgoing version unclaimed.
PlanHolds(tree, old) ==
  LET sites == ActiveSites(tree, old) IN
  /\ \A s, t \in sites : s.kind # t.kind => FilesOf(s.at) \cap FilesOf(t.at) = {}
  /\ \A s \in sites : Cardinality(Claims(tree, s, old)) = s.occurrences
  /\ \A s, t \in sites : s # t => Claims(tree, s, old) \cap Claims(tree, t, old) = {}
  /\ Naming(tree, Place, old) \subseteq UNION {Claims(tree, s, old) : s \in sites}

\* The tree with the mutable occurrences moved to the new version.
Moved(tree, old, new) ==
  [tree EXCEPT !.names = [p \in Place |-> IF p \in ClaimedAs(tree, "mutable", old) THEN new
                                          ELSE tree.names[p]]]

\* rewriteChangelog: what is unreleased goes under a new heading.
ChangelogReady(tree, new) == tree.notes /\ tree.names[HeadingOf[new]] = Nothing

Released(tree, new) == [tree EXCEPT !.names[HeadingOf[new]] = new, !.notes = FALSE]

\* The tree of a cut; a README that is rewritten gets its channel as well.
Planned(tree, old, new) ==
  LET moved == Released(Moved(tree, old, new), new) IN
  IF Readme \in FilesOf(ClaimedAs(tree, "mutable", old))
  THEN [moved EXCEPT !.channel = PublicationTag(new)] ELSE moved

\* Mutated: the survivors are counted, what names the new version is not.
ExactSetsOfOld(tree, old, new) ==
  Cardinality(Naming(Planned(tree, old, new), Place, old)) =
    Cardinality(ClaimedAs(tree, "retained", old))

\* verifyExactSets: the survivors are the retained occurrences, and the new version
\* is named where it moved to and in the changelog.
ExactSets(tree, old, new) ==
  LET planned == Planned(tree, old, new)
      InChangelog == {p \in Place : FileOf[p] = Changelog}
  IN  /\ Cardinality(Naming(planned, Place, old)) = Cardinality(ClaimedAs(tree, "retained", old))
      /\ Cardinality(Naming(planned, Place, new)) =
           Cardinality(ClaimedAs(tree, "mutable", old)) + Cardinality(Naming(planned, InChangelog, new))

\* The files that a cut rewrites.
Allowed(tree, old) == FilesOf(ClaimedAs(tree, "mutable", old)) \cup {Changelog}

\* The files that differ between two trees; a cut never edits the manifest.
Differing(a, b) ==
  {FileOf[p] : p \in {q \in Place : a.names[q] # b.names[q]}}
    \cup (IF a.notes # b.notes THEN {Changelog} ELSE {})
    \cup (IF a.channel # b.channel THEN {Readme} ELSE {})

\* a, with the files in `files` as they are in b.
With(a, b, files) ==
  [names |-> [p \in Place |-> IF FileOf[p] \in files THEN b.names[p] ELSE a.names[p]],
   notes |-> IF Changelog \in files THEN b.notes ELSE a.notes,
   channel |-> IF Readme \in files THEN b.channel ELSE a.channel,
   manifest |-> a.manifest]
=============================================================================
