------------------------------- MODULE Release -------------------------------
(***************************************************************************)
(* A release: `npm run release:cut` (scripts/cut-release.js) up to its     *)
(* commit and its tag, the guard of publication (verify-release-tag.js),   *)
(* and what its operator does between two cuts.                            *)
(*                                                                         *)
(* A cut reads the checkout and the names that are taken, writes the files *)
(* of its plan, has the release gate run over them, and stages, commits,   *)
(* tags and verifies.  It may die between any two of these, a step of the  *)
(* gate may leave a change behind, in a file of the plan or elsewhere, and *)
(* Git may refuse.  The operator has the checkout to itself between cuts   *)
(* and during a dry run, not during a cut.  Branches, upstreams and        *)
(* unreadable files are left out.                                          *)
(***************************************************************************)
EXTENDS VersionSites

CONSTANTS
  StartTrees,   \* trees of the first commit
  Metadata,     \* the places verify-release-tag.js reads
  PackageAt,    \* the version of package.json
  ExtraAt,      \* a place that may come to name the current version
  Rewritable,   \* the places that a step of the gate may rewrite
  MaxCommits,   \* bound: commits on the branch
  MaxDeaths,    \* bound: cuts that die
  MaxErrands    \* bound: things the operator does that are not cuts

ASSUME ReleaseAssumption ==
  /\ StartTrees \subseteq {tree \in Tree : tree.names[PackageAt] \in Version}
  /\ Metadata \subseteq Place
  /\ PackageAt \in Metadata /\ ExtraAt \in Place /\ Rewritable \subseteq Place
  /\ MaxCommits \in Nat /\ MaxDeaths \in Nat /\ MaxErrands \in Nat

VARIABLES
  log,        \* the commits of the release branch: [subject, tree]
  tag,        \* tag[v]: the commit that the local tag names, or NoCommit
  remote,     \* remote[v]: the commit that the tag on the remote names
  published,  \* published[v]: the bytes of the registry, as the commit they are of
  checkout,   \* [tree, stray, staged]
  cut,        \* the cut that is running, or the answer of the last
  gated,      \* history: what the gate passed, [before, version, tree]
  deaths, errands

vars == <<log, tag, remote, published, checkout, cut, gated, deaths, errands>>

NoCommit == [subject |-> Nothing, tree |-> Nothing]
Work == Nothing   \* the subject of a commit that is not a cut
NoCut == [at |-> "idle", answer |-> "none"]
Running == cut.at # "idle"

Tip == log[Len(log)]
Clean == checkout.tree = Tip.tree /\ ~ checkout.stray /\ ~ checkout.staged
PackageVersion == checkout.tree.names[PackageAt]

Init ==
  /\ \E tree \in StartTrees :
       /\ log = <<[subject |-> Work, tree |-> tree]>>
       /\ checkout = [tree |-> tree, stray |-> FALSE, staged |-> FALSE]
  /\ tag = [v \in Version |-> NoCommit]
  /\ remote = tag /\ published = tag
  /\ cut = NoCut /\ gated = {} /\ deaths = 0 /\ errands = 0

-----------------------------------------------------------------------------
(* verify-release-tag.js, which the cut runs and `npm publish` as well.    *)

VerifyTag ==
  /\ \A p \in Metadata : checkout.tree.names[p] = PackageVersion
  /\ tag[PackageVersion] = Tip
  /\ Clean

-----------------------------------------------------------------------------
(* The cut.                                                                *)

Answer(what) == cut' = [at |-> "idle", answer |-> what]

\* "Cut 1.0.0" is found in the subject "Cut 1.0.0-rc.1" as well.
Mentions(subject, v) ==
  subject # Work /\ subject.core = v.core /\ IsPrefix(v.pre, subject.pre)

\* inFlightCut: a tag, or the last commit that mentions the cut being the cut.
InFlightCut(v) ==
  \/ tag[v] # NoCommit
  \/ \E n \in 1..Len(log) :
       /\ log[n].subject = v
       /\ \A later \in n + 1..Len(log) : ~ Mentions(log[later].subject, v)

\* Mutated: what is taken is what this checkout knows to be taken.
FreeLocally(v) == tag[v] = NoCommit

\* No tag here or on the remote, no package.
Free(v) == tag[v] = NoCommit /\ remote[v] = NoCommit /\ published[v] = NoCommit

\* The preconditions and the plan of a cut of v.
Plannable(v) ==
  /\ VersionBefore(PackageVersion, v)
  /\ Free(v)
  /\ PlanHolds(checkout.tree, PackageVersion)
  /\ ChangelogReady(Moved(checkout.tree, PackageVersion, v), v)
  /\ ExactSets(checkout.tree, PackageVersion, v)

\* resumeOrConfirm: a cut of v that has its commit, or its tag too.
Resume(v) ==
  CASE tag[v] # NoCommit ->
         Answer(IF tag[v] = Tip /\ VerifyTag THEN "already-cut" ELSE "refused")
    [] tag[v] = NoCommit /\ Tip.subject = v ->
         cut' = [at |-> "tagging", version |-> v, answer |-> "resumed-tag"]
    [] OTHER -> Answer("refused")

BeginCut(v, dry) ==
  LET old == PackageVersion
      allowed == Allowed(checkout.tree, old)
  IN  /\ ~ Running
      /\ CASE Clean /\ old = v /\ InFlightCut(v) -> Resume(v)
           [] Clean /\ Plannable(v) ->
                cut' = [at |-> IF dry THEN "rehearsing" ELSE "writing", version |-> v,
                        answer |-> "cut", before |-> checkout.tree, head |-> Tip,
                        plan |-> Planned(checkout.tree, old, v), allowed |-> allowed,
                        todo |-> allowed]
           [] OTHER -> Answer("refused")
      /\ UNCHANGED <<log, tag, remote, published, checkout, gated, deaths, errands>>

\* The gate over a copy; then the repository has to be what it was.
Rehearse ==
  /\ cut.at = "rehearsing"
  /\ \E passed \in BOOLEAN :
       Answer(IF passed /\ Clean /\ checkout.tree = cut.before /\ Tip = cut.head
              THEN "planned" ELSE "refused")
  /\ UNCHANGED <<log, tag, remote, published, checkout, gated, deaths, errands>>

WriteFile(f) ==
  /\ cut.at = "writing" /\ f \in cut.todo
  /\ checkout' = [checkout EXCEPT !.tree = With(@, cut.plan, {f})]
  /\ cut' = [cut EXCEPT !.todo = @ \ {f}, !.at = IF cut.todo = {f} THEN "gate" ELSE @]
  /\ UNCHANGED <<log, tag, remote, published, gated, deaths, errands>>

\* restore: the files of the plan, and nothing else.
Restored(c) == [c EXCEPT !.tree = With(@, cut.before, cut.allowed)]

\* changedSetProblem: exactly the files of the plan differ from HEAD.
ChangedAsPlanned(c) == ~ c.stray /\ Differing(c.tree, Tip.tree) = cut.allowed

\* runReleaseGate: project commands over the checkout, one after the other until one
\* fails. They may change a file that names no version, and rewrite places of others, those
\* of the plan among them; package.json goes on having a version.
AfterGate(stray, names) ==
  [checkout EXCEPT !.stray = @ \/ stray,
                   !.tree.names = [p \in Place |-> IF p \in Rewritable THEN names[p] ELSE @[p]]]

Rewritings ==
  {names \in [Rewritable -> Version \cup {Nothing}] :
     PackageAt \in Rewritable => names[PackageAt] # Nothing}

Passed == [before |-> cut.before, version |-> cut.version, tree |-> checkout.tree]

\* Mutated: what the gate says is not heard.
GateUnheard ==
  /\ cut.at = "gate"
  /\ \E passed, stray \in BOOLEAN, names \in Rewritings :
       LET after == AfterGate(stray, names) IN
       /\ gated' = IF passed THEN gated \cup {Passed} ELSE gated
       /\ IF ChangedAsPlanned(after)
          THEN checkout' = after /\ cut' = [cut EXCEPT !.at = "staging"]
          ELSE checkout' = Restored(after) /\ Answer("refused")
  /\ UNCHANGED <<log, tag, remote, published, deaths, errands>>

\* A gate that fails, or after which other files differ than planned, ends the cut.
Gate ==
  /\ cut.at = "gate"
  /\ \E passed, stray \in BOOLEAN, names \in Rewritings :
       LET after == AfterGate(stray, names) IN
       IF passed /\ ChangedAsPlanned(after)
       THEN /\ checkout' = after
            /\ gated' = gated \cup {Passed}
            /\ cut' = [cut EXCEPT !.at = "staging"]
       ELSE /\ checkout' = Restored(after)
            /\ Answer("refused")
            /\ UNCHANGED gated
  /\ UNCHANGED <<log, tag, remote, published, deaths, errands>>

\* git add of the files of the plan; then the staged set is compared with them.
Stage ==
  /\ cut.at = "staging"
  /\ \/ checkout' = [checkout EXCEPT !.staged = TRUE] /\ cut' = [cut EXCEPT !.at = "committing"]
     \/ checkout' = Restored(checkout) /\ Answer("refused")
  /\ UNCHANGED <<log, tag, remote, published, gated, deaths, errands>>

Commit ==
  /\ cut.at = "committing"
  /\ \/ /\ log' = Append(log, [subject |-> cut.version, tree |-> checkout.tree])
        /\ checkout' = [checkout EXCEPT !.staged = FALSE]
        /\ cut' = [at |-> "tagging", version |-> cut.version, answer |-> "cut"]
     \/ /\ checkout' = [Restored(checkout) EXCEPT !.staged = FALSE]
        /\ Answer("refused")
        /\ UNCHANGED log
  /\ UNCHANGED <<tag, remote, published, gated, deaths, errands>>

CreateTag ==
  /\ cut.at = "tagging"
  /\ \/ tag' = [tag EXCEPT ![cut.version] = Tip] /\ cut' = [cut EXCEPT !.at = "verifying"]
     \/ Answer("refused") /\ UNCHANGED tag
  /\ UNCHANGED <<log, remote, published, checkout, gated, deaths, errands>>

\* A tag that does not hold up is deleted, the commit is kept.
Verify ==
  /\ cut.at = "verifying"
  /\ Answer(IF VerifyTag THEN cut.answer ELSE "refused")
  /\ tag' = IF VerifyTag THEN tag ELSE [tag EXCEPT ![cut.version] = NoCommit]
  /\ UNCHANGED <<log, remote, published, checkout, gated, deaths, errands>>

Die ==
  /\ Running /\ deaths < MaxDeaths
  /\ deaths' = deaths + 1
  /\ cut' = NoCut
  /\ UNCHANGED <<log, tag, remote, published, checkout, gated, errands>>

-----------------------------------------------------------------------------
(* The operator, and the other programs it runs.                           *)

Errand ==
  /\ ~ Running \/ cut.at = "rehearsing"
  /\ errands < MaxErrands /\ errands' = errands + 1
  /\ UNCHANGED <<cut, gated, deaths>>

\* Merged work: with notes for the changelog, perhaps a new place that names the
\* current version, and perhaps another manifest.
MergeWork(extra, manifest) ==
  /\ Errand /\ Clean /\ Len(log) < MaxCommits
  /\ LET tree == [checkout.tree EXCEPT !.notes = TRUE, !.manifest = manifest,
                                       !.names[ExtraAt] = IF extra THEN PackageVersion ELSE @]
     IN  log' = Append(log, [subject |-> Work, tree |-> tree])
           /\ checkout' = [checkout EXCEPT !.tree = tree]
  /\ UNCHANGED <<tag, remote, published>>

CommitWhatIsThere ==
  /\ Errand /\ ~ Clean /\ Len(log) < MaxCommits
  /\ log' = Append(log, [subject |-> Work, tree |-> checkout.tree])
  /\ checkout' = [checkout EXCEPT !.stray = FALSE, !.staged = FALSE]
  /\ UNCHANGED <<tag, remote, published>>

Discard ==
  /\ Errand /\ ~ Clean
  /\ checkout' = [tree |-> Tip.tree, stray |-> FALSE, staged |-> FALSE]
  /\ UNCHANGED <<log, tag, remote, published>>

\* git tag -d, and git reset --hard to before an untagged cut.
Untag(v) ==
  /\ Errand /\ tag[v] # NoCommit
  /\ tag' = [tag EXCEPT ![v] = NoCommit]
  /\ UNCHANGED <<log, remote, published, checkout>>

Abandon ==
  /\ Errand /\ Clean /\ Tip.subject # Work /\ tag[Tip.subject] = NoCommit
  /\ log' = SubSeq(log, 1, Len(log) - 1)
  /\ checkout' = [checkout EXCEPT !.tree = log'[Len(log')].tree]
  /\ UNCHANGED <<tag, remote, published>>

\* git push of a tag: the remote has no other one by that name, or refuses.
PushTag(v) ==
  /\ Errand /\ tag[v] # NoCommit /\ remote[v] = NoCommit
  /\ remote' = [remote EXCEPT ![v] = tag[v]]
  /\ UNCHANGED <<log, tag, published, checkout>>

\* npm publish runs prepublishOnly, and refuses a version that it has.
Publish ==
  /\ Errand /\ VerifyTag /\ published[PackageVersion] = NoCommit
  /\ published' = [published EXCEPT ![PackageVersion] = Tip]
  /\ UNCHANGED <<log, tag, remote, checkout>>

Next ==
  \/ \E v \in Version : \E dry \in BOOLEAN :
       (Len(log) < MaxCommits \/ Tip.subject = v) /\ BeginCut(v, dry)
  \/ \E f \in {FileOf[p] : p \in Place} : WriteFile(f)
  \/ Rehearse \/ Gate \/ Stage \/ Commit \/ CreateTag \/ Verify \/ Die
  \/ \E extra \in BOOLEAN, manifest \in Manifests : MergeWork(extra, manifest)
  \/ CommitWhatIsThere \/ Discard \/ Abandon \/ Publish
  \/ \E v \in Version : Untag(v) \/ PushTag(v)

Spec == Init /\ [][Next]_vars

-----------------------------------------------------------------------------
(* Properties.                                                             *)

Named(v) == {tag[v], remote[v], published[v]} \ {NoCommit}

\* The tag here, the tag on the remote and the package of one version are the same
\* bytes, however many cuts of it were begun, lost, abandoned and begun again.
VersionsNameOneTree ==
  \A v \in Version : Cardinality({c.tree : c \in Named(v)}) <= 1

\* What is tagged or published is a cut of that version, and the gate passed its plan:
\* the bytes are those that passed, but for the files of the plan, which the gate itself
\* may have rewritten since.
ShippedWentThroughTheGate ==
  \A v \in Version : \A c \in Named(v) :
    /\ c.subject = v
    /\ \E g \in gated : /\ g.version = v
                        /\ Differing(g.tree, c.tree) \subseteq Allowed(g.before, g.before.names[PackageAt])

\* A cut whose bytes the gate passed moves every place that names the outgoing version, but
\* for history: what still names it was declared to go on naming it, whatever was merged
\* since. Nothing else changes: outside the changelog, what changed is what names the new
\* version, and in the changelog it is the new heading.
CutsMoveEverySite ==
  \A n \in 2..Len(log) :
    [before |-> log[n - 1].tree, version |-> log[n].subject, tree |-> log[n].tree] \in gated =>
    LET before == log[n - 1].tree
        after == log[n].tree
        old == before.names[PackageAt]
        new == log[n].subject
        places == {p \in Place : FileOf[p] # Changelog}
    IN  /\ old # new /\ after.names[PackageAt] = new
        /\ Naming(after, Place, old) = ClaimedAs(before, "retained", old)
        /\ {p \in Place : after.names[p] # before.names[p]} =
             Naming(after, places, new) \cup {HeadingOf[new]}

=============================================================================
