---------------------------- MODULE CommitProofs ----------------------------
(***************************************************************************)
(* The two components that answer for Git commits.  Release: what is       *)
(* shipped went through the gate, a version is one tree, and a cut moves   *)
(* every place, for any trees, manifests and versions, any number of cuts, *)
(* and whatever the operator does between two of them.  AutoCommit: an     *)
(* answer that names a commit is true, a commit takes no path but its      *)
(* invocation's, an invocation makes one, and mutations do not pile up     *)
(* uncommitted, for any processes, items and requests, and whatever hooks, *)
(* other people and orphaned children of git do.                           *)
(*                                                                         *)
(* One invariant says what the running cut may rely on: its commit is      *)
(* prepared from the tip of the branch, file by file, and what is staged   *)
(* differs from what passed the gate in files of the plan only.  A second  *)
(* one orders the versions along the branch.                               *)
(*                                                                         *)
(* Of auto-commit, the first invariant says what a job or a token knows of *)
(* the commit it waits for and what the branch has shown since, and that   *)
(* a running git holds the index; the second adds that one job is busy at  *)
(* a time and that the working tree holds what was published; the third    *)
(* counts, for one invocation, the commits there are, the one that is being*)
(* made and the one that is still to come.                                 *)
(***************************************************************************)
EXTENDS Release, AutoCommit, ReconciliationProofs

-----------------------------------------------------------------------------
(* Releases.                                                               *)

\* The two provisos, which release-version-sites.json meets: the version of
\* package.json is not declared history (the script would make a cut whose tag cannot
\* be verified), and the changelog is nothing but history (else a mutable occurrence there
\* and an unlisted one elsewhere would balance in the count of the new version).
PackageMoves ==
  \A manifest \in Manifests : \A s \in manifest : s.class = "retained" => PackageAt \notin s.at

ChangelogIsHistory ==
  \A manifest \in Manifests : \A s \in manifest :
    s.class = "mutable" => Changelog \notin FilesOf(s.at)

\* And one of the gate's commands, none of which sets the version of package.json: one
\* that set it back would have the next cut repeat a version.
GateKeepsPackage == PackageAt \notin Rewritable

Trees == {tree \in Tree : tree.names[PackageAt] \in Version}
Commits == [subject : Version \cup {Work}, tree : Trees]
Files == FilesOf(Place) \cup {Changelog}

Drafting == {"writing", "gate", "staging", "committing"}

Verdicts == {"none", "refused", "planned", "cut", "already-cut", "resumed-tag"}
IdleCuts == [at : {"idle"}, answer : Verdicts]
TaggingCuts == [at : {"tagging", "verifying"}, version : Version, answer : Verdicts]
Drafts ==
  [at : Drafting \cup {"rehearsing"}, version : Version, answer : Verdicts, before : Trees,
   head : Commits, plan : Trees, allowed : SUBSET Files, todo : SUBSET Files]

ReleaseTypes ==
  /\ log \in Seq(Commits) /\ Len(log) >= 1 /\ log[1].subject = Work
  /\ tag \in [Version -> Commits \cup {NoCommit}]
  /\ remote \in [Version -> Commits \cup {NoCommit}]
  /\ published \in [Version -> Commits \cup {NoCommit}]
  /\ checkout \in [tree : Trees, stray : BOOLEAN, staged : BOOLEAN]
  /\ cut \in IdleCuts \cup TaggingCuts \cup Drafts

\* What a cut of v from a tree needs of the tree.
Cuttable(tree, v) ==
  LET old == tree.names[PackageAt]
  IN  /\ VersionBefore(old, v)
      /\ PlanHolds(tree, old)
      /\ ChangelogReady(Moved(tree, old, v), v)
      /\ ExactSets(tree, old, v)

PlanOf(tree, v) == Planned(tree, tree.names[PackageAt], v)
AllowedOf(tree) == Allowed(tree, tree.names[PackageAt])

\* Until its commit a cut has the checkout to itself: it is the tip of the branch, with
\* the files that were written as they are planned. From the gate on a planned file may be
\* another, but not package.json where the gate leaves that alone.
DraftFollowsPlan ==
  cut.at \in Drafting =>
    /\ cut.before = Tip.tree /\ Cuttable(cut.before, cut.version) /\ Free(cut.version)
    /\ cut.plan = PlanOf(cut.before, cut.version)
    /\ cut.allowed = AllowedOf(cut.before) /\ cut.todo \subseteq cut.allowed
    /\ cut.at # "writing" => cut.todo = {}
    /\ cut.at \in {"writing", "gate"} =>
         checkout.tree = With(cut.before, cut.plan, cut.allowed \ cut.todo)
    /\ cut.at # "writing" /\ PackageAt \notin Rewritable =>
         checkout.tree.names[PackageAt] = cut.plan.names[PackageAt]

\* The gate passed the plan of v that this tree is, but for files of that plan.
WentThrough(tree, v) ==
  \E g \in gated : g.version = v /\ Differing(g.tree, tree) \subseteq AllowedOf(g.before)

\* What is to be committed went through the gate, and what is to be tagged is the tip.
DraftIsGated ==
  /\ cut.at \in {"staging", "committing"} => WentThrough(checkout.tree, cut.version)
  /\ cut.at \in {"tagging", "verifying"} => Tip.subject = cut.version

CutsWentThrough ==
  \A n \in 1..Len(log) : log[n].subject # Work => WentThrough(log[n].tree, log[n].subject)

NamesWentThrough ==
  \A v \in Version : \A c \in Named(v) : c.subject = v /\ WentThrough(c.tree, v)

CutInv == /\ ReleaseTypes /\ DraftFollowsPlan /\ DraftIsGated
          /\ CutsWentThrough /\ NamesWentThrough

-----------------------------------------------------------------------------
(* Trees and plans.                                                        *)

LEMMA WithIsTree ==
  ASSUME NEW a \in Trees, NEW b \in Trees, NEW files
  PROVE  With(a, b, files) \in Trees
  <1> DEFINE names == [p \in Place |-> IF FileOf[p] \in files THEN b.names[p] ELSE a.names[p]]
  <1>1. names \in [Place -> Version \cup {Nothing}]
    BY DEF Trees, Tree
  <1>2. PackageAt \in Place
    BY ReleaseAssumption
  <1>3. names[PackageAt] \in Version
    BY <1>2 DEF Trees
  <1> HIDE DEF names
  <1>4. With(a, b, files) =
          [names |-> names, notes |-> IF Changelog \in files THEN b.notes ELSE a.notes,
           channel |-> IF Readme \in files THEN b.channel ELSE a.channel,
           manifest |-> a.manifest]
    BY DEF With, names
  <1>5. QED
    BY <1>1, <1>3, <1>4 DEF Trees, Tree

LEMMA WithNothing ==
  ASSUME NEW a \in Trees, NEW b
  PROVE  With(a, b, {}) = a
  BY DEF With, Trees, Tree

LEMMA WithMore ==
  ASSUME NEW a \in Trees, NEW b \in Trees, NEW f, NEW g
  PROVE  With(With(a, b, f), b, g) = With(a, b, f \cup g)
  <1> DEFINE c == With(a, b, f)
  <1>1. \A p \in Place : (IF FileOf[p] \in g THEN b.names[p] ELSE c.names[p]) =
                         (IF FileOf[p] \in f \cup g THEN b.names[p] ELSE a.names[p])
    BY DEF With
  <1>2. c.notes = (IF Changelog \in f THEN b.notes ELSE a.notes)
    BY DEF With
  <1>3. c.channel = (IF Readme \in f THEN b.channel ELSE a.channel)
    BY DEF With
  <1>4. c.manifest = a.manifest
    BY DEF With
  <1> HIDE DEF c
  <1>5. QED
    BY <1>1, <1>2, <1>3, <1>4 DEF With, c

\* Where a version is claimed, it is named, at a place.
LEMMA ClaimedIsNamed ==
  ASSUME NEW tree \in Trees, NEW class, NEW old, NEW p \in ClaimedAs(tree, class, old)
  PROVE  /\ p \in Place /\ tree.names[p] = old
         /\ \E s \in tree.manifest : s.class = class /\ p \in s.at
  <1>1. PICK s \in tree.manifest : s.class = class /\ p \in Naming(tree, s.at, old)
    BY DEF ClaimedAs, ActiveSites, Claims
  <1>2. tree.manifest \in Manifests
    BY DEF Trees, Tree
  <1>3. s.at \subseteq Place
    BY <1>2, VersionSitesAssumption
  <1>4. QED
    BY <1>1, <1>3 DEF Naming

\* The names of a plan.
LEMMA PlanNames ==
  ASSUME NEW tree \in Trees, NEW v \in Version, NEW p \in Place
  PROVE  PlanOf(tree, v).names[p] =
           IF p = HeadingOf[v] \/ p \in ClaimedAs(tree, "mutable", tree.names[PackageAt])
           THEN v ELSE tree.names[p]
  <1> DEFINE old == tree.names[PackageAt]
             moved == Moved(tree, old, v)
             released == Released(moved, v)
  <1>1. HeadingOf[v] \in Place
    BY VersionSitesAssumption
  <1>2. moved.names = [q \in Place |-> IF q \in ClaimedAs(tree, "mutable", old) THEN v
                                       ELSE tree.names[q]]
    BY DEF Moved, Trees, Tree
  <1>3. moved = [names |-> moved.names, notes |-> tree.notes, channel |-> tree.channel,
                 manifest |-> tree.manifest]
    BY DEF Moved, Trees, Tree
  <1> HIDE DEF moved
  <1>4. released.names = [moved.names EXCEPT ![HeadingOf[v]] = v]
    BY <1>3 DEF Released
  <1>5. PlanOf(tree, v).names = released.names
    BY <1>3 DEF PlanOf, Planned, Released, moved
  <1>6. QED
    BY <1>1, <1>2, <1>4, <1>5

LEMMA PlanIsTree ==
  ASSUME NEW tree \in Trees, NEW v \in Version
  PROVE  PlanOf(tree, v) \in Trees
  <1> DEFINE old == tree.names[PackageAt]
             moved == Moved(tree, old, v)
             released == Released(moved, v)
  <1>1. HeadingOf[v] \in Place /\ PackageAt \in Place
    BY VersionSitesAssumption, ReleaseAssumption
  <1>2. moved \in Tree
    BY DEF Moved, Trees, Tree
  <1>3. released \in Tree
    BY <1>1, <1>2 DEF Released, Tree
  <1>4. PlanOf(tree, v) \in Tree
    BY <1>3 DEF PlanOf, Planned, Tree, PublicationTag
  <1>5. PlanOf(tree, v).names[PackageAt] \in Version
    BY <1>1, PlanNames DEF Trees
  <1>6. QED
    BY <1>4, <1>5 DEF Trees

LEMMA AllowedIsFiles ==
  ASSUME NEW tree \in Trees
  PROVE  AllowedOf(tree) \subseteq Files
  BY ClaimedIsNamed DEF AllowedOf, Allowed, FilesOf, Files

\* What a cut commits: the plan, whatever files it is made of.
LEMMA DraftNames ==
  ASSUME NEW tree \in Trees, NEW v \in Version, NEW p \in Place
  PROVE  With(tree, PlanOf(tree, v), AllowedOf(tree)).names[p] = PlanOf(tree, v).names[p]
  <1> DEFINE old == tree.names[PackageAt]
  <1>1. CASE FileOf[p] \in AllowedOf(tree)
    BY <1>1 DEF With
  <1>2. CASE FileOf[p] \notin AllowedOf(tree)
    <2>1. p \notin ClaimedAs(tree, "mutable", old)
      BY <1>2 DEF AllowedOf, Allowed, FilesOf
    <2>2. FileOf[p] # Changelog
      BY <1>2 DEF AllowedOf, Allowed
    <2>3. PlanOf(tree, v).names[p] = tree.names[p]
      BY <2>1, <2>2, PlanNames, VersionSitesAssumption
    <2>4. QED
      BY <1>2, <2>3 DEF With
  <1>3. QED
    BY <1>1, <1>2

\* Whatever names the outgoing version is either moved or kept, and not both.
LEMMA ClaimsPartition ==
  ASSUME NEW tree \in Trees, PlanHolds(tree, tree.names[PackageAt])
  PROVE  LET old == tree.names[PackageAt]
             moved == ClaimedAs(tree, "mutable", old)
             kept == ClaimedAs(tree, "retained", old)
         IN  moved \cap kept = {} /\ Naming(tree, Place, old) = moved \cup kept
  <1> DEFINE old == tree.names[PackageAt]
             moved == ClaimedAs(tree, "mutable", old)
             kept == ClaimedAs(tree, "retained", old)
  <1>1. moved \cap kept = {}
    BY DEF PlanHolds, ClaimedAs
  <1>2. \A s \in ActiveSites(tree, old) : s.class \in {"mutable", "retained"}
    BY VersionSitesAssumption DEF ActiveSites, Trees, Tree
  <1>3. Naming(tree, Place, old) \subseteq moved \cup kept
    BY <1>2 DEF PlanHolds, ClaimedAs
  <1>4. moved \cup kept \subseteq Naming(tree, Place, old)
    BY ClaimedIsNamed DEF Naming
  <1>5. QED
    BY <1>1, <1>3, <1>4

\* Outside the changelog, what a plan lets name the new version is what it moves: as
\* many places name it as are moved, and the ones that are moved do.
LEMMA NewIsMoved ==
  ASSUME NEW tree \in Trees, NEW v \in Version, Cuttable(tree, v), ChangelogIsHistory
  PROVE  Naming(PlanOf(tree, v), {p \in Place : FileOf[p] # Changelog}, v) =
           ClaimedAs(tree, "mutable", tree.names[PackageAt])
  <1> DEFINE old == tree.names[PackageAt]
             moved == ClaimedAs(tree, "mutable", old)
             plan == PlanOf(tree, v)
             outside == Naming(plan, {p \in Place : FileOf[p] # Changelog}, v)
             inside == Naming(plan, {p \in Place : FileOf[p] = Changelog}, v)
  <1>1. moved \subseteq outside
    <2> SUFFICES ASSUME NEW p \in moved PROVE p \in outside
      OBVIOUS
    <2>1. p \in Place
      BY ClaimedIsNamed
    <2>2. PICK s \in tree.manifest : s.class = "mutable" /\ p \in s.at
      BY ClaimedIsNamed
    <2>3. FileOf[p] # Changelog
      BY <2>2 DEF ChangelogIsHistory, FilesOf, Trees, Tree
    <2>4. plan.names[p] = v
      BY <2>1, PlanNames
    <2>5. QED
      BY <2>1, <2>3, <2>4 DEF Naming
  <1>2. IsFiniteSet(outside) /\ IsFiniteSet(inside) /\ IsFiniteSet(moved)
    <2>1. outside \subseteq Place /\ inside \subseteq Place
      BY DEF Naming
    <2>2. QED
      BY <1>1, <2>1, FS_Subset, VersionSitesAssumption
  <1>3. outside \cap inside = {}
    BY DEF Naming
  <1>4. Naming(plan, Place, v) = outside \cup inside
    BY DEF Naming
  <1>5. Cardinality(Naming(plan, Place, v)) = Cardinality(moved) + Cardinality(inside)
    BY DEF Cuttable, ExactSets, PlanOf
  <1> HIDE DEF outside, inside, moved
  <1>6. Cardinality(outside \cup inside) = Cardinality(outside) + Cardinality(inside)
    <2>2. Cardinality(outside \cap inside) = 0
      BY <1>3, FS_EmptySet
    <2>3. Cardinality(outside) \in Nat /\ Cardinality(inside) \in Nat
      BY <1>2, FS_CardinalityType
    <2>4. Cardinality(outside \cup inside) =
            Cardinality(outside) + Cardinality(inside) - Cardinality(outside \cap inside)
      BY ONLY <1>2, FS_Union
    <2>5. QED
      BY <2>2, <2>3, <2>4
  <1>7. Cardinality(outside) = Cardinality(moved)
    <2>1. Cardinality(outside) \in Nat /\ Cardinality(inside) \in Nat /\ Cardinality(moved) \in Nat
      BY <1>2, FS_CardinalityType
    <2>2. QED
      BY <1>6, <1>4, <1>5, <2>1
  <1>8. moved = outside
    BY <1>1, <1>2, <1>7, FS_Subset
  <1>9. QED
    BY <1>8 DEF outside, moved

-----------------------------------------------------------------------------
(* The order of versions.                                                  *)

LEMMA NeverBeforeItself ==
  ASSUME NEW v \in Version
  PROVE  ~ VersionBefore(v, v)
  <1>1. v.core \in Nat /\ v.pre \in Seq({0, 1} \X Nat)
    BY VersionSitesAssumption
  <1>2. QED
    BY <1>1 DEF VersionBefore, PreBefore, IdBefore

LEMMA SequenceEntry == ASSUME NEW S, NEW s \in Seq(S), NEW n \in 1..Len(s) PROVE s[n] \in S
  OBVIOUS

LEMMA PreBeforeIsTransitive ==
  ASSUME NEW p \in Seq({0, 1} \X Nat), NEW q \in Seq({0, 1} \X Nat),
         NEW r \in Seq({0, 1} \X Nat), PreBefore(p, q), PreBefore(q, r)
  PROVE  PreBefore(p, r)
  <1> DEFINE Differ(a, b, k) ==
               /\ k - 1 <= Len(a) /\ \A m \in 1..k - 1 : a[m] = b[m]
               /\ IF k > Len(a) THEN TRUE ELSE IdBefore(a[k], b[k])
  <1>1. p # <<>> /\ q # <<>>
    BY DEF PreBefore
  <1>2. CASE r = <<>>
    BY <1>1, <1>2 DEF PreBefore
  <1>3. CASE r # <<>>
    <2>1. PICK j \in 1..Len(q) : Differ(p, q, j)
      BY <1>1 DEF PreBefore
    <2>2. PICK k \in 1..Len(r) : Differ(q, r, k)
      BY <1>3 DEF PreBefore
    <2>3. CASE j < k
      <3>1. j \in 1..Len(r) /\ q[j] = r[j]
        BY <2>2, <2>3
      <3>2. Differ(p, r, j)
        BY <2>1, <2>2, <2>3, <3>1
      <3>3. QED
        BY <1>1, <3>1, <3>2 DEF PreBefore
    <2>4. CASE k < j
      <3>1. p[k] = q[k] /\ k <= Len(p) /\ k <= Len(q) /\ \A m \in 1..k - 1 : p[m] = q[m]
        <4>1. Len(p) \in Nat /\ Len(q) \in Nat /\ Len(r) \in Nat
          OBVIOUS
        <4>2. k \in 1..j - 1 /\ k \in Nat /\ k <= j - 1
          BY <2>4, <4>1
        <4>3. j \in Nat /\ j - 1 <= Len(p) /\ j <= Len(q)
          BY <2>1, <4>1
        <4>4. \A m \in 1..j - 1 : p[m] = q[m]
          BY <2>1
        <4>5. k <= Len(p) /\ k <= Len(q) /\ k \in Nat
          <5>1. ASSUME NEW a \in Nat, NEW b \in Nat, NEW c \in Nat, NEW d \in Nat,
                       a <= b - 1, b - 1 <= c, b <= d
                PROVE  a <= c /\ a <= d
            BY <5>1
          <5>2. QED
            BY <4>1, <4>2, <4>3, <5>1
        <4>6. 1..k - 1 \subseteq 1..j - 1
          BY <4>2, <4>3
        <4>7. p[k] = q[k]
          BY <4>2, <4>4
        <4>8. ASSUME NEW m \in 1..k - 1 PROVE p[m] = q[m]
          <5>1. m \in 1..j - 1
            BY <4>6
          <5>2. QED
            BY <4>4, <5>1
        <4>9. QED
          BY <4>5, <4>7, <4>8
      <3>2. IdBefore(p[k], r[k])
        BY <2>2, <3>1
      <3>3. \A m \in 1..k - 1 : p[m] = r[m]
        BY <2>2, <3>1
      <3>4. Differ(p, r, k)
        BY <3>1, <3>2, <3>3
      <3>5. QED
        BY <1>1, <3>4 DEF PreBefore
    <2>5. CASE j = k
      <3>1. j <= Len(q) /\ IdBefore(q[j], r[j])
        BY <2>2, <2>5
      <3>2. ASSUME j <= Len(p) PROVE IdBefore(p[j], r[j])
        <4>1. IdBefore(p[j], q[j])
          BY <2>1, <3>2
        <4>2. p[j] \in {0, 1} \X Nat /\ q[j] \in {0, 1} \X Nat /\ r[j] \in {0, 1} \X Nat
          <5>1. j \in 1..Len(p) /\ j \in 1..Len(q) /\ j \in 1..Len(r)
            <6>1. Len(p) \in Nat /\ j \in Nat /\ j >= 1
              OBVIOUS
            <6>2. j \in 1..Len(p)
              BY <3>2, <6>1
            <6>3. k \in 1..Len(r)
              OBVIOUS
            <6>4. QED
              BY <2>5, <6>2, <6>3
          <5>2. QED
            BY <5>1, SequenceEntry, Zenon
        <4>3. ASSUME NEW a \in {0, 1} \X Nat, NEW b \in {0, 1} \X Nat, NEW c \in {0, 1} \X Nat,
                     IdBefore(a, b), IdBefore(b, c)
              PROVE  IdBefore(a, c)
          BY <4>3 DEF IdBefore
        <4>4. QED
          BY <3>1, <4>1, <4>2, <4>3
      <3>3. Differ(p, r, j)
        BY <2>1, <2>2, <2>5, <3>2
      <3>4. QED
        BY <1>1, <2>5, <3>3 DEF PreBefore
    <2>6. QED
      BY <2>3, <2>4, <2>5
  <1>4. QED
    BY <1>2, <1>3

LEMMA VersionBeforeIsTransitive ==
  ASSUME NEW u \in Version, NEW v \in Version, NEW w \in Version,
         VersionBefore(u, v), VersionBefore(v, w)
  PROVE  VersionBefore(u, w)
  <1>1. \A x \in {u, v, w} : x.core \in Nat /\ x.pre \in Seq({0, 1} \X Nat)
    BY VersionSitesAssumption
  <1>2. u.core = v.core /\ v.core = w.core => PreBefore(u.pre, v.pre) /\ PreBefore(v.pre, w.pre)
    BY <1>1 DEF VersionBefore
  <1>3. u.core = v.core /\ v.core = w.core => PreBefore(u.pre, w.pre)
    BY <1>1, <1>2, PreBeforeIsTransitive
  <1>4. QED
    BY <1>1, <1>3 DEF VersionBefore

-----------------------------------------------------------------------------
(* The versions along the branch.                                          *)

AtMost(v, w) == v = w \/ VersionBefore(v, w)

\* The version of package.json never falls behind a cut.
VersionsAdvance ==
  \A m \in 1..Len(log) : log[m].subject # Work =>
    /\ \A n \in m..Len(log) : AtMost(log[m].subject, log[n].tree.names[PackageAt])
    /\ AtMost(log[m].subject, checkout.tree.names[PackageAt])

\* So no version is cut twice on one branch, and what has the name of a cut is that cut.
OneCutEach ==
  \A m, n \in 1..Len(log) :
    log[m].subject # Work /\ log[m].subject = log[n].subject => m = n

NamesAgree ==
  \A v \in Version : \A c \in Named(v) :
    /\ \A d \in Named(v) : c = d
    /\ \A n \in 1..Len(log) : log[n].subject = v => log[n] = c

Ordered == VersionsAdvance /\ OneCutEach /\ NamesAgree

-----------------------------------------------------------------------------
(* The invariant of the cut.                                               *)

LEMMA RecordOfCut ==
  ASSUME ReleaseTypes
  PROVE  /\ cut.at \in Drafting \cup {"rehearsing"} => cut \in Drafts
         /\ cut.at \in {"tagging", "verifying"} => cut \in TaggingCuts
         /\ cut.at = "idle" \/ cut.at \in Drafting \cup {"rehearsing", "tagging", "verifying"}
         /\ cut.answer \in Verdicts
  BY DEF ReleaseTypes, IdleCuts, TaggingCuts, Drafts, Drafting

LEMMA TipIsCommit ==
  ASSUME ReleaseTypes
  PROVE  Len(log) \in 1..Len(log) /\ Tip \in Commits /\ Tip.tree \in Trees
  <1>1. Len(log) \in 1..Len(log)
    BY DEF ReleaseTypes
  <1>2. Tip \in Commits
    BY <1>1 DEF ReleaseTypes, Tip
  <1>3. QED
    BY <1>1, <1>2 DEF Commits

\* A cut that has ended relies on nothing.
LEMMA IdleIsQuiet ==
  ASSUME cut' \in IdleCuts
  PROVE  DraftFollowsPlan' /\ DraftIsGated'
  BY DEF IdleCuts, DraftFollowsPlan, DraftIsGated, Drafting

LEMMA AnswerIsIdle ==
  ASSUME NEW what \in Verdicts, Answer(what)
  PROVE  cut' \in IdleCuts
  BY DEF Answer, IdleCuts

\* What went through the gate did so.
LEMMA WentStays ==
  ASSUME gated \subseteq gated'
  PROVE  \A tree, v : WentThrough(tree, v) => WentThrough(tree, v)'
  BY DEF WentThrough

LEMMA GatedStays ==
  ASSUME CutInv, gated \subseteq gated', log' = log, \A v \in Version : Named(v)' \subseteq Named(v)
  PROVE  CutsWentThrough' /\ NamesWentThrough'
  <1>1. CutsWentThrough'
    BY WentStays DEF CutInv, CutsWentThrough
  <1>2. NamesWentThrough'
    BY WentStays DEF CutInv, NamesWentThrough
  <1>3. QED
    BY <1>1, <1>2

LEMMA InitCutInv == Init => CutInv
  <1> SUFFICES ASSUME Init PROVE CutInv
    OBVIOUS
  <1>1. PICK tree \in StartTrees :
          /\ log = <<[subject |-> Work, tree |-> tree]>>
          /\ checkout = [tree |-> tree, stray |-> FALSE, staged |-> FALSE]
    BY DEF Init
  <1>2. tree \in Trees
    BY ReleaseAssumption DEF Trees
  <1>3. log \in Seq(Commits) /\ Len(log) = 1 /\ log[1].subject = Work
    <2>1. [subject |-> Work, tree |-> tree] \in Commits
      BY <1>2 DEF Commits
    <2>2. QED
      BY <1>1, <2>1
  <1>4. cut \in IdleCuts /\ cut.at = "idle"
    BY DEF Init, NoCut, IdleCuts, Verdicts
  <1>5. ReleaseTypes
    <2>1. checkout \in [tree : Trees, stray : BOOLEAN, staged : BOOLEAN]
      BY <1>1, <1>2
    <2>2. tag \in [Version -> Commits \cup {NoCommit}] /\ remote = tag /\ published = tag
      BY DEF Init
    <2>3. QED
      BY <1>3, <1>4, <2>1, <2>2 DEF ReleaseTypes
  <1>6. DraftFollowsPlan /\ DraftIsGated
    BY <1>4 DEF DraftFollowsPlan, DraftIsGated, Drafting
  <1>7. CutsWentThrough
    BY <1>3 DEF CutsWentThrough
  <1>8. NamesWentThrough
    BY DEF Init, NamesWentThrough, Named
  <1>9. QED
    BY <1>5, <1>6, <1>7, <1>8 DEF CutInv

-----------------------------------------------------------------------------
(* The steps of the cut.                                                   *)

LEMMA BeginCutInv ==
  ASSUME CutInv, NEW v \in Version, NEW dry \in BOOLEAN, BeginCut(v, dry)
  PROVE  CutInv'
  <1> DEFINE old == PackageVersion
             allowed == Allowed(checkout.tree, old)
             draft == [at |-> IF dry THEN "rehearsing" ELSE "writing", version |-> v,
                       answer |-> "cut", before |-> checkout.tree, head |-> Tip,
                       plan |-> Planned(checkout.tree, old, v), allowed |-> allowed,
                       todo |-> allowed]
             tagging == [at |-> "tagging", version |-> v, answer |-> "resumed-tag"]
  <1>1. UNCHANGED <<log, tag, remote, published, checkout, gated>>
    BY DEF BeginCut
  <1>2. \/ cut' \in IdleCuts
        \/ (cut' = tagging /\ Tip.subject = v)
        \/ cut' = draft /\ Clean /\ Plannable(v)
    <2>1. \/ Resume(v)
          \/ Clean /\ Plannable(v) /\ cut' = draft
          \/ Answer("refused")
      BY DEF BeginCut
    <2>2. ASSUME Resume(v) PROVE cut' \in IdleCuts \/ (cut' = tagging /\ Tip.subject = v)
      <3>1. Answer("already-cut") \/ Answer("refused") \/ (cut' = tagging /\ Tip.subject = v)
        <4>1. CASE tag[v] # NoCommit
          BY <2>2, <4>1 DEF Resume, Answer
        <4>2. CASE tag[v] = NoCommit /\ Tip.subject = v
          BY <2>2, <4>2 DEF Resume
        <4>3. CASE tag[v] = NoCommit /\ Tip.subject # v
          BY <2>2, <4>3 DEF Resume, Answer
        <4>4. QED
          BY <4>1, <4>2, <4>3
      <3>2. QED
        BY <3>1, AnswerIsIdle DEF Verdicts
    <2>3. QED
      BY <2>1, <2>2, AnswerIsIdle DEF Verdicts
  <1>3. CutsWentThrough' /\ NamesWentThrough'
    BY <1>1, GatedStays DEF Named
  <1>4. CASE cut' \in IdleCuts
    <2>1. ReleaseTypes'
      BY <1>1, <1>4 DEF CutInv, ReleaseTypes
    <2>2. QED
      BY <1>3, <1>4, <2>1, IdleIsQuiet DEF CutInv
  <1>5. CASE cut' = tagging /\ Tip.subject = v
    <2>1. cut' \in TaggingCuts /\ cut'.at = "tagging" /\ cut'.version = v
      BY <1>5 DEF TaggingCuts, Verdicts
    <2>2. ReleaseTypes'
      BY <1>1, <2>1 DEF CutInv, ReleaseTypes
    <2>3. DraftFollowsPlan' /\ DraftIsGated'
      BY <1>1, <1>5, <2>1 DEF DraftFollowsPlan, DraftIsGated, Drafting, Tip
    <2>4. QED
      BY <1>3, <2>2, <2>3 DEF CutInv
  <1>6. CASE cut' = draft /\ Clean /\ Plannable(v)
    <2>1. checkout.tree = Tip.tree /\ Tip \in Commits /\ Tip.tree \in Trees
      BY <1>6, TipIsCommit DEF Clean, CutInv
    <2>2. old = checkout.tree.names[PackageAt]
      BY DEF PackageVersion
    <2>3. allowed = AllowedOf(checkout.tree) /\ draft.plan = PlanOf(checkout.tree, v)
      BY <2>2 DEF AllowedOf, PlanOf
    <2>4. allowed \subseteq Files /\ draft.plan \in Trees
      BY <2>1, <2>3, AllowedIsFiles, PlanIsTree
    <2>5. cut' \in Drafts
      BY <1>6, <2>1, <2>4 DEF Drafts, Drafting, Verdicts
    <2>6. ReleaseTypes'
      BY <1>1, <2>5 DEF CutInv, ReleaseTypes
    <2>7. Cuttable(checkout.tree, v) /\ Free(v)
      BY <1>6, <2>2 DEF Plannable, Cuttable
    <2>8. checkout.tree = With(checkout.tree, draft.plan, allowed \ allowed)
      BY <2>1, WithNothing
    <2>9. /\ cut'.before = checkout.tree /\ cut'.version = v /\ cut'.plan = draft.plan
          /\ cut'.allowed = allowed /\ cut'.todo = allowed
          /\ cut'.at \in {"rehearsing", "writing"}
      BY <1>6
    <2> HIDE DEF draft, allowed
    <2>10. DraftFollowsPlan'
      <3>1. Free(v)' /\ Tip' = Tip
        BY <1>1, <2>7 DEF Free, Tip
      <3>2. QED
        BY <1>1, <2>1, <2>3, <2>7, <2>8, <2>9, <3>1 DEF DraftFollowsPlan, Drafting
    <2>11. DraftIsGated'
      BY <2>9 DEF DraftIsGated
    <2>12. QED
      BY <1>3, <2>6, <2>10, <2>11 DEF CutInv
  <1>7. QED
    BY <1>2, <1>4, <1>5, <1>6

LEMMA RehearseCutInv ==
  ASSUME CutInv, Rehearse
  PROVE  CutInv'
  <1>1. cut' \in IdleCuts
    <2>1. Answer("planned") \/ Answer("refused")
      BY DEF Rehearse
    <2>2. QED
      BY <2>1, AnswerIsIdle DEF Verdicts
  <1>2. UNCHANGED <<log, tag, remote, published, checkout, gated>>
    BY DEF Rehearse
  <1>3. ReleaseTypes'
    BY <1>1, <1>2 DEF CutInv, ReleaseTypes
  <1>4. CutsWentThrough' /\ NamesWentThrough'
    BY <1>2, GatedStays DEF Named
  <1>5. QED
    BY <1>1, <1>3, <1>4, IdleIsQuiet DEF CutInv

LEMMA WriteFileCutInv ==
  ASSUME CutInv, NEW f, WriteFile(f)
  PROVE  CutInv'
  <1> DEFINE written == cut.allowed \ cut.todo
  <1>1. cut \in Drafts /\ cut.at = "writing" /\ f \in cut.todo
    BY RecordOfCut DEF CutInv, WriteFile, Drafting
  <1>2. /\ cut.before \in Trees /\ cut.plan \in Trees /\ cut.todo \subseteq cut.allowed
        /\ checkout.tree = With(cut.before, cut.plan, written)
        /\ checkout \in [tree : Trees, stray : BOOLEAN, staged : BOOLEAN]
    BY <1>1 DEF CutInv, ReleaseTypes, DraftFollowsPlan, Drafts, Drafting
  <1>3. UNCHANGED <<log, tag, remote, published, gated>>
    BY DEF WriteFile
  <1>4. /\ checkout'.tree = With(checkout.tree, cut.plan, {f})
        /\ checkout' \in [tree : Trees, stray : BOOLEAN, staged : BOOLEAN]
    BY <1>2, WithIsTree DEF WriteFile
  <1>5. /\ cut' \in Drafts /\ cut'.at \in {"writing", "gate"} /\ cut'.todo = cut.todo \ {f}
        /\ cut'.before = cut.before /\ cut'.plan = cut.plan /\ cut'.version = cut.version
        /\ cut'.allowed = cut.allowed
        /\ cut'.at # "writing" => cut'.todo = {}
    BY <1>1 DEF WriteFile, Drafts, Drafting
  <1>6. checkout'.tree = With(cut.before, cut.plan, cut'.allowed \ cut'.todo)
    <2>1. checkout'.tree = With(cut.before, cut.plan, written \cup {f})
      BY <1>2, <1>4, WithMore
    <2>2. cut'.allowed = cut.allowed /\ cut'.todo = cut.todo \ {f}
      BY <1>5
    <2>3. f \in cut.allowed
      BY <1>1, <1>2
    <2>4. written \cup {f} = cut'.allowed \ cut'.todo
      BY <2>2, <2>3
    <2>5. QED
      BY <2>1, <2>4
  <1>7. ReleaseTypes'
    BY <1>3, <1>4, <1>5 DEF CutInv, ReleaseTypes
  <1>8. DraftFollowsPlan'
    <2>1. /\ cut.before = Tip.tree /\ Cuttable(cut.before, cut.version) /\ Free(cut.version)
          /\ cut.plan = PlanOf(cut.before, cut.version)
          /\ cut.allowed = AllowedOf(cut.before)
      BY <1>1 DEF CutInv, DraftFollowsPlan, Drafting
    <2>2. Tip' = Tip /\ Free(cut.version)'
      BY <1>3, <1>5, <2>1 DEF Tip, Free
    <2>3. cut'.todo \subseteq cut'.allowed /\ (cut'.at # "writing" => cut'.todo = {})
      BY <1>2, <1>5
    <2>4. ASSUME cut'.at # "writing"
          PROVE  checkout'.tree.names[PackageAt] = cut'.plan.names[PackageAt]
      <3>1. cut'.todo = {} /\ PackageAt \in Place /\ cut.version \in Version
        BY <1>1, <1>5, <2>4, ReleaseAssumption DEF Drafts
      <3>2. checkout'.tree = With(cut.before, PlanOf(cut.before, cut.version), AllowedOf(cut.before))
        BY <1>5, <1>6, <2>1, <3>1
      <3>3. QED
        BY <1>2, <1>5, <2>1, <3>1, <3>2, DraftNames
    <2>5. QED
      BY <1>5, <1>6, <2>1, <2>2, <2>3, <2>4 DEF DraftFollowsPlan
  <1>9. DraftIsGated'
    BY <1>5 DEF DraftIsGated
  <1>10. CutsWentThrough' /\ NamesWentThrough'
    BY <1>3, GatedStays DEF Named
  <1>11. QED
    BY <1>7, <1>8, <1>9, <1>10 DEF CutInv

\* From the gate to the commit only the step of the cut changes, and what the gate rewrote.
LEMMA DraftMovesOn ==
  ASSUME CutInv, cut.at \in Drafting \ {"writing"}, NEW to \in {"staging", "committing"},
         cut' = [cut EXCEPT !.at = to],
         PackageAt \notin Rewritable =>
           checkout'.tree.names[PackageAt] = checkout.tree.names[PackageAt],
         UNCHANGED <<log, tag, remote, published>>
  PROVE  /\ cut' \in Drafts /\ cut'.at = to /\ cut'.version = cut.version /\ DraftFollowsPlan'
  <1>1. cut \in Drafts
    BY RecordOfCut DEF CutInv, Drafting
  <1>2. /\ cut' \in Drafts /\ cut'.at = to /\ cut'.before = cut.before /\ cut'.plan = cut.plan
        /\ cut'.version = cut.version /\ cut'.allowed = cut.allowed /\ cut'.todo = cut.todo
    BY <1>1 DEF Drafts, Drafting
  <1>3. /\ cut.before = Tip.tree /\ Cuttable(cut.before, cut.version) /\ Free(cut.version)
        /\ cut.plan = PlanOf(cut.before, cut.version)
        /\ cut.allowed = AllowedOf(cut.before) /\ cut.todo = {}
        /\ PackageAt \notin Rewritable =>
             checkout.tree.names[PackageAt] = cut.plan.names[PackageAt]
    BY DEF CutInv, DraftFollowsPlan, Drafting
  <1>4. Tip' = Tip /\ Free(cut.version)'
    BY <1>2, <1>3 DEF Tip, Free
  <1>5. QED
    BY <1>2, <1>3, <1>4 DEF DraftFollowsPlan

Checkouts == [tree : Trees, stray : BOOLEAN, staged : BOOLEAN]

LEMMA RestoredIsCheckout ==
  ASSUME CutInv, cut.at \in Drafting, NEW c \in Checkouts
  PROVE  /\ Restored(c) \in Checkouts
         /\ Restored(c).tree = With(c.tree, cut.before, cut.allowed)
  <1>1. cut.before \in Trees
    BY RecordOfCut DEF CutInv, Drafts
  <1>2. With(c.tree, cut.before, cut.allowed) \in Trees
    BY <1>1, WithIsTree DEF Checkouts
  <1>3. QED
    BY <1>2 DEF Restored, Checkouts

\* A cut that is refused restores the checkout and leaves everything else.
LEMMA RefusalCutInv ==
  ASSUME CutInv, cut' \in IdleCuts, checkout' \in Checkouts,
         UNCHANGED <<log, tag, remote, published, gated>>
  PROVE  CutInv'
  <1>1. ReleaseTypes'
    BY DEF CutInv, ReleaseTypes, Checkouts
  <1>2. CutsWentThrough' /\ NamesWentThrough'
    BY GatedStays DEF Named
  <1>3. QED
    BY <1>1, <1>2, IdleIsQuiet DEF CutInv

\* Two trees differ at most where either differs from a third.
LEMMA DiffersAtMost ==
  ASSUME NEW a, NEW b, NEW c
  PROVE  Differing(a, c) \subseteq Differing(a, b) \cup Differing(b, c)
  BY DEF Differing

\* A plan that is written to its files differs from the tree in none but these.
LEMMA DraftDiffers ==
  ASSUME NEW tree \in Trees, NEW plan \in Trees, NEW files
  PROVE  Differing(tree, With(tree, plan, files)) \subseteq files
  <1> DEFINE draft == With(tree, plan, files)
  <1>1. \A p \in Place : FileOf[p] \notin files => draft.names[p] = tree.names[p]
    BY DEF With
  <1>2. Changelog \notin files => draft.notes = tree.notes
    BY DEF With
  <1>3. Readme \notin files => draft.channel = tree.channel
    BY DEF With
  <1> HIDE DEF draft
  <1>4. ASSUME NEW f \in Differing(tree, draft), f \notin files PROVE FALSE
    <2>1. CASE f \in {FileOf[p] : p \in {q \in Place : tree.names[q] # draft.names[q]}}
      BY <1>1, <1>4, <2>1
    <2>2. CASE f = Changelog /\ tree.notes # draft.notes
      BY <1>2, <1>4, <2>2
    <2>3. CASE f = Readme /\ tree.channel # draft.channel
      BY <1>3, <1>4, <2>3
    <2>4. QED
      BY <1>4, <2>1, <2>2, <2>3 DEF Differing
  <1>5. QED
    BY <1>4 DEF draft

LEMMA DifferingIsMutual ==
  ASSUME NEW a, NEW b
  PROVE  Differing(a, b) = Differing(b, a)
  BY DEF Differing

LEMMA AfterGateIsCheckout ==
  ASSUME checkout \in Checkouts, NEW stray \in BOOLEAN, NEW names \in Rewritings
  PROVE  /\ AfterGate(stray, names) \in Checkouts
         /\ PackageAt \notin Rewritable =>
              AfterGate(stray, names).tree.names[PackageAt] = checkout.tree.names[PackageAt]
  <1> DEFINE tree == checkout.tree
             mixed == [p \in Place |-> IF p \in Rewritable THEN names[p] ELSE tree.names[p]]
             after == [tree EXCEPT !.names = mixed]
  <1>1. tree \in Tree /\ tree.names[PackageAt] \in Version /\ PackageAt \in Place
    BY ReleaseAssumption DEF Checkouts, Trees
  <1>2. mixed \in [Place -> Version \cup {Nothing}]
    BY <1>1 DEF Rewritings, Tree
  <1>3. mixed[PackageAt] \in Version
    BY <1>1 DEF Rewritings
  <1>4. PackageAt \notin Rewritable => mixed[PackageAt] = tree.names[PackageAt]
    BY <1>1
  <1>5. checkout.stray \/ stray \in BOOLEAN
    BY DEF Checkouts
  <1>6. AfterGate(stray, names) = [checkout EXCEPT !.stray = checkout.stray \/ stray, !.tree = after]
    BY DEF AfterGate, Checkouts, Trees, Tree
  <1> HIDE DEF mixed
  <1>7. after \in Trees /\ after.names = mixed
    BY <1>1, <1>2, <1>3 DEF Trees, Tree
  <1> HIDE DEF after
  <1>8. QED
    BY <1>4, <1>5, <1>6, <1>7 DEF Checkouts

LEMMA GateCutInv ==
  ASSUME CutInv, Gate
  PROVE  CutInv'
  <1>1. UNCHANGED <<log, tag, remote, published>> /\ cut.at = "gate"
    BY DEF Gate
  <1>2. PICK stray \in BOOLEAN, names \in Rewritings :
          \/ /\ ChangedAsPlanned(AfterGate(stray, names))
             /\ checkout' = AfterGate(stray, names) /\ gated' = gated \cup {Passed}
             /\ cut' = [cut EXCEPT !.at = "staging"]
          \/ checkout' = Restored(AfterGate(stray, names)) /\ Answer("refused") /\ UNCHANGED gated
    BY DEF Gate
  <1> DEFINE after == AfterGate(stray, names)
  <1>3. /\ after \in Checkouts
        /\ PackageAt \notin Rewritable =>
             after.tree.names[PackageAt] = checkout.tree.names[PackageAt]
    BY AfterGateIsCheckout DEF CutInv, ReleaseTypes, Checkouts
  <1> HIDE DEF after
  <1>4. CASE /\ ChangedAsPlanned(after) /\ checkout' = after /\ gated' = gated \cup {Passed}
             /\ cut' = [cut EXCEPT !.at = "staging"]
    <2>1. cut' \in Drafts /\ cut'.at = "staging" /\ cut'.version = cut.version /\ DraftFollowsPlan'
      BY <1>1, <1>3, <1>4, DraftMovesOn DEF Drafting
    <2>2. ReleaseTypes'
      BY <1>1, <1>3, <1>4, <2>1 DEF CutInv, ReleaseTypes, Checkouts
    <2>3. WentThrough(checkout.tree, cut.version)'
      <3>1. /\ cut.before \in Trees /\ cut.plan \in Trees /\ cut.before = Tip.tree
            /\ cut.allowed = AllowedOf(cut.before) /\ cut.todo = {}
            /\ checkout.tree = With(cut.before, cut.plan, cut.allowed \ cut.todo)
        BY <1>1, RecordOfCut DEF CutInv, DraftFollowsPlan, Drafting, Drafts
      <3>2. Differing(cut.before, checkout.tree) \subseteq cut.allowed
        BY <3>1, DraftDiffers
      <3>3. Differing(cut.before, after.tree) = cut.allowed
        BY <1>4, <3>1, DifferingIsMutual DEF ChangedAsPlanned
      <3>4. Differing(checkout.tree, after.tree) \subseteq AllowedOf(cut.before)
        BY <3>1, <3>2, <3>3, DiffersAtMost, DifferingIsMutual
      <3>5. Passed \in gated' /\ Passed.version = cut'.version /\ Passed.before = cut.before
            /\ Passed.tree = checkout.tree
        BY <1>4, <2>1 DEF Passed
      <3>6. Differing(Passed.tree, checkout'.tree) \subseteq AllowedOf(Passed.before)
        BY <1>4, <3>4, <3>5
      <3>7. PICK g \in gated' : g = Passed
        BY <3>5
      <3>8. QED
        BY <3>5, <3>6, <3>7 DEF WentThrough
    <2>4. DraftIsGated'
      BY <2>1, <2>3 DEF DraftIsGated
    <2>5. CutsWentThrough' /\ NamesWentThrough'
      BY <1>1, <1>4, GatedStays DEF Named
    <2>6. QED
      BY <2>1, <2>2, <2>4, <2>5 DEF CutInv
  <1>5. CASE checkout' = Restored(after) /\ Answer("refused") /\ UNCHANGED gated
    <2>1. checkout' \in Checkouts
      BY <1>1, <1>3, <1>5, RestoredIsCheckout DEF Drafting
    <2>2. QED
      BY <1>1, <1>5, <2>1, AnswerIsIdle, RefusalCutInv DEF Verdicts
  <1>6. QED
    BY <1>2, <1>4, <1>5 DEF after

LEMMA StageCutInv ==
  ASSUME CutInv, Stage
  PROVE  CutInv'
  <1>1. UNCHANGED <<log, tag, remote, published, gated>> /\ cut.at = "staging"
    BY DEF Stage
  <1>2. checkout \in Checkouts
    BY DEF CutInv, ReleaseTypes, Checkouts
  <1>3. CASE /\ checkout' = [checkout EXCEPT !.staged = TRUE]
             /\ cut' = [cut EXCEPT !.at = "committing"]
    <2>1. checkout' \in Checkouts /\ checkout'.tree = checkout.tree
      BY <1>2, <1>3 DEF Checkouts
    <2>2. /\ cut' \in Drafts /\ cut'.at = "committing" /\ cut'.version = cut.version
          /\ DraftFollowsPlan'
      BY <1>1, <1>3, <2>1, DraftMovesOn DEF Drafting
    <2>3. ReleaseTypes'
      BY <1>1, <2>1, <2>2 DEF CutInv, ReleaseTypes, Checkouts
    <2>4. DraftIsGated'
      BY <1>1, <2>1, <2>2 DEF CutInv, DraftIsGated, WentThrough
    <2>5. CutsWentThrough' /\ NamesWentThrough'
      BY <1>1, GatedStays DEF Named
    <2>6. QED
      BY <2>2, <2>3, <2>4, <2>5 DEF CutInv
  <1>4. CASE checkout' = Restored(checkout) /\ Answer("refused")
    <2>1. checkout' \in Checkouts
      BY <1>1, <1>2, <1>4, RestoredIsCheckout DEF Drafting
    <2>2. QED
      BY <1>1, <1>4, <2>1, AnswerIsIdle, RefusalCutInv DEF Verdicts
  <1>5. QED
    BY <1>3, <1>4 DEF Stage

LEMMA LogGrows ==
  ASSUME ReleaseTypes, NEW c \in Commits, log' = Append(log, c)
  PROVE  /\ log' \in Seq(Commits) /\ Len(log') = Len(log) + 1 /\ Len(log') >= 1
         /\ log'[1].subject = Work /\ Tip' = c
         /\ \A n \in 1..Len(log') : 
              (n \in 1..Len(log) /\ log'[n] = log[n]) \/ (n = Len(log') /\ log'[n] = c)
  BY DEF ReleaseTypes, Tip

LEMMA CommitCutInv ==
  ASSUME CutInv, Commit
  PROVE  CutInv'
  <1> DEFINE made == [subject |-> cut.version, tree |-> checkout.tree]
  <1>1. UNCHANGED <<tag, remote, published, gated>> /\ cut.at = "committing"
    BY DEF Commit
  <1>2. checkout \in Checkouts /\ cut.version \in Version
    BY <1>1, RecordOfCut DEF CutInv, ReleaseTypes, Checkouts, Drafts, Drafting
  <1>3. CASE /\ log' = Append(log, made)
             /\ checkout' = [checkout EXCEPT !.staged = FALSE]
             /\ cut' = [at |-> "tagging", version |-> cut.version, answer |-> "cut"]
    <2>1. made \in Commits /\ made.subject = cut.version /\ made.tree = checkout.tree
      BY <1>2 DEF Commits, Checkouts
    <2>2. checkout' \in Checkouts
      BY <1>2, <1>3 DEF Checkouts
    <2>3. cut' \in TaggingCuts /\ cut'.at = "tagging" /\ cut'.version = cut.version
      BY <1>2, <1>3 DEF TaggingCuts, Verdicts
    <2> HIDE DEF made
    <2>4. ReleaseTypes'
      BY <1>1, <1>3, <2>1, <2>2, <2>3, LogGrows DEF CutInv, ReleaseTypes, Checkouts
    <2>5. DraftFollowsPlan'
      BY <2>3 DEF DraftFollowsPlan, Drafting
    <2>6. DraftIsGated'
      BY <1>3, <2>1, <2>3, LogGrows DEF CutInv, DraftIsGated
    <2>7. CutsWentThrough'
      <3>1. WentThrough(made.tree, made.subject)
        BY <1>1, <2>1 DEF CutInv, DraftIsGated
      <3>2. \A tree, v : WentThrough(tree, v) => WentThrough(tree, v)'
        BY <1>1, WentStays
      <3>3. QED
        BY <1>1, <1>3, <2>1, <3>1, <3>2, LogGrows DEF CutInv, CutsWentThrough
    <2>8. NamesWentThrough'
      BY <1>1, WentStays DEF CutInv, NamesWentThrough, Named
    <2>9. QED
      BY <2>4, <2>5, <2>6, <2>7, <2>8 DEF CutInv
  <1>4. CASE /\ checkout' = [Restored(checkout) EXCEPT !.staged = FALSE]
             /\ Answer("refused") /\ UNCHANGED log
    <2>1. checkout' \in Checkouts
      BY <1>1, <1>2, <1>4, RestoredIsCheckout DEF Drafting, Checkouts
    <2>2. QED
      BY <1>1, <1>4, <2>1, AnswerIsIdle, RefusalCutInv DEF Verdicts
  <1>5. QED
    BY <1>3, <1>4 DEF Commit

\* The tags of one version are moved; what is moved to is a cut that was gated.
LEMMA CreateTagCutInv ==
  ASSUME CutInv, CreateTag
  PROVE  CutInv'
  <1>1. UNCHANGED <<log, remote, published, checkout, gated>> /\ cut.at = "tagging"
    BY DEF CreateTag
  <1>2. cut \in TaggingCuts /\ cut.version \in Version /\ Tip.subject = cut.version
    BY <1>1, RecordOfCut DEF CutInv, DraftIsGated, TaggingCuts
  <1>3. Tip \in Commits /\ WentThrough(Tip.tree, cut.version)
    BY <1>2, TipIsCommit, VersionSitesAssumption DEF CutInv, CutsWentThrough, Tip, Work
  <1>4. CASE tag' = [tag EXCEPT ![cut.version] = Tip] /\ cut' = [cut EXCEPT !.at = "verifying"]
    <2>1. cut' \in TaggingCuts /\ cut'.at = "verifying" /\ cut'.version = cut.version
      BY <1>2, <1>4 DEF TaggingCuts
    <2>2. tag' \in [Version -> Commits \cup {NoCommit}]
      BY <1>2, <1>3, <1>4 DEF CutInv, ReleaseTypes
    <2>3. ReleaseTypes'
      BY <1>1, <2>1, <2>2 DEF CutInv, ReleaseTypes
    <2>4. DraftFollowsPlan' /\ DraftIsGated'
      BY <1>1, <1>2, <2>1 DEF DraftFollowsPlan, DraftIsGated, Drafting, Tip
    <2>5. CutsWentThrough'
      BY <1>1, WentStays DEF CutInv, CutsWentThrough
    <2>6. NamesWentThrough'
      <3>1. \A v \in Version : \A c \in Named(v)' : c \in Named(v) \/ (v = cut.version /\ c = Tip)
        BY <1>1, <1>4 DEF Named, CutInv, ReleaseTypes
      <3>2. QED
        BY <1>1, <1>2, <1>3, <3>1, WentStays DEF CutInv, NamesWentThrough
    <2>7. QED
      BY <2>3, <2>4, <2>5, <2>6 DEF CutInv
  <1>5. CASE Answer("refused") /\ UNCHANGED tag
    <2>1. checkout' \in Checkouts
      BY <1>1 DEF CutInv, ReleaseTypes, Checkouts
    <2>2. QED
      BY <1>1, <1>5, <2>1, AnswerIsIdle, RefusalCutInv DEF Verdicts
  <1>6. QED
    BY <1>4, <1>5 DEF CreateTag

\* Nothing but the names of versions changes, and those only to what was named before.
LEMMA NamesFall ==
  ASSUME CutInv, UNCHANGED <<log, checkout, gated>>,
         (cut' = cut /\ cut.at \notin Drafting) \/ cut' \in IdleCuts,
         tag' \in [Version -> Commits \cup {NoCommit}],
         remote' \in [Version -> Commits \cup {NoCommit}],
         published' \in [Version -> Commits \cup {NoCommit}],
         \A v \in Version : Named(v)' \subseteq Named(v)
  PROVE  CutInv'
  <1>1. ReleaseTypes'
    BY DEF CutInv, ReleaseTypes
  <1>2. DraftFollowsPlan' /\ DraftIsGated'
    BY IdleIsQuiet DEF CutInv, Drafting, DraftFollowsPlan, DraftIsGated, Tip
  <1>3. CutsWentThrough' /\ NamesWentThrough'
    BY GatedStays
  <1>4. QED
    BY <1>1, <1>2, <1>3 DEF CutInv

LEMMA VerifyCutInv ==
  ASSUME CutInv, Verify
  PROVE  CutInv'
  <1>1. UNCHANGED <<log, remote, published, checkout, gated>> /\ cut.at = "verifying"
    BY DEF Verify
  <1>2. cut' \in IdleCuts
    <2>1. Answer(cut.answer) \/ Answer("refused")
      BY DEF Verify, Answer
    <2>2. QED
      BY <2>1, RecordOfCut, AnswerIsIdle DEF CutInv, Verdicts
  <1>3. cut.version \in Version /\ (tag' = tag \/ tag' = [tag EXCEPT ![cut.version] = NoCommit])
    BY <1>1, RecordOfCut DEF Verify, CutInv, TaggingCuts
  <1>4. tag' \in [Version -> Commits \cup {NoCommit}]
    BY <1>3 DEF CutInv, ReleaseTypes
  <1>5. \A v \in Version : Named(v)' \subseteq Named(v)
    BY <1>1, <1>3 DEF Named, CutInv, ReleaseTypes
  <1>6. QED
    BY <1>1, <1>2, <1>4, <1>5, NamesFall DEF CutInv, ReleaseTypes

LEMMA DieCutInv ==
  ASSUME CutInv, Die
  PROVE  CutInv'
  <1>1. UNCHANGED <<log, tag, remote, published, checkout, gated>>
    BY DEF Die
  <1>2. cut' \in IdleCuts
    BY DEF Die, NoCut, IdleCuts, Verdicts
  <1>3. QED
    BY <1>1, <1>2, RefusalCutInv DEF CutInv, ReleaseTypes, Checkouts

-----------------------------------------------------------------------------
(* The steps of the operator.                                              *)

\* An errand finds no cut that relies on anything.
LEMMA ErrandIsAside ==
  ASSUME CutInv, Errand
  PROVE  /\ cut' = cut /\ gated' = gated /\ cut.at \in {"idle", "rehearsing"}
         /\ DraftFollowsPlan' /\ DraftIsGated'
  <1>1. cut' = cut /\ gated' = gated /\ cut.at \in {"idle", "rehearsing"}
    BY DEF Errand, Running
  <1>2. QED
    BY <1>1 DEF DraftFollowsPlan, DraftIsGated, Drafting

\* Work that is committed leaves the cuts before it alone.
LEMMA WorkIsNoCut ==
  ASSUME CutInv, Errand, NEW tree \in Trees,
         log' = Append(log, [subject |-> Work, tree |-> tree]),
         checkout' \in Checkouts, UNCHANGED <<tag, remote, published>>
  PROVE  CutInv'
  <1> DEFINE made == [subject |-> Work, tree |-> tree]
  <1>1. made \in Commits /\ made.subject = Work
    BY DEF Commits
  <1> HIDE DEF made
  <1>2. ReleaseTypes'
    BY <1>1, LogGrows, ErrandIsAside DEF CutInv, ReleaseTypes, Checkouts, made
  <1>3. CutsWentThrough'
    BY <1>1, LogGrows, ErrandIsAside, WentStays DEF CutInv, CutsWentThrough, made
  <1>4. NamesWentThrough'
    BY ErrandIsAside, WentStays DEF CutInv, NamesWentThrough, Named
  <1>5. QED
    BY <1>2, <1>3, <1>4, ErrandIsAside DEF CutInv

Merged(extra, manifest) ==
  [checkout.tree EXCEPT !.notes = TRUE, !.manifest = manifest,
                        !.names[ExtraAt] = IF extra THEN PackageVersion ELSE @]

LEMMA MergedIsTree ==
  ASSUME CutInv, NEW extra \in BOOLEAN, NEW manifest \in Manifests
  PROVE  /\ Merged(extra, manifest) \in Trees
         /\ Merged(extra, manifest).names[PackageAt] = PackageVersion
  <1> DEFINE names == [checkout.tree.names EXCEPT
                         ![ExtraAt] = IF extra THEN PackageVersion ELSE @]
  <1>1. checkout.tree \in Trees /\ PackageAt \in Place /\ ExtraAt \in Place
    BY ReleaseAssumption DEF CutInv, ReleaseTypes
  <1>2. PackageVersion \in Version
    BY <1>1 DEF PackageVersion, Trees
  <1>3. names \in [Place -> Version \cup {Nothing}] /\ names[PackageAt] = PackageVersion
    BY <1>1, <1>2 DEF Trees, Tree, PackageVersion
  <1>4. Merged(extra, manifest) = [names |-> names, notes |-> TRUE,
                                   channel |-> checkout.tree.channel, manifest |-> manifest]
    <2>1. checkout.tree = [names |-> checkout.tree.names, notes |-> checkout.tree.notes,
                           channel |-> checkout.tree.channel, manifest |-> checkout.tree.manifest]
      BY <1>1 DEF Trees, Tree
    <2>2. Merged(extra, manifest) =
            [[checkout.tree EXCEPT !.notes = TRUE, !.manifest = manifest] EXCEPT !.names = names]
      BY <2>1 DEF Merged
    <2>3. QED
      BY <2>1, <2>2
  <1> HIDE DEF names
  <1>5. QED
    BY <1>1, <1>2, <1>3, <1>4 DEF Trees, Tree

LEMMA MergeWorkCutInv ==
  ASSUME CutInv, NEW extra \in BOOLEAN, NEW manifest \in Manifests, MergeWork(extra, manifest)
  PROVE  CutInv'
  <1> DEFINE tree == Merged(extra, manifest)
  <1>1. /\ Errand /\ log' = Append(log, [subject |-> Work, tree |-> tree])
        /\ checkout' = [checkout EXCEPT !.tree = tree] /\ UNCHANGED <<tag, remote, published>>
    BY DEF MergeWork, Merged
  <1>2. tree \in Trees
    BY MergedIsTree
  <1> HIDE DEF tree
  <1>3. checkout' \in Checkouts
    BY <1>1, <1>2 DEF CutInv, ReleaseTypes, Checkouts
  <1>4. QED
    BY <1>1, <1>2, <1>3, WorkIsNoCut

LEMMA CommitWhatIsThereCutInv ==
  ASSUME CutInv, CommitWhatIsThere
  PROVE  CutInv'
  <1>1. checkout \in Checkouts /\ checkout.tree \in Trees
    BY DEF CutInv, ReleaseTypes, Checkouts
  <1>2. checkout' \in Checkouts
    BY <1>1 DEF CommitWhatIsThere, Checkouts
  <1>3. QED
    BY <1>1, <1>2, WorkIsNoCut DEF CommitWhatIsThere

LEMMA DiscardCutInv ==
  ASSUME CutInv, Discard
  PROVE  CutInv'
  <1>1. checkout' \in Checkouts
    BY TipIsCommit DEF Discard, Checkouts, CutInv
  <1>2. ReleaseTypes'
    BY <1>1, ErrandIsAside DEF Discard, CutInv, ReleaseTypes, Checkouts
  <1>3. CutsWentThrough' /\ NamesWentThrough'
    BY ErrandIsAside, GatedStays DEF Discard, Named
  <1>4. QED
    BY <1>2, <1>3, ErrandIsAside DEF Discard, CutInv

\* The first commit is work, so that something is left.
LEMMA LogShrinks ==
  ASSUME ReleaseTypes, Tip.subject # Work, log' = SubSeq(log, 1, Len(log) - 1)
  PROVE  /\ log' \in Seq(Commits) /\ Len(log') = Len(log) - 1 /\ Len(log') >= 1
         /\ log'[1].subject = Work /\ \A n \in 1..Len(log') : log'[n] = log[n]
  <1> DEFINE k == Len(log) - 1
  <1>1. Len(log) \in Nat /\ Len(log) >= 1 /\ Len(log) # 1 /\ log \in Seq(Commits)
    BY DEF ReleaseTypes, Tip
  <1>2. k \in Nat /\ k >= 1 /\ 1 \in 1..k /\ k <= Len(log)
    <2>1. ASSUME NEW n \in Nat, n >= 1, n # 1
          PROVE  n - 1 \in Nat /\ n - 1 >= 1 /\ 1 \in 1..n - 1 /\ n - 1 <= n
      BY <2>1
    <2>2. QED
      BY <1>1, <2>1
  <1> HIDE DEF k
  <1>3. \A n \in 1..k : log[n] \in Commits
    BY <1>1, <1>2
  <1>4. SubSeq(log, 1, k) = [n \in 1..k |-> log[n]]
    BY <1>1, <1>2
  <1>5. log' \in Seq(Commits) /\ Len(log') = k /\ \A n \in 1..k : log'[n] = log[n]
    BY <1>2, <1>3, <1>4 DEF k
  <1>6. QED
    BY <1>2, <1>5 DEF k, ReleaseTypes

LEMMA AbandonCutInv ==
  ASSUME CutInv, Abandon
  PROVE  CutInv'
  <1>1. /\ log' \in Seq(Commits) /\ Len(log') = Len(log) - 1 /\ Len(log') >= 1
        /\ log'[1].subject = Work /\ \A n \in 1..Len(log') : log'[n] = log[n]
    BY LogShrinks DEF Abandon, CutInv
  <1>2. Len(log') \in 1..Len(log') /\ Len(log) \in Nat
    BY <1>1 DEF CutInv, ReleaseTypes
  <1>3. log'[Len(log')] \in Commits
    BY <1>1, <1>2
  <1>4. checkout' \in Checkouts
    BY <1>3 DEF Abandon, CutInv, ReleaseTypes, Checkouts, Commits
  <1>5. ReleaseTypes'
    BY <1>1, <1>4, ErrandIsAside DEF Abandon, CutInv, ReleaseTypes, Checkouts
  <1>6. CutsWentThrough'
    BY <1>1, <1>2, ErrandIsAside, WentStays DEF Abandon, CutInv, CutsWentThrough
  <1>7. NamesWentThrough'
    BY ErrandIsAside, WentStays DEF Abandon, CutInv, NamesWentThrough, Named
  <1>8. QED
    BY <1>5, <1>6, <1>7, ErrandIsAside DEF Abandon, CutInv

LEMMA UntagCutInv ==
  ASSUME CutInv, NEW v \in Version, Untag(v)
  PROVE  CutInv'
  <1>1. tag' \in [Version -> Commits \cup {NoCommit}]
    BY DEF Untag, CutInv, ReleaseTypes
  <1>2. \A w \in Version : Named(w)' \subseteq Named(w)
    BY DEF Untag, Named, CutInv, ReleaseTypes
  <1>3. QED
    BY <1>1, <1>2, NamesFall, ErrandIsAside DEF Untag, CutInv, ReleaseTypes, Drafting

LEMMA PushTagCutInv ==
  ASSUME CutInv, NEW v \in Version, PushTag(v)
  PROVE  CutInv'
  <1>1. remote' \in [Version -> Commits \cup {NoCommit}]
    BY DEF PushTag, CutInv, ReleaseTypes
  <1>2. \A w \in Version : Named(w)' \subseteq Named(w)
    BY DEF PushTag, Named, CutInv, ReleaseTypes
  <1>3. QED
    BY <1>1, <1>2, NamesFall, ErrandIsAside DEF PushTag, CutInv, ReleaseTypes, Drafting

LEMMA PublishCutInv ==
  ASSUME CutInv, Publish
  PROVE  CutInv'
  <1>1. PackageVersion \in Version
    BY DEF CutInv, ReleaseTypes, Trees, PackageVersion
  <1>2. published' = [published EXCEPT ![PackageVersion] = tag[PackageVersion]]
    BY DEF Publish, VerifyTag
  <1>3. published' \in [Version -> Commits \cup {NoCommit}]
    BY <1>1, <1>2 DEF CutInv, ReleaseTypes
  <1>4. \A w \in Version : Named(w)' \subseteq Named(w)
    BY <1>1, <1>2 DEF Publish, Named, CutInv, ReleaseTypes
  <1>5. QED
    BY <1>3, <1>4, NamesFall, ErrandIsAside DEF Publish, CutInv, ReleaseTypes, Drafting

LEMMA StepCutInv == CutInv /\ [Next]_vars => CutInv'
  <1> SUFFICES ASSUME CutInv, [Next]_vars PROVE CutInv'
    OBVIOUS
  <1>1. CASE \E v \in Version : \E dry \in BOOLEAN : BeginCut(v, dry)
    BY <1>1, BeginCutInv
  <1>2. CASE \E f \in {FileOf[p] : p \in Place} : WriteFile(f)
    BY <1>2, WriteFileCutInv
  <1>3. CASE Rehearse \/ Gate \/ Stage \/ Commit \/ CreateTag \/ Verify \/ Die
    BY <1>3, RehearseCutInv, GateCutInv, StageCutInv, CommitCutInv, CreateTagCutInv, VerifyCutInv, DieCutInv
  <1>4. CASE \E extra \in BOOLEAN, manifest \in Manifests : MergeWork(extra, manifest)
    BY <1>4, MergeWorkCutInv
  <1>5. CASE CommitWhatIsThere \/ Discard \/ Abandon \/ Publish
    BY <1>5, CommitWhatIsThereCutInv, DiscardCutInv, AbandonCutInv, PublishCutInv
  <1>6. CASE \E v \in Version : Untag(v) \/ PushTag(v)
    BY <1>6, UntagCutInv, PushTagCutInv
  <1>7. CASE UNCHANGED vars
    BY <1>7 DEF vars, CutInv, ReleaseTypes, DraftFollowsPlan, DraftIsGated, CutsWentThrough, WentThrough,
                NamesWentThrough, Tip, Free, Named
  <1>8. QED
    BY <1>1, <1>2, <1>3, <1>4, <1>5, <1>6, <1>7 DEF Next

LEMMA CutInvIsInvariant == Spec => []CutInv
  BY InitCutInv, StepCutInv, PTL DEF Spec

-----------------------------------------------------------------------------
\* What a tag names, here or on the remote, and what the registry holds is a cut of that
\* version that went through the gate: the bytes are those that passed, but for files of
\* the plan that the gate rewrote: however a cut ends, whatever is abandoned, untagged or
\* published by hand, and wherever the gate writes (cut-release.js, verify-release-tag.js).
THEOREM WhatIsShippedWentThrough == Spec => []ShippedWentThroughTheGate
  <1>1. CutInv => ShippedWentThroughTheGate
    BY DEF CutInv, NamesWentThrough, WentThrough, AllowedOf, ShippedWentThroughTheGate
  <1>2. QED
    BY <1>1, CutInvIsInvariant, PTL

LEMMA AtMostIsTransitive ==
  ASSUME NEW u \in Version, NEW v \in Version, NEW w \in Version, AtMost(u, v), AtMost(v, w)
  PROVE  AtMost(u, w)
  BY VersionBeforeIsTransitive DEF AtMost

LEMMA SubjectIsVersion ==
  ASSUME ReleaseTypes, NEW n \in 1..Len(log)
  PROVE  /\ log[n].subject # Work => log[n].subject \in Version
         /\ log[n].tree.names[PackageAt] \in Version
  <1>1. log[n] \in Commits
    BY DEF ReleaseTypes
  <1>2. log[n].subject \in Version \cup {Work} /\ log[n].tree \in Trees
    BY <1>1 DEF Commits
  <1>3. QED
    BY <1>2 DEF Trees

\* A cut under way outgrows every cut before it.
LEMMA DraftOutgrows ==
  ASSUME CutInv, Ordered, cut.at \in Drafting, NEW m \in 1..Len(log), log[m].subject # Work
  PROVE  /\ log[m].subject # cut.version
         /\ AtMost(log[m].subject, cut.version)
         /\ AtMost(log[m].subject, cut.plan.names[PackageAt])
  <1> DEFINE old == cut.before.names[PackageAt]
  <1>1. Len(log) \in m..Len(log) /\ log[Len(log)] = Tip
    BY TipIsCommit DEF CutInv, Tip
  <1>2. AtMost(log[m].subject, old)
    BY <1>1 DEF Ordered, VersionsAdvance, CutInv, DraftFollowsPlan
  <1>3. cut.version \in Version /\ cut.before \in Trees /\ old \in Version /\ log[m].subject \in Version
    BY RecordOfCut, SubjectIsVersion DEF CutInv, Drafts, Trees
  <1>4. VersionBefore(old, cut.version) /\ cut.plan = PlanOf(cut.before, cut.version)
    BY DEF CutInv, DraftFollowsPlan, Cuttable
  <1> HIDE DEF old
  <1>5. AtMost(log[m].subject, cut.version)
    BY <1>2, <1>3, <1>4, AtMostIsTransitive DEF AtMost
  <1>6. log[m].subject # cut.version
    BY <1>2, <1>3, <1>4, VersionBeforeIsTransitive, NeverBeforeItself DEF AtMost
  <1>7. cut.plan.names[PackageAt] \in {old, cut.version}
    <2>1. PackageAt \in Place
      BY ReleaseAssumption
    <2>2. QED
      BY <1>3, <1>4, <2>1, PlanNames DEF old
  <1>8. QED
    BY <1>2, <1>5, <1>6, <1>7

\* A step that commits nothing and names nothing new keeps the order, if it leaves package.json
\* as it is, as it is at the tip, or as it is planned.
LEMMA SameLogIsOrdered ==
  ASSUME CutInv, Ordered, log' = log, \A v \in Version : Named(v)' \subseteq Named(v),
         \/ checkout'.tree.names[PackageAt] = checkout.tree.names[PackageAt]
         \/ checkout'.tree.names[PackageAt] = Tip.tree.names[PackageAt]
         \/ /\ cut.at \in Drafting
            /\ checkout'.tree.names[PackageAt] = cut.plan.names[PackageAt]
  PROVE  Ordered'
  <1>1. ASSUME NEW m \in 1..Len(log), log[m].subject # Work
        PROVE  AtMost(log[m].subject, checkout'.tree.names[PackageAt])
    <2>1. AtMost(log[m].subject, checkout.tree.names[PackageAt])
      BY <1>1 DEF Ordered, VersionsAdvance
    <2>2. AtMost(log[m].subject, Tip.tree.names[PackageAt])
      <3>1. Len(log) \in m..Len(log) /\ log[Len(log)] = Tip
        BY TipIsCommit DEF CutInv, Tip
      <3>2. QED
        BY <1>1, <3>1 DEF Ordered, VersionsAdvance
    <2>3. cut.at \in Drafting => AtMost(log[m].subject, cut.plan.names[PackageAt])
      BY <1>1, DraftOutgrows
    <2>4. QED
      BY <2>1, <2>2, <2>3
  <1>2. VersionsAdvance'
    BY <1>1 DEF Ordered, VersionsAdvance, AtMost
  <1>3. OneCutEach'
    BY DEF Ordered, OneCutEach
  <1>4. NamesAgree'
    BY DEF Ordered, NamesAgree
  <1>5. QED
    BY <1>2, <1>3, <1>4 DEF Ordered

\* What a refused cut restores to package.json.
LEMMA RestoredPackage ==
  ASSUME CutInv, cut.at \in Drafting, NEW c \in Checkouts
  PROVE  Restored(c).tree.names[PackageAt] \in
           {c.tree.names[PackageAt], Tip.tree.names[PackageAt]}
  <1>1. Restored(c).tree = With(c.tree, cut.before, cut.allowed)
    BY RestoredIsCheckout
  <1>2. cut.before = Tip.tree /\ PackageAt \in Place
    BY ReleaseAssumption DEF CutInv, DraftFollowsPlan
  <1>3. QED
    BY <1>1, <1>2 DEF With

\* The steps of a cut that commit nothing and name nothing.
LEMMA CutStepsAreOrdered ==
  ASSUME CutInv, Ordered, GateKeepsPackage,
         \/ \E v \in Version : \E dry \in BOOLEAN : BeginCut(v, dry)
         \/ \E f \in {FileOf[p] : p \in Place} : WriteFile(f)
         \/ Rehearse \/ Gate \/ Stage \/ (Commit /\ UNCHANGED log) \/ (CreateTag /\ UNCHANGED tag)
         \/ Verify \/ Die
  PROVE  Ordered'
  <1>1. checkout \in Checkouts
    BY DEF CutInv, ReleaseTypes, Checkouts
  <1>2. CASE \/ \E v \in Version : \E dry \in BOOLEAN : BeginCut(v, dry)
             \/ Rehearse \/ (CreateTag /\ UNCHANGED tag) \/ Die
    BY <1>2, SameLogIsOrdered DEF BeginCut, Rehearse, CreateTag, Die, Named
  <1>3. ASSUME NEW f, WriteFile(f) PROVE Ordered'
    <2>1. checkout'.tree = With(checkout.tree, cut.plan, {f}) /\ cut.at \in Drafting
      BY <1>1, <1>3 DEF WriteFile, Checkouts, Drafting
    <2>2. checkout'.tree.names[PackageAt] \in
            {checkout.tree.names[PackageAt], cut.plan.names[PackageAt]}
      BY <2>1, ReleaseAssumption DEF With
    <2>3. UNCHANGED <<log, tag, remote, published>>
      BY <1>3 DEF WriteFile
    <2>4. QED
      BY <2>1, <2>2, <2>3, SameLogIsOrdered DEF Named
  <1>4. CASE Gate
    <2>1. PICK stray \in BOOLEAN, names \in Rewritings :
            checkout' = AfterGate(stray, names) \/ checkout' = Restored(AfterGate(stray, names))
      BY <1>4 DEF Gate
    <2>2. /\ AfterGate(stray, names) \in Checkouts
          /\ AfterGate(stray, names).tree.names[PackageAt] = checkout.tree.names[PackageAt]
      BY <1>1, AfterGateIsCheckout DEF GateKeepsPackage
    <2>3. cut.at \in Drafting /\ UNCHANGED <<log, tag, remote, published>>
      BY <1>4 DEF Gate, Drafting
    <2>4. checkout'.tree.names[PackageAt] \in
            {checkout.tree.names[PackageAt], Tip.tree.names[PackageAt]}
      BY <2>1, <2>2, <2>3, RestoredPackage
    <2>5. QED
      BY <2>3, <2>4, SameLogIsOrdered DEF Named
  <1>5. CASE Stage \/ (Commit /\ UNCHANGED log)
    <2>1. /\ cut.at \in Drafting /\ UNCHANGED <<log, tag, remote, published>>
      BY <1>5 DEF Stage, Commit, Drafting
    <2>2. \/ checkout'.tree = checkout.tree
          \/ checkout'.tree = Restored(checkout).tree
      <3>1. Restored(checkout) \in Checkouts
        BY <1>1, <2>1, RestoredIsCheckout
      <3>2. QED
        BY <1>1, <1>5, <3>1 DEF Stage, Commit, Checkouts
    <2>3. checkout'.tree.names[PackageAt] \in
            {checkout.tree.names[PackageAt], Tip.tree.names[PackageAt]}
      BY <1>1, <2>1, <2>2, RestoredPackage
    <2>4. QED
      BY <2>1, <2>3, SameLogIsOrdered DEF Named
  <1>6. CASE Verify
    <2>1. cut.version \in Version
      BY <1>6, RecordOfCut DEF Verify, CutInv, TaggingCuts
    <2>2. \A v \in Version : Named(v)' \subseteq Named(v)
      BY <1>6, <2>1 DEF Verify, Named, CutInv, ReleaseTypes
    <2>3. QED
      BY <1>6, <2>2, SameLogIsOrdered DEF Verify
  <1>7. QED
    BY <1>2, <1>3, <1>4, <1>5, <1>6

\* A cut moves the version of package.json to its own.
LEMMA PlanMovesPackage ==
  ASSUME PackageMoves, NEW tree \in Trees, NEW v \in Version, Cuttable(tree, v)
  PROVE  PlanOf(tree, v).names[PackageAt] = v
  <1> DEFINE old == tree.names[PackageAt]
  <1>1. PackageAt \in Place
    BY ReleaseAssumption
  <1>2. PackageAt \in ClaimedAs(tree, "mutable", old) \cup ClaimedAs(tree, "retained", old)
    BY <1>1, ClaimsPartition DEF Cuttable, Naming
  <1>3. PackageAt \notin ClaimedAs(tree, "retained", old)
    BY ClaimedIsNamed DEF PackageMoves, Trees, Tree
  <1>4. QED
    BY <1>1, <1>2, <1>3, PlanNames

LEMMA DraftedPackage ==
  ASSUME CutInv, PackageMoves, GateKeepsPackage, cut.at = "committing"
  PROVE  checkout.tree.names[PackageAt] = cut.version
  <1>1. cut.before \in Trees /\ cut.version \in Version
    BY RecordOfCut DEF CutInv, Drafting, Drafts
  <1>2. /\ Cuttable(cut.before, cut.version) /\ cut.plan = PlanOf(cut.before, cut.version)
        /\ checkout.tree.names[PackageAt] = cut.plan.names[PackageAt]
    BY DEF CutInv, DraftFollowsPlan, Drafting, GateKeepsPackage
  <1>3. QED
    BY <1>1, <1>2, PlanMovesPackage

LEMMA CommitIsOrdered ==
  ASSUME CutInv, Ordered, PackageMoves, GateKeepsPackage, Commit, log' # log
  PROVE  Ordered'
  <1> DEFINE v == cut.version
             made == [subject |-> v, tree |-> checkout.tree]
  <1>1. /\ cut.at = "committing" /\ UNCHANGED <<tag, remote, published>>
        /\ log' = Append(log, made) /\ checkout'.tree = checkout.tree
    BY DEF Commit, CutInv, ReleaseTypes
  <1>2. v \in Version /\ made \in Commits /\ made.subject = v /\ made.tree = checkout.tree
    BY <1>1, RecordOfCut DEF CutInv, ReleaseTypes, Commits, Drafts, Drafting
  <1>3. made.tree.names[PackageAt] = v
    BY <1>1, <1>2, DraftedPackage
  <1>4. ASSUME NEW m \in 1..Len(log), log[m].subject # Work
        PROVE  log[m].subject # v /\ AtMost(log[m].subject, v)
    BY <1>1, <1>4, DraftOutgrows DEF Drafting
  <1>5. Free(v)
    BY <1>1 DEF CutInv, DraftFollowsPlan, Drafting
  <1> HIDE DEF v, made
  <1>6. /\ Len(log') = Len(log) + 1 /\ Len(log) \in Nat
        /\ \A n \in 1..Len(log') :
              (n \in 1..Len(log) /\ log'[n] = log[n]) \/ (n = Len(log') /\ log'[n] = made)
    BY <1>1, <1>2, LogGrows DEF CutInv, ReleaseTypes
  <1>7. VersionsAdvance'
    <2> SUFFICES ASSUME NEW m \in 1..Len(log'), log'[m].subject # Work
                 PROVE  /\ \A n \in m..Len(log') : AtMost(log'[m].subject, log'[n].tree.names[PackageAt])
                        /\ AtMost(log'[m].subject, v)
      BY <1>1, <1>2, <1>3 DEF VersionsAdvance
    <2>1. AtMost(log'[m].subject, v)
      BY <1>2, <1>4, <1>6 DEF AtMost
    <2>2. ASSUME NEW n \in m..Len(log') PROVE AtMost(log'[m].subject, log'[n].tree.names[PackageAt])
      <3>1. n \in 1..Len(log')
        BY <1>6
      <3>2. CASE n = Len(log') /\ log'[n] = made
        BY <1>3, <2>1, <3>2
      <3>3. CASE n \in 1..Len(log) /\ log'[n] = log[n]
        <4>1. m \in 1..Len(log) /\ log'[m] = log[m] /\ n \in m..Len(log)
          BY <1>6, <3>3
        <4>2. QED
          BY <3>3, <4>1 DEF Ordered, VersionsAdvance
      <3>4. QED
        BY <1>6, <3>1, <3>2, <3>3
    <2>3. QED
      BY <2>1, <2>2
  <1>8. OneCutEach'
    BY <1>2, <1>4, <1>6 DEF Ordered, OneCutEach
  <1>9. NamesAgree'
    <2>1. \A w \in Version : Named(w)' = Named(w)
      BY <1>1 DEF Named
    <2>2. Named(v) = {}
      BY <1>5 DEF Free, Named
    <2>3. QED
      BY <1>2, <1>6, <2>1, <2>2 DEF Ordered, NamesAgree
  <1>10. QED
    BY <1>7, <1>8, <1>9 DEF Ordered

\* The one cut of a version is what its other names have named.
LEMMA CreateTagIsOrdered ==
  ASSUME CutInv, Ordered, CreateTag, tag' # tag
  PROVE  Ordered'
  <1> DEFINE v == cut.version
  <1>1. /\ tag' = [tag EXCEPT ![v] = Tip] /\ cut.at = "tagging"
        /\ UNCHANGED <<log, remote, published, checkout>>
    BY DEF CreateTag
  <1>2. v \in Version /\ Tip.subject = v
    BY <1>1, RecordOfCut DEF CutInv, DraftIsGated, TaggingCuts
  <1>3. \A w \in Version : \A d \in Named(w)' : d \in Named(w) \/ (w = v /\ d = Tip)
    BY <1>1, <1>2 DEF Named, CutInv, ReleaseTypes
  <1> HIDE DEF v
  <1>4. \A d \in Named(v) : d = Tip
    BY <1>2, TipIsCommit DEF Ordered, NamesAgree, Tip, CutInv
  <1>5. \A n \in 1..Len(log) : log[n].subject = v => log[n] = Tip
    BY <1>2, TipIsCommit, VersionSitesAssumption DEF Ordered, OneCutEach, Tip, CutInv, Work
  <1>6. NamesAgree'
    BY <1>1, <1>3, <1>4, <1>5 DEF Ordered, NamesAgree
  <1>7. VersionsAdvance' /\ OneCutEach'
    BY <1>1 DEF Ordered, VersionsAdvance, OneCutEach
  <1>8. QED
    BY <1>6, <1>7 DEF Ordered

LEMMA PushTagIsOrdered ==
  ASSUME CutInv, Ordered, NEW v \in Version, PushTag(v)
  PROVE  Ordered'
  <1>1. UNCHANGED <<log, checkout>> /\ \A w \in Version : Named(w)' \subseteq Named(w)
    BY DEF PushTag, Named, CutInv, ReleaseTypes
  <1>2. QED
    BY <1>1, SameLogIsOrdered

LEMMA PublishIsOrdered ==
  ASSUME CutInv, Ordered, Publish
  PROVE  Ordered'
  <1>1. PackageVersion \in Version
    BY DEF CutInv, ReleaseTypes, Trees, PackageVersion
  <1>2. UNCHANGED <<log, checkout>> /\ \A w \in Version : Named(w)' \subseteq Named(w)
    BY <1>1 DEF Publish, VerifyTag, Named, CutInv, ReleaseTypes
  <1>3. QED
    BY <1>2, SameLogIsOrdered

LEMMA WorkIsOrdered ==
  ASSUME CutInv, Ordered, NEW tree \in Trees,
         log' = Append(log, [subject |-> Work, tree |-> tree]),
         tree.names[PackageAt] = checkout.tree.names[PackageAt],
         checkout'.tree.names[PackageAt] = checkout.tree.names[PackageAt],
         UNCHANGED <<tag, remote, published>>
  PROVE  Ordered'
  <1> DEFINE made == [subject |-> Work, tree |-> tree]
  <1>1. made \in Commits /\ made.subject = Work /\ made.tree = tree
    BY DEF Commits
  <1> HIDE DEF made
  <1>2. /\ Len(log') = Len(log) + 1 /\ Len(log) \in Nat
        /\ \A n \in 1..Len(log') :
              (n \in 1..Len(log) /\ log'[n] = log[n]) \/ (n = Len(log') /\ log'[n] = made)
    BY <1>1, LogGrows DEF CutInv, ReleaseTypes, made
  <1>3. VersionsAdvance'
    <2> SUFFICES ASSUME NEW m \in 1..Len(log'), log'[m].subject # Work
                 PROVE  /\ \A n \in m..Len(log') : AtMost(log'[m].subject, log'[n].tree.names[PackageAt])
                        /\ AtMost(log'[m].subject, checkout'.tree.names[PackageAt])
      BY DEF VersionsAdvance
    <2>1. m \in 1..Len(log) /\ log'[m] = log[m]
      BY <1>1, <1>2
    <2>2. AtMost(log'[m].subject, checkout.tree.names[PackageAt])
      BY <2>1 DEF Ordered, VersionsAdvance
    <2>3. ASSUME NEW n \in m..Len(log') PROVE AtMost(log'[m].subject, log'[n].tree.names[PackageAt])
      <3>1. n \in 1..Len(log')
        BY <1>2
      <3>2. CASE n = Len(log') /\ log'[n] = made
        BY <1>1, <2>2, <3>2
      <3>3. CASE n \in 1..Len(log) /\ log'[n] = log[n]
        <4>1. n \in m..Len(log)
          BY <1>2, <3>3
        <4>2. QED
          BY <2>1, <3>3, <4>1 DEF Ordered, VersionsAdvance
      <3>4. QED
        BY <1>2, <3>1, <3>2, <3>3
    <2>4. QED
      BY <2>2, <2>3
  <1>4. OneCutEach'
    BY <1>1, <1>2 DEF Ordered, OneCutEach
  <1>5. NamesAgree'
    <2>1. \A w \in Version : Named(w)' = Named(w)
      BY DEF Named
    <2>2. \A w \in Version : made.subject # w
      BY <1>1, VersionSitesAssumption DEF Work
    <2>3. QED
      BY <1>2, <2>1, <2>2 DEF Ordered, NamesAgree
  <1>6. QED
    BY <1>3, <1>4, <1>5 DEF Ordered

LEMMA AbandonIsOrdered ==
  ASSUME CutInv, Ordered, Abandon
  PROVE  Ordered'
  <1>1. /\ log' \in Seq(Commits) /\ Len(log') = Len(log) - 1 /\ Len(log') >= 1
        /\ \A n \in 1..Len(log') : log'[n] = log[n]
    BY LogShrinks DEF Abandon, CutInv
  <1>2. Len(log') \in Nat /\ Len(log) \in Nat /\ 1..Len(log') \subseteq 1..Len(log)
    BY <1>1 DEF CutInv, ReleaseTypes
  <1>3. checkout'.tree = log'[Len(log')].tree
    BY DEF Abandon, CutInv, ReleaseTypes
  <1>4. VersionsAdvance'
    <2> SUFFICES ASSUME NEW m \in 1..Len(log'), log'[m].subject # Work
                 PROVE  /\ \A n \in m..Len(log') : AtMost(log'[m].subject, log'[n].tree.names[PackageAt])
                        /\ AtMost(log'[m].subject, checkout'.tree.names[PackageAt])
      BY DEF VersionsAdvance
    <2>1. \A n \in m..Len(log') : n \in 1..Len(log') /\ n \in m..Len(log)
      BY <1>1, <1>2
    <2>2. m \in 1..Len(log) /\ log'[m] = log[m]
      BY <1>1, <1>2
    <2>3. \A n \in m..Len(log') : AtMost(log'[m].subject, log'[n].tree.names[PackageAt])
      BY <1>1, <2>1, <2>2 DEF Ordered, VersionsAdvance
    <2>4. Len(log') \in m..Len(log')
      BY <1>2
    <2>5. QED
      BY <1>3, <2>3, <2>4
  <1>5. OneCutEach'
    BY <1>1, <1>2 DEF Ordered, OneCutEach
  <1>6. NamesAgree'
    <2>1. \A v \in Version : Named(v)' = Named(v)
      BY DEF Abandon, Named
    <2>2. \A n \in 1..Len(log') : n \in 1..Len(log) /\ log'[n] = log[n]
      BY <1>1, <1>2
    <2>3. QED
      BY <2>1, <2>2 DEF Ordered, NamesAgree
  <1>7. QED
    BY <1>4, <1>5, <1>6 DEF Ordered

LEMMA ErrandsAreOrdered ==
  ASSUME CutInv, Ordered,
         \/ \E extra \in BOOLEAN, manifest \in Manifests : MergeWork(extra, manifest)
         \/ CommitWhatIsThere \/ Discard \/ Abandon \/ Publish
         \/ \E v \in Version : Untag(v) \/ PushTag(v)
  PROVE  Ordered'
  <1>1. checkout \in Checkouts /\ checkout.tree \in Trees
    BY DEF CutInv, ReleaseTypes, Checkouts
  <1>2. ASSUME NEW extra \in BOOLEAN, NEW manifest \in Manifests, MergeWork(extra, manifest)
        PROVE  Ordered'
    <2> DEFINE tree == Merged(extra, manifest)
    <2>1. tree \in Trees /\ tree.names[PackageAt] = checkout.tree.names[PackageAt]
      BY MergedIsTree DEF PackageVersion
    <2>2. /\ log' = Append(log, [subject |-> Work, tree |-> tree])
          /\ checkout' = [checkout EXCEPT !.tree = tree] /\ UNCHANGED <<tag, remote, published>>
      BY <1>2 DEF MergeWork, Merged
    <2> HIDE DEF tree
    <2>3. checkout'.tree = tree
      BY <1>1, <2>2 DEF Checkouts
    <2>4. QED
      BY <2>1, <2>2, <2>3, WorkIsOrdered
  <1>3. CASE CommitWhatIsThere
    <2>1. /\ log' = Append(log, [subject |-> Work, tree |-> checkout.tree])
          /\ checkout'.tree = checkout.tree /\ UNCHANGED <<tag, remote, published>>
      BY <1>1, <1>3 DEF CommitWhatIsThere, Checkouts
    <2>2. QED
      BY <1>1, <2>1, WorkIsOrdered
  <1>4. CASE Discard
    BY <1>4, SameLogIsOrdered DEF Discard, Named
  <1>5. ASSUME NEW v \in Version, Untag(v) PROVE Ordered'
    <2>1. UNCHANGED <<log, checkout>> /\ \A w \in Version : Named(w)' \subseteq Named(w)
      BY <1>5 DEF Untag, Named, CutInv, ReleaseTypes
    <2>2. QED
      BY <2>1, SameLogIsOrdered
  <1>6. QED
    BY <1>2, <1>3, <1>4, <1>5, AbandonIsOrdered, PublishIsOrdered, PushTagIsOrdered

LEMMA InitOrdered == Init => Ordered
  <1> SUFFICES ASSUME Init PROVE Ordered
    OBVIOUS
  <1>1. Len(log) = 1 /\ log[1].subject = Work
    BY DEF Init
  <1>2. \A v \in Version : Named(v) = {}
    BY DEF Init, Named
  <1>3. QED
    BY <1>1, <1>2 DEF Ordered, VersionsAdvance, OneCutEach, NamesAgree

LEMMA StepOrdered ==
  ASSUME PackageMoves, GateKeepsPackage
  PROVE  CutInv /\ Ordered /\ [Next]_vars => Ordered'
  <1> SUFFICES ASSUME CutInv, Ordered, [Next]_vars PROVE Ordered'
    OBVIOUS
  <1>1. CASE Commit /\ log' # log
    BY <1>1, CommitIsOrdered
  <1>2. CASE CreateTag /\ tag' # tag
    BY <1>2, CreateTagIsOrdered
  <1>3. CASE \/ \E v \in Version : \E dry \in BOOLEAN : BeginCut(v, dry)
             \/ \E f \in {FileOf[p] : p \in Place} : WriteFile(f)
             \/ Rehearse \/ Gate \/ Stage \/ (Commit /\ UNCHANGED log)
             \/ (CreateTag /\ UNCHANGED tag) \/ Verify \/ Die
    BY <1>3, CutStepsAreOrdered
  <1>4. CASE \/ \E extra \in BOOLEAN, manifest \in Manifests : MergeWork(extra, manifest)
             \/ CommitWhatIsThere \/ Discard \/ Abandon \/ Publish
             \/ \E v \in Version : Untag(v) \/ PushTag(v)
    BY <1>4, ErrandsAreOrdered
  <1>5. CASE UNCHANGED vars
    BY <1>5, SameLogIsOrdered DEF vars, Named
  <1>6. QED
    BY <1>1, <1>2, <1>3, <1>4, <1>5 DEF Next

LEMMA OrderedIsInvariant ==
  ASSUME PackageMoves, GateKeepsPackage
  PROVE  Spec => []Ordered
  BY InitOrdered, StepOrdered, CutInvIsInvariant, PTL DEF Spec

-----------------------------------------------------------------------------
\* One version is one tree: the tag here, the tag on the remote and the package never name
\* different bytes, for the cut of a version that was pushed or published is not begun again
\* (cut-release.js, preconditions), and one branch holds one cut of it, if the gate leaves
\* the version of package.json alone.
THEOREM VersionsAreOneTree ==
  ASSUME PackageMoves, GateKeepsPackage
  PROVE  Spec => []VersionsNameOneTree
  <1>1. Ordered => VersionsNameOneTree
    <2> SUFFICES ASSUME Ordered, NEW v \in Version
                 PROVE  Cardinality({c.tree : c \in Named(v)}) <= 1
      BY DEF VersionsNameOneTree
    <2>1. CASE Named(v) = {}
      <3>1. {c.tree : c \in Named(v)} = {}
        BY <2>1
      <3>2. QED
        BY <3>1, FS_EmptySet
    <2>2. CASE Named(v) # {}
      <3>1. PICK c \in Named(v) : TRUE
        BY <2>2
      <3>2. {d.tree : d \in Named(v)} = {c.tree}
        BY <3>1 DEF Ordered, NamesAgree
      <3>3. Cardinality({c.tree}) = 1
        BY FS_Singleton
      <3>4. QED
        BY <3>2, <3>3
    <2>3. QED
      BY <2>1, <2>2
  <1>2. QED
    BY <1>1, OrderedIsInvariant, PTL

-----------------------------------------------------------------------------
(* Every site moves.                                                       *)

MovesSites(before, after, new) ==
  LET old == before.names[PackageAt]
      places == {p \in Place : FileOf[p] # Changelog}
  IN  /\ old # new /\ after.names[PackageAt] = new
      /\ Naming(after, Place, old) = ClaimedAs(before, "retained", old)
      /\ {p \in Place : after.names[p] # before.names[p]} =
           Naming(after, places, new) \cup {HeadingOf[new]}

LEMMA CutMovesSites ==
  ASSUME PackageMoves, ChangelogIsHistory,
         NEW tree \in Trees, NEW v \in Version, Cuttable(tree, v)
  PROVE  MovesSites(tree, With(tree, PlanOf(tree, v), AllowedOf(tree)), v)
  <1> DEFINE old == tree.names[PackageAt]
             after == With(tree, PlanOf(tree, v), AllowedOf(tree))
             moved == ClaimedAs(tree, "mutable", old)
             kept == ClaimedAs(tree, "retained", old)
             places == {p \in Place : FileOf[p] # Changelog}
  <1>1. old \in Version /\ old # v /\ old # Nothing /\ v # Nothing
    BY NeverBeforeItself, VersionSitesAssumption DEF Trees, Cuttable
  <1>2. PackageAt \in Place /\ HeadingOf[v] \in Place
    BY ReleaseAssumption, VersionSitesAssumption
  <1>3. tree.names[HeadingOf[v]] = Nothing /\ HeadingOf[v] \notin moved
    <2>1. Moved(tree, old, v).names =
            [p \in Place |-> IF p \in moved THEN v ELSE tree.names[p]]
      BY DEF Moved, Trees, Tree
    <2>2. Moved(tree, old, v).names[HeadingOf[v]] = Nothing
      BY DEF Cuttable, ChangelogReady
    <2>3. QED
      BY <1>1, <1>2, <2>1, <2>2
  <1>4. \A p \in Place : after.names[p] = IF p = HeadingOf[v] \/ p \in moved THEN v ELSE tree.names[p]
    BY DraftNames, PlanNames
  <1>5. moved \cap kept = {} /\ Naming(tree, Place, old) = moved \cup kept
    BY ClaimsPartition DEF Cuttable
  <1>6. Naming(after, places, v) = moved
    <2>1. Naming(after, places, v) = Naming(PlanOf(tree, v), places, v)
      BY DraftNames DEF Naming
    <2>2. QED
      BY <2>1, NewIsMoved
  <1>7. \A p \in Place : (p \in moved \cup kept) <=> tree.names[p] = old
    BY <1>5 DEF Naming
  <1>8. moved \subseteq Place /\ kept \subseteq Place
    BY ClaimedIsNamed
  <1>9. after.names[PackageAt] = v
    BY <1>2, PlanMovesPackage, DraftNames
  <1> HIDE DEF old, after, moved, kept
  <1>10. Naming(after, Place, old) = kept
    BY <1>1, <1>3, <1>4, <1>5, <1>7, <1>8 DEF Naming
  <1>11. {p \in Place : after.names[p] # tree.names[p]} = moved \cup {HeadingOf[v]}
    BY <1>1, <1>2, <1>3, <1>4, <1>7, <1>8
  <1>12. QED
    BY <1>1, <1>6, <1>9, <1>10, <1>11 DEF MovesSites, old, after, kept

\* What the gate passed is a plan, written to the files that the plan names.
GatedAsPlanned ==
  \A g \in gated :
    /\ g.before \in Trees /\ g.version \in Version /\ Cuttable(g.before, g.version)
    /\ g.tree = With(g.before, PlanOf(g.before, g.version), AllowedOf(g.before))

\* The gate is run over the plan that was written.
LEMMA GateFollowsPlan == CutInv /\ GatedAsPlanned /\ [Next]_vars => GatedAsPlanned'
  <1> SUFFICES ASSUME CutInv, GatedAsPlanned, [Next]_vars PROVE GatedAsPlanned'
    OBVIOUS
  <1>1. CASE UNCHANGED gated
    BY <1>1 DEF GatedAsPlanned
  <1>2. CASE Gate
    <2>1. gated' = gated \cup {Passed} \/ UNCHANGED gated
      BY <1>2 DEF Gate
    <2>2. /\ cut.before \in Trees /\ cut.version \in Version /\ Cuttable(cut.before, cut.version)
          /\ cut.plan = PlanOf(cut.before, cut.version)
          /\ cut.allowed = AllowedOf(cut.before) /\ cut.todo = {}
          /\ checkout.tree = With(cut.before, cut.plan, cut.allowed \ cut.todo)
      BY <1>2, RecordOfCut DEF Gate, CutInv, DraftFollowsPlan, Drafting, Drafts
    <2>3. checkout.tree = With(cut.before, PlanOf(cut.before, cut.version), AllowedOf(cut.before))
      BY <2>2
    <2>4. /\ Passed.before = cut.before /\ Passed.version = cut.version
          /\ Passed.tree = checkout.tree
      BY DEF Passed
    <2>5. QED
      BY <2>1, <2>2, <2>3, <2>4 DEF GatedAsPlanned
  <1>3. CASE \/ \E v \in Version : \E dry \in BOOLEAN : BeginCut(v, dry)
             \/ \E f \in {FileOf[p] : p \in Place} : WriteFile(f)
             \/ Rehearse \/ Stage \/ Commit \/ CreateTag \/ Verify \/ Die
    BY <1>1, <1>3 DEF BeginCut, WriteFile, Rehearse, Stage, Commit, CreateTag, Verify, Die
  <1>4. CASE \/ \E extra \in BOOLEAN, manifest \in Manifests : MergeWork(extra, manifest)
             \/ CommitWhatIsThere \/ Discard \/ Abandon \/ Publish
             \/ \E v \in Version : Untag(v) \/ PushTag(v)
    BY <1>1, <1>4, ErrandIsAside
       DEF MergeWork, CommitWhatIsThere, Discard, Abandon, Publish, Untag, PushTag
  <1>5. CASE UNCHANGED vars
    BY <1>1, <1>5 DEF vars
  <1>6. QED
    BY <1>2, <1>3, <1>4, <1>5 DEF Next

\* A cut that is committed as the gate passed it moves every mutable occurrence of the
\* outgoing version, keeps the retained ones, and changes nothing else but for its heading
\* in the changelog (release-sites.js, verifyExactSets), for any manifest that meets the
\* two provisos.
THEOREM EverySiteMoves ==
  ASSUME PackageMoves, ChangelogIsHistory
  PROVE  Spec => []CutsMoveEverySite
  <1>1. Init => GatedAsPlanned
    BY DEF Init, GatedAsPlanned
  <1>2. GatedAsPlanned => CutsMoveEverySite
    <2> SUFFICES ASSUME GatedAsPlanned, NEW n \in 2..Len(log),
                        [before |-> log[n - 1].tree, version |-> log[n].subject,
                         tree |-> log[n].tree] \in gated
                 PROVE  MovesSites(log[n - 1].tree, log[n].tree, log[n].subject)
      BY DEF CutsMoveEverySite, MovesSites
    <2> DEFINE before == log[n - 1].tree
               new == log[n].subject
    <2>1. /\ before \in Trees /\ new \in Version /\ Cuttable(before, new)
          /\ log[n].tree = With(before, PlanOf(before, new), AllowedOf(before))
      BY DEF GatedAsPlanned
    <2>2. QED
      BY <2>1, CutMovesSites
  <1>3. QED
    BY <1>1, <1>2, GateFollowsPlan, CutInvIsInvariant, PTL DEF Spec

-----------------------------------------------------------------------------
(* Auto-commit: the types of its state.                                    *)

Bytes == {Absent, Foreign, Original} \cup {RevisionOf[m] : m \in Mutation} \cup Nat
WorkTree == [Path -> Bytes]
Subjects == {Subject(m) : m \in Mutation}
BranchCommits ==
  [inv : Nat, subject : Subjects \cup {None}, changed : SUBSET Path, tree : WorkTree]
Children == [inv : Nat \ {0}, mut : Mutation, set : SUBSET LedgerPath, tree : WorkTree]

\* Where an invocation is: before its commit set is derived, on the way to the commit,
\* and past it.
Before == {"inspect", "head", "verify", "again", "run", "locate"}
Bound == {"prepare", "log", "stage", "cached", "commit"}
Asked == {"committing", "observe", "judge"}
Places == Before \cup Bound \cup Asked \cup {"recover", "after", "done"}
AutoVerdicts == {None, "refused", "failed", "unknown", "committed", "unreconciled"}
Jobs ==
  [at : Places, mode : {"auto", "finalize"}, inv : Nat \ {0}, mut : Mutation, head : Nat,
   rev : Bytes, set : SUBSET LedgerPath, log : Bytes \cup {None}, code : {0, 1},
   seen : Nat, verdict : AutoVerdicts]
Tokens ==
  [inv : Nat \ {0}, mut : Mutation, head : Nat, rev : Bytes, set : SUBSET LedgerPath,
   log : Bytes \cup {None}]

AutoTypes ==
  /\ commits \in Seq(BranchCommits) /\ Len(commits) >= 1
  /\ index \in WorkTree /\ work \in WorkTree
  /\ IsJournal(journal)
  /\ mutex \in Proc \cup {None}
  /\ child \in Children \cup {None}
  /\ proc \in [Proc -> Jobs \cup {Idle}]
  /\ tokens \in SUBSET Tokens
  /\ used \in Nat /\ crashes \in Nat

\* The branch and the journal only grow.
Extends(s, t) == /\ IsJournal(t)
                 /\ Len(s) \in Nat /\ Len(t) \in Nat /\ Len(s) <= Len(t)
                 /\ \A k \in 1..Len(s) : t[k] = s[k]

-----------------------------------------------------------------------------
(* Small facts.                                                            *)

LEMMA CommitsAreJournal == ASSUME AutoTypes PROVE IsJournal(commits)
BY DEF AutoTypes, IsJournal

LEMMA ExtendsItself == ASSUME NEW j, IsJournal(j) PROVE Extends(j, j)
BY JournalLen DEF Extends

LEMMA ExtendsByOne == ASSUME NEW j, NEW e, IsJournal(j) PROVE Extends(j, Append(j, e))
BY JournalLen, JournalAppend DEF Extends

LEMMA ExtendsBySome ==
  ASSUME NEW j, NEW x, IsJournal(j), IsJournal(x) PROVE Extends(j, j \o x)
BY JournalLen, JournalConcat DEF Extends

LEMMA PathTypes ==
  /\ \A m \in Mutation : ItemOf[m] \in Item /\ ItemOf[m] \in Path /\ ItemOf[m] \in LedgerPath
  /\ Log \in Path /\ Log \in LedgerPath /\ Outside \in Path /\ Outside \notin LedgerPath
  /\ \A m \in Mutation : ItemOf[m] # Log /\ ItemOf[m] # Outside
  /\ Item \subseteq LedgerPath /\ LedgerPath \subseteq Path /\ Log \notin Item
BY AutoCommitAssumption DEF AutoCommitAssumption, Path, LedgerPath

\* How many entries a log shows is a number.
LEMMA ProjectedType ==
  ASSUME NEW j, NEW k \in Nat
  PROVE  ProjectedTo(j, k) \in Nat
<1>1. IsFiniteSet(1..k)
  BY FS_Interval
<1>2. IsFiniteSet({n \in 1..k : j[n].type # "finalized"})
  BY <1>1, FS_Subset
<1>3. QED
  BY <1>2, FS_CardinalityType DEF ProjectedTo

LEMMA RewrittenType ==
  ASSUME NEW w \in WorkTree, NEW j, IsJournal(j)
  PROVE  /\ Rewritten(w, j) \in WorkTree
         /\ \A f \in Path : f # Log => Rewritten(w, j)[f] = w[f]
<1>1. ProjectedTo(j, Len(j)) \in Bytes
  BY ProjectedType, JournalLen DEF Bytes
<1> HIDE DEF Bytes
<1>2. QED
  BY <1>1 DEF Rewritten, WorkTree

\* The finalizations a verification appends.
LEMMA FinalizedGrows ==
  ASSUME NEW j, IsJournal(j)
  PROVE  /\ Extends(j, Finalized(j))
         /\ \A k \in 1..Len(Finalized(j)) : k > Len(j) => Finalized(j)[k].type = "finalized"
<1> DEFINE S == {k \in 1..Len(j) :
                  /\ j[k].type = "final"
                  /\ HeadTree[j[k].item] = j[k].revision
                  /\ ~ \E n \in 1..Len(j) : j[n].type = "finalized" /\ j[n].op = j[k].op}
           due == InOrder(S)
           new(n) == [type |-> "finalized", item |-> j[due[n]].item, op |-> j[due[n]].op,
                      commit |-> HEAD]
           x == [n \in 1..Len(due) |-> new(n)]
<1>1. Finalized(j) = j \o x
  BY DEF Finalized
<1>2. Len(due) \in Nat
  <2>1. S \in SUBSET (1..Len(j))
    OBVIOUS
  <2> HIDE DEF S
  <2>2. QED
    BY <2>1, InOrderIsJournal
<1>3. \A n \in 1..Len(due) : x[n].type = "finalized"
  OBVIOUS
<1> HIDE DEF due, new
<1>4. DOMAIN x = 1..Len(due) /\ x = [n \in 1..Len(due) |-> x[n]]
  OBVIOUS
<1> HIDE DEF x
<1>5. IsJournal(x) /\ Len(x) = Len(due)
  BY <1>2, <1>4, FunctionIsJournal
<1>6. Extends(j, j \o x)
  BY <1>5, ExtendsBySome
<1>7. ASSUME NEW k \in 1..Len(j \o x), k > Len(j) PROVE (j \o x)[k].type = "finalized"
  <2>1. /\ Len(j \o x) = Len(j) + Len(x) /\ Len(j) \in Nat /\ Len(x) \in Nat
        /\ \A n \in (Len(j) + 1)..Len(j \o x) :
             n - Len(j) \in 1..Len(x) /\ (j \o x)[n] = x[n - Len(j)]
    BY <1>5, JournalConcat, JournalLen
  <2>2. k \in (Len(j) + 1)..Len(j \o x)
    BY <1>7, <2>1
  <2>3. QED
    BY <1>3, <1>5, <2>1, <2>2
<1>8. QED
  BY <1>1, <1>6, <1>7

LEMMA JournalAddsTwo ==
  ASSUME NEW j, NEW a, NEW b, IsJournal(j)
  PROVE  LET q == j \o <<a, b>>
         IN  /\ Extends(j, q) /\ Len(j) \in Nat /\ Len(q) = Len(j) + 2
             /\ q[Len(j) + 1] = a /\ q[Len(j) + 2] = b
<1>1. PICK S : j \in Seq(S)
  BY DEF IsJournal
<1> DEFINE T == S \cup {a, b}
<1>2. j \in Seq(T) /\ a \in T /\ b \in T
  BY <1>1, SeqMonotonic
<1> HIDE DEF T
<1> DEFINE u == Append(j, a)
           q == Append(u, b)
<1>3. j \o <<a, b>> = q
  BY <1>2
<1>4. Len(j) \in Nat /\ IsJournal(u) /\ Len(u) = Len(j) + 1
      /\ \A k \in 1..Len(j) : u[k] = j[k]
  BY JournalAppend, JournalLen
<1>5. u[Len(j) + 1] = a
  BY JournalAppend
<1> HIDE DEF u
<1>6. IsJournal(q) /\ Len(q) = Len(u) + 1 /\ \A k \in 1..Len(u) : q[k] = u[k]
  BY <1>4, JournalAppend
<1>7. q[Len(u) + 1] = b
  BY <1>4, JournalAppend
<1> HIDE DEF q
<1>8. Extends(j, q) /\ Len(q) = Len(j) + 2 /\ Len(q) = Len(u) + 1
  BY <1>4, <1>6 DEF Extends
<1>9. q[Len(j) + 1] = a
  <2>1. Len(j) + 1 \in 1..Len(u)
    BY <1>4
  <2>2. QED
    BY <1>5, <1>6, <2>1
<1>10. q[Len(j) + 2] = b
  <2>1. Len(j) + 2 = Len(u) + 1
    BY <1>4
  <2>2. QED
    BY <1>7, <2>1
<1>11. QED
  BY <1>3, <1>4, <1>8, <1>9, <1>10

\* A publication adds its intent and its terminal, and its bytes to the working tree.
LEMMA PublishesGrows ==
  ASSUME AutoTypes, NEW m \in Mutation, NEW v \in Nat, Publishes(m, v)
  PROVE  /\ Extends(journal, journal') /\ Len(journal') = Len(journal) + 2
         /\ journal'[Len(journal) + 1].type \in {"intent", "publish"}
         /\ LET e == journal'[Len(journal) + 2]
            IN  /\ e.type \in {"legacy", "final"} /\ e.item = ItemOf[m] /\ e.inv = v
                /\ e.committed = TRUE /\ e.revision = RevisionOf[m]
         /\ work' \in WorkTree /\ work'[ItemOf[m]] = RevisionOf[m]
         /\ \A f \in Path \ {ItemOf[m], Log} : work'[f] = work[f]
<1> DEFINE x == Entries(m, v)
           a == x[1]
           b == x[2]
<1>1. /\ x = <<a, b>>
      /\ a.type \in {"intent", "publish"}
      /\ b.type \in {"legacy", "final"} /\ b.item = ItemOf[m] /\ b.inv = v
      /\ b.committed = TRUE /\ b.revision = RevisionOf[m]
  BY DEF Entries
<1>2. journal' = journal \o x
  BY DEF Publishes
<1> HIDE DEF x, a, b
<1>3. IsJournal(journal)
  BY DEF AutoTypes
<1>4. /\ Extends(journal, journal') /\ Len(journal) \in Nat
      /\ Len(journal') = Len(journal) + 2
      /\ journal'[Len(journal) + 1] = a /\ journal'[Len(journal) + 2] = b
  BY <1>1, <1>2, <1>3, JournalAddsTwo
<1> DEFINE written == [work EXCEPT ![ItemOf[m]] = RevisionOf[m]]
<1>5. /\ written \in WorkTree /\ written[ItemOf[m]] = RevisionOf[m]
      /\ \A f \in Path : f # ItemOf[m] => written[f] = work[f]
  <2>1. RevisionOf[m] \in Bytes /\ ItemOf[m] \in Path
    BY PathTypes DEF Bytes
  <2> HIDE DEF Bytes
  <2>2. QED
    BY <2>1 DEF AutoTypes, WorkTree
<1>6. work' \in {written, Rewritten(written, journal')}
  BY DEF Publishes
<1> HIDE DEF written
<1>7. /\ Rewritten(written, journal') \in WorkTree
      /\ \A f \in Path : f # Log => Rewritten(written, journal')[f] = written[f]
  BY <1>4, <1>5, RewrittenType DEF Extends
<1>8. ItemOf[m] \in Path /\ ItemOf[m] # Log
  BY PathTypes
<1>9. /\ work' \in WorkTree /\ work'[ItemOf[m]] = RevisionOf[m]
      /\ \A f \in Path \ {ItemOf[m], Log} : work'[f] = work[f]
  BY <1>5, <1>6, <1>7, <1>8
<1>10. QED
  BY <1>1, <1>4, <1>9

LEMMA MutateGrows ==
  ASSUME AutoTypes, NEW p \in Proc, proc[p] \in Jobs, Mutate(p)
  PROVE  Extends(journal, journal') /\ work' \in WorkTree
<1>1. CASE Replayed(proc[p].mut)
  BY <1>1, ExtendsItself DEF Mutate, AutoTypes
<1>2. CASE ~ Replayed(proc[p].mut)
  <2>1. proc[p].mut \in Mutation /\ proc[p].inv \in Nat
    BY DEF Jobs
  <2>2. Publishes(proc[p].mut, proc[p].inv)
    BY <1>2 DEF Mutate
  <2>3. QED
    BY <2>1, <2>2, PublishesGrows
<1>3. QED
  BY <1>1, <1>2

\* Every process that is somewhere has a job.
LEMMA BusyHasJob ==
  ASSUME AutoTypes, NEW p \in Proc, proc[p].at # "idle"
  PROVE  proc[p] \in Jobs
BY DEF AutoTypes, Idle

-----------------------------------------------------------------------------
(* What a step does to the branch and the journal.                         *)

Unmoved == commits' = commits /\ journal' = journal

LEMMA StepUnmoved ==
  ASSUME NEW p \in Proc, Step(p)
  PROVE  Unmoved \/ VerifyBefore(p) \/ VerifyAfter(p) \/ Mutate(p)
<1>1. CASE \E m \in Mutation : BeginAutoCommit(p, m)
  BY <1>1 DEF BeginAutoCommit, git, Unmoved
<1>2. CASE \E t \in tokens : BeginFinalize(p, t)
  BY <1>2 DEF BeginFinalize, git, Unmoved
<1>3. CASE Inspect(p) \/ ReadHead(p) \/ InspectAgain(p) \/ MutationNotCommitted(p) \/ Locate(p)
  BY <1>3 DEF Inspect, ReadHead, InspectAgain, MutationNotCommitted, Locate, git, Unmoved
<1>4. CASE Prepare(p) \/ ReadLog(p) \/ CheckCached(p) \/ Observe(p) \/ Judge(p) \/ Recover(p)
  BY <1>4 DEF Prepare, ReadLog, CheckCached, Observe, Judge, Recover, git, Unmoved
<1>5. CASE StageSet(p) \/ StartCommit(p) \/ Return(p) \/ Crash(p)
  BY <1>5 DEF StageSet, StartCommit, Return, Crash, Unmoved
<1>6. QED
  BY <1>1, <1>2, <1>3, <1>4, <1>5 DEF Step

\* A step of the world adds the entries it may add, or a commit that is nobody's.
LEMMA HistoryGrows ==
  ASSUME AutoTypes, AutoNext
  PROVE  Extends(commits, commits') /\ Extends(journal, journal') /\ work' \in WorkTree
<1>0. /\ Extends(commits, commits) /\ Extends(journal, journal)
      /\ IsJournal(journal) /\ IsJournal(commits) /\ work \in WorkTree
  BY CommitsAreJournal, ExtendsItself DEF AutoTypes
<1>1. ASSUME NEW p \in Proc, Step(p)
      PROVE  Extends(commits, commits') /\ Extends(journal, journal')
             /\ (work' = work \/ work' \in WorkTree)
  <2>1. CASE VerifyBefore(p)
    <3>1. commits' = commits /\ journal' = Finalized(journal)
          /\ (work' = work \/ work' = Rewritten(work, journal'))
      BY <2>1 DEF VerifyBefore, git
    <3>2. Extends(journal, journal')
      BY <1>0, <3>1, FinalizedGrows
    <3>3. Rewritten(work, journal') \in WorkTree
      BY <1>0, <3>2, RewrittenType DEF Extends
    <3>4. QED
      BY <1>0, <3>1, <3>2, <3>3
  <2>2. CASE VerifyAfter(p)
    <3>1. commits' = commits /\ journal' = Finalized(journal) /\ work' = Rewritten(work, journal')
      BY <2>2 DEF VerifyAfter, git
    <3>2. Extends(journal, journal')
      BY <1>0, <3>1, FinalizedGrows
    <3>3. Rewritten(work, journal') \in WorkTree
      BY <1>0, <3>2, RewrittenType DEF Extends
    <3>4. QED
      BY <1>0, <3>1, <3>2, <3>3
  <2>3. CASE Mutate(p)
    <3>1. commits' = commits /\ proc[p].at # "idle"
      BY <2>3 DEF Mutate, git
    <3>2. QED
      BY <1>0, <2>3, <3>1, BusyHasJob, MutateGrows
  <2>4. CASE Unmoved /\ ~ VerifyBefore(p) /\ ~ VerifyAfter(p) /\ ~ Mutate(p)
    <3>1. work' = work
      BY <1>1, <2>4
         DEF Step, BeginAutoCommit, BeginFinalize, Inspect, ReadHead, InspectAgain,
             MutationNotCommitted, Locate, Prepare, ReadLog, StageSet, CheckCached, StartCommit,
             Observe, Judge, Recover, Return, Crash
    <3>2. QED
      BY <1>0, <2>4, <3>1 DEF Unmoved
  <2>5. QED
    BY <1>1, <2>1, <2>2, <2>3, <2>4, StepUnmoved
<1>2. CASE GitCommitEnds
  <2>1. journal' = journal /\ work' = work /\ \E c : commits' = Append(commits, c)
    BY <1>2 DEF GitCommitEnds, GitCommits
  <2>2. QED
    BY <1>0, <2>1, ExtendsByOne
<1>3. CASE GitCommitFails
  BY <1>0, <1>3 DEF GitCommitFails
<1>4. ASSUME NEW f \in Path, ForeignEdit(f) \/ ForeignAdd(f)
      PROVE  Extends(commits, commits') /\ Extends(journal, journal') /\ work' \in WorkTree
  <2>1. commits' = commits /\ journal' = journal
        /\ (work' = work \/ work' = [work EXCEPT ![f] = Foreign])
    BY <1>4 DEF ForeignEdit, ForeignAdd
  <2>2. Foreign \in Bytes
    BY DEF Bytes
  <2> HIDE DEF Bytes
  <2>3. [work EXCEPT ![f] = Foreign] \in WorkTree
    BY <1>0, <2>2 DEF WorkTree
  <2>4. QED
    BY <1>0, <2>1, <2>3
<1>5. CASE ForeignCommit
  <2>1. journal' = journal /\ work' = work /\ \E c : commits' = Append(commits, c)
    BY <1>5 DEF ForeignCommit
  <2>2. QED
    BY <1>0, <2>1, ExtendsByOne
<1>6. CASE ClaimCommand
  <2>1. /\ commits' = commits /\ work' = Rewritten(work, journal')
        /\ \E e : journal' = Append(journal, e)
    BY <1>6 DEF ClaimCommand
  <2>2. Extends(journal, journal')
    BY <1>0, <2>1, ExtendsByOne
  <2>3. QED
    BY <1>0, <2>1, <2>2, RewrittenType DEF Extends
<1>7. ASSUME NEW m \in Mutation, PlainMutation(m)
      PROVE  Extends(commits, commits') /\ Extends(journal, journal') /\ work' \in WorkTree
  <2>1. commits' = commits /\ Publishes(m, 0)
    BY <1>7 DEF PlainMutation
  <2>2. QED
    BY <1>0, <2>1, PublishesGrows
<1>8. QED
  BY <1>0, <1>1, <1>2, <1>3, <1>4, <1>5, <1>6, <1>7 DEF AutoNext, Environment

-----------------------------------------------------------------------------
(* What an invocation, or its recovery token, knows: the commit it started *)
(* from, the paths it owns, what HEAD holds of those it does not own, and  *)
(* the log it has seen. The branch and the journal grow; none of it is     *)
(* forgotten.                                                              *)

OwnSet(x) == Log \in x.set /\ x.set \subseteq {ItemOf[x.mut], Log}
LogSeen(x) == x.log = None \/ CarriesTerminal(x.log, x.mut, x.rev)
Kept(x) == ItemOf[x.mut] \in x.set \/ commits[x.head].tree[ItemOf[x.mut]] = x.rev
KeptSince(x) ==
  \/ ItemOf[x.mut] \in x.set
  \/ \E n \in x.head..HEAD : commits[n].tree[ItemOf[x.mut]] = x.rev
Knows(x) == x.head \in 1..HEAD /\ OwnSet(x) /\ LogSeen(x) /\ KeptSince(x)

Exact(j) ==
  LET k == j.seen
  IN  /\ k \in 1..HEAD
      /\ commits[k].inv # 0
      /\ commits[k].changed \subseteq {ItemOf[j.mut], Log}
      /\ commits[k].tree[ItemOf[j.mut]] = j.rev
      /\ CarriesTerminal(commits[k].tree[Log], j.mut, j.rev)

\* Where HEAD has not moved since the set was derived, as far as the invocation knows.
Derived(j) ==
  \/ j.at \in {"log", "stage", "cached", "commit"} \cup Asked
  \/ j.at = "prepare" /\ j.mode = "finalize"

JobSound(j) ==
  j = Idle \/
    /\ j \in Jobs /\ j.head <= HEAD
    /\ j.at \in Before => j.mode = "auto" /\ j.log = None
    /\ j.at \in {"verify", "again", "run", "locate"} => j.head \in 1..HEAD
    /\ j.at \in Bound \cup Asked \cup {"recover", "after"} => Knows(j)
    /\ Derived(j) => Kept(j)
    /\ j.at = "judge" => j.seen \in 1..HEAD
    /\ j.at = "after" \/ (j.at = "done" /\ j.verdict = "committed") => Exact(j)

TokenSound(t) == t \in Tokens /\ Knows(t)

\* A commit's paths are those where it differs from its parent, and only a commit that an
\* invocation asked for has an invocation's subject.
BranchSound ==
  /\ \A k \in 1..HEAD : commits[k].subject # None => commits[k].inv # 0
  /\ \A k \in 1..HEAD : k > 1 =>
       commits[k].changed = {f \in Path : commits[k].tree[f] # commits[k - 1].tree[f]}

Grown == Extends(commits, commits') /\ Extends(journal, journal')

LEMMA TerminalStays ==
  ASSUME Grown, NEW bytes, NEW m, NEW rev, CarriesTerminal(bytes, m, rev)
  PROVE  CarriesTerminal(bytes, m, rev)'
<1>1. bytes \notin {Absent, Foreign}
  BY DEF CarriesTerminal
<1>2. PICK k \in 1..Len(journal) :
        /\ ProjectedTo(journal, k) <= bytes
        /\ LET e == journal[k]
           IN  \/ CommandOf[m] = "publish-claimed" /\ e.type = "final" /\ e.op = m
               \/ CommandOf[m] # "publish-claimed" /\ e.type = "legacy"
                  /\ e.item = ItemOf[m] /\ e.revision = rev
  BY DEF CarriesTerminal
<1>3. /\ k \in 1..Len(journal') /\ journal'[k] = journal[k]
      /\ \A n \in 1..k : journal'[n] = journal[n]
  BY DEF Grown, Extends
<1>4. ProjectedTo(journal', k) = ProjectedTo(journal, k)
  <2>1. {n \in 1..k : journal'[n].type # "finalized"} = {n \in 1..k : journal[n].type # "finalized"}
    BY <1>3
  <2>2. QED
    BY <2>1 DEF ProjectedTo
<1>5. QED
  BY <1>1, <1>2, <1>3, <1>4 DEF CarriesTerminal

LEMMA KnowledgeStays ==
  ASSUME Grown, NEW x
  PROVE  /\ Knows(x) => Knows(x)'
         /\ x.head \in 1..HEAD /\ Kept(x) => Kept(x)'
         /\ Exact(x) => Exact(x)'
<1>1. /\ Len(commits) \in Nat /\ Len(commits') \in Nat /\ Len(commits) <= Len(commits')
      /\ \A k \in 1..Len(commits) : commits'[k] = commits[k]
  BY DEF Grown, Extends
<1>2. ASSUME Knows(x) PROVE Knows(x)'
  <2>1. LogSeen(x)'
    BY <1>2, TerminalStays DEF Knows, LogSeen
  <2>2. KeptSince(x)'
    BY <1>1, <1>2 DEF Knows, KeptSince, HEAD
  <2>3. QED
    BY <1>1, <1>2, <2>1, <2>2 DEF Knows, OwnSet, HEAD
<1>3. ASSUME x.head \in 1..HEAD, Kept(x) PROVE Kept(x)'
  BY <1>1, <1>3 DEF Kept, HEAD
<1>4. ASSUME Exact(x) PROVE Exact(x)'
  <2>1. PICK bytes : bytes = commits[x.seen].tree[Log]
    OBVIOUS
  <2>2. x.seen \in 1..Len(commits) /\ commits'[x.seen] = commits[x.seen]
    BY <1>1, <1>4 DEF Exact, HEAD
  <2>3. CarriesTerminal(bytes, x.mut, x.rev)'
    BY <1>4, <2>1, TerminalStays DEF Exact
  <2>4. commits'[x.seen].tree[Log] = bytes
    BY <2>1, <2>2
  <2>5. CarriesTerminal(commits[x.seen].tree[Log], x.mut, x.rev)'
    BY <2>3, <2>4 DEF CarriesTerminal
  <2>6. QED
    BY <1>1, <1>4, <2>2, <2>5 DEF Exact, HEAD
<1>5. QED
  BY <1>2, <1>3, <1>4

LEMMA JobStays ==
  ASSUME Grown, NEW j, JobSound(j)
  PROVE  JobSound(j)'
<1>1. Len(commits) \in Nat /\ Len(commits') \in Nat /\ Len(commits) <= Len(commits')
  BY DEF Grown, Extends
<1>2. CASE j = Idle
  BY <1>2 DEF JobSound
<1>3. CASE j # Idle
  <2>1. j \in Jobs /\ j.head <= HEAD /\ j.head \in Nat
    BY <1>3 DEF JobSound, Jobs
  <2>2. Derived(j) => j.head \in 1..HEAD
    <3>1. Derived(j) => j.at \in Bound \cup Asked
      BY DEF Derived, Bound
    <3>2. QED
      BY <1>3, <3>1 DEF JobSound, Knows
  <2>3. Derived(j)' = Derived(j)
    BY DEF Derived
  <2> HIDE DEF Jobs
  <2>4. QED
    BY <1>1, <1>3, <2>1, <2>2, <2>3, KnowledgeStays DEF JobSound, HEAD
<1>4. QED
  BY <1>2, <1>3

LEMMA TokenStays == ASSUME Grown, NEW t, TokenSound(t) PROVE TokenSound(t)'
BY KnowledgeStays DEF TokenSound

\* A commit that passes the test is the invocation's, file by file.
LEMMA VerifiedIsExact ==
  ASSUME BranchSound, AutoTypes, NEW j, j.mut \in Mutation, Knows(j), NEW k \in 1..HEAD,
         VerifyCommit(k, j), Kept(j) \/ k = HEAD
  PROVE  /\ commits[k].inv # 0
         /\ commits[k].changed \subseteq {ItemOf[j.mut], Log}
         /\ commits[k].tree[ItemOf[j.mut]] = j.rev
         /\ CarriesTerminal(commits[k].tree[Log], j.mut, j.rev)
<1> DEFINE i == ItemOf[j.mut]
<1>1. /\ k = j.head + 1 /\ commits[k].subject = Subject(j.mut) /\ commits[k].changed = j.set
      /\ i \in j.set => commits[k].tree[i] = j.rev
      /\ IF j.log = None THEN CarriesTerminal(commits[k].tree[Log], j.mut, j.rev)
                         ELSE commits[k].tree[Log] = j.log
  BY DEF VerifyCommit
<1>2. i \in Path
  BY PathTypes
<1>3. Subject(j.mut) # None
  BY AutoCommitAssumption DEF AutoCommitAssumption, Subject
<1>4. commits[k].inv # 0
  BY <1>1, <1>3 DEF BranchSound
<1>5. commits[k].changed \subseteq {i, Log}
  BY <1>1 DEF Knows, OwnSet
<1>6. commits[k].tree[i] = j.rev
  <2>1. CASE i \notin j.set
    <3>1. j.head \in 1..HEAD /\ j.head = k - 1 /\ k > 1 /\ HEAD \in Nat
      BY <1>1, CommitsAreJournal, JournalLen DEF Knows, HEAD
    <3>2. commits[k].tree[i] = commits[j.head].tree[i]
      BY <1>1, <1>2, <2>1, <3>1 DEF BranchSound
    <3>3. CASE Kept(j)
      BY <2>1, <3>2, <3>3 DEF Kept
    <3>4. CASE k = HEAD
      <4>1. PICK n \in j.head..HEAD : commits[n].tree[i] = j.rev
        BY <2>1 DEF Knows, KeptSince
      <4>2. n = j.head \/ n = k
        BY <3>1, <3>4
      <4>3. QED
        BY <3>2, <4>1, <4>2
    <3>5. QED
      BY <3>3, <3>4
  <2>2. QED
    BY <1>1, <2>1
<1>7. CarriesTerminal(commits[k].tree[Log], j.mut, j.rev)
  BY <1>1 DEF Knows, LogSeen
<1>8. QED
  BY <1>4, <1>5, <1>6, <1>7

-----------------------------------------------------------------------------
(* The forms a step gives to the job of its process.                       *)

Held(i, j) ==
  /\ j \in Jobs /\ j.mode = i.mode /\ j.inv = i.inv /\ j.mut = i.mut /\ j.head = i.head
  /\ j.rev = i.rev /\ j.set = i.set /\ j.log = i.log

LEMMA WalkForm ==
  ASSUME NEW i \in Jobs, NEW a \in Places
  PROVE  LET j == [i EXCEPT !.at = a] IN Held(i, j) /\ j.at = a /\ j.seen = i.seen
BY DEF Held, Jobs

LEMMA AnswerForm ==
  ASSUME NEW i \in Jobs, NEW v \in AutoVerdicts
  PROVE  LET j == [i EXCEPT !.at = "done", !.verdict = v]
         IN  Held(i, j) /\ j.at = "done" /\ j.verdict = v /\ j.seen = i.seen
<1>1. "done" \in Places
  BY DEF Places
<1>2. QED
  BY <1>1 DEF Held, Jobs

LEMMA CodeForm ==
  ASSUME NEW i \in Jobs, NEW a \in Places, NEW c \in {0, 1}
  PROVE  LET j == [i EXCEPT !.at = a, !.code = c] IN Held(i, j) /\ j.at = a /\ j.code = c
BY DEF Held, Jobs

Sees(i, j, a, n) == Held(i, j) /\ j.at = a /\ j.seen = n

LEMMA SeenForm ==
  ASSUME NEW i \in Jobs, NEW a \in Places, NEW n \in Nat
  PROVE  Sees(i, [i EXCEPT !.at = a, !.seen = n], a, n)
BY DEF Sees, Held, Jobs

HeadRead(i, j, n) ==
  /\ j \in Jobs /\ j.at = "verify" /\ j.head = n /\ j.mode = i.mode /\ j.log = i.log
  /\ j.inv = i.inv

LEMMA HeadForm ==
  ASSUME NEW i \in Jobs, NEW n \in Nat
  PROVE  HeadRead(i, [i EXCEPT !.at = "verify", !.head = n], n)
<1>1. "verify" \in Places
  BY DEF Places, Before
<1>2. QED
  BY <1>1 DEF Jobs, HeadRead

SetDerived(i, j, s) ==
  /\ j \in Jobs /\ j.at = "prepare" /\ j.head = i.head /\ j.mode = i.mode /\ j.log = i.log
  /\ j.inv = i.inv /\ j.mut = i.mut /\ j.rev = i.rev /\ j.set = s

LEMMA SetForm ==
  ASSUME NEW i \in Jobs, NEW s \in SUBSET LedgerPath
  PROVE  SetDerived(i, [i EXCEPT !.at = "prepare", !.set = s], s)
<1>1. "prepare" \in Places
  BY DEF Places, Bound
<1>2. QED
  BY <1>1 DEF Jobs, SetDerived

LogRead(i, j, l) ==
  /\ j \in Jobs /\ j.at = "stage" /\ j.head = i.head /\ j.mode = i.mode /\ j.log = l
  /\ j.inv = i.inv /\ j.mut = i.mut /\ j.rev = i.rev /\ j.set = i.set

LEMMA LogForm ==
  ASSUME NEW i \in Jobs, NEW l \in Bytes
  PROVE  LogRead(i, [i EXCEPT !.at = "stage", !.log = l], l)
<1> DEFINE L == Bytes \cup {None}
<1>1. l \in L /\ "stage" \in Places
  BY DEF Places, Bound
<1> HIDE DEF L
<1>2. QED
  BY <1>1 DEF Jobs, L, LogRead

\* The token of a failed attempt.
LEMMA TokenForm ==
  ASSUME NEW i \in Jobs
  PROVE  LET t == [k \in {"inv", "mut", "head", "rev", "set", "log"} |-> i[k]]
         IN  /\ t \in Tokens /\ t.inv = i.inv /\ t.mut = i.mut /\ t.head = i.head
             /\ t.rev = i.rev /\ t.set = i.set /\ t.log = i.log
BY DEF Jobs, Tokens

LEMMA KnowsTheSame ==
  ASSUME NEW x, NEW y, x.head = y.head, x.mut = y.mut, x.rev = y.rev, x.set = y.set, x.log = y.log
  PROVE  (Knows(x)' => Knows(y)') /\ (Kept(x)' => Kept(y)')
<1>1. Kept(x)' => Kept(y)'
  BY DEF Kept
<1>2. ASSUME Knows(x)' PROVE Knows(y)'
  <2>1. LogSeen(y)'
    BY <1>2 DEF Knows, LogSeen
  <2>2. KeptSince(y)'
    BY <1>2 DEF Knows, KeptSince
  <2>3. QED
    BY <1>2, <2>1, <2>2 DEF Knows, OwnSet
<1>3. QED
  BY <1>1, <1>2

\* A step that changes neither the start nor the set nor the log.
LEMMA WalkSound ==
  ASSUME NEW i \in Jobs, NEW j, JobSound(i)', Held(i, j), i # Idle,
         j.at \in Before => i.at \in Before,
         j.at \in {"verify", "again", "run", "locate"} =>
           i.at \in {"verify", "again", "run", "locate"},
         j.at \in Bound \cup Asked \cup {"recover", "after"} =>
           i.at \in Bound \cup Asked \cup {"recover", "after"},
         Derived(j) => Derived(i) \/ Kept(j)',
         j.at = "judge" => j.seen \in 1..HEAD',
         j.at = "after" \/ (j.at = "done" /\ j.verdict = "committed") => Exact(j)'
  PROVE  JobSound(j)'
<1>1. (Knows(i)' => Knows(j)') /\ (Kept(i)' => Kept(j)')
  BY KnowsTheSame DEF Held
<1>2. /\ i.head <= HEAD' /\ (i.at \in Before => i.mode = "auto" /\ i.log = None)
      /\ i.at \in {"verify", "again", "run", "locate"} => i.head \in 1..HEAD'
      /\ i.at \in Bound \cup Asked \cup {"recover", "after"} => Knows(i)'
      /\ Derived(i) => Kept(i)'
  BY DEF JobSound, Derived
<1>3. Derived(j)' = Derived(j)
  BY DEF Derived
<1>4. QED
  BY <1>1, <1>2, <1>3 DEF JobSound, Held

JobsSound == \A q \in Proc : JobSound(proc[q])
TokensSound == \A t \in tokens : TokenSound(t)

LEMMA JobReplaced ==
  ASSUME AutoTypes, JobsSound, Grown, NEW p \in Proc, NEW j, proc' = [proc EXCEPT ![p] = j],
         JobSound(j)'
  PROVE  JobsSound' /\ proc' \in [Proc -> Jobs \cup {Idle}]
<1>1. j \in Jobs \cup {Idle}
  BY DEF JobSound
<1>2. proc' \in [Proc -> Jobs \cup {Idle}]
  BY <1>1 DEF AutoTypes
<1>3. ASSUME NEW q \in Proc PROVE JobSound(proc[q])'
  <2>1. CASE q = p
    <3>1. proc'[q] = j
      BY <2>1 DEF AutoTypes
    <3>2. QED
      BY <3>1 DEF JobSound, Derived, Knows, Kept, OwnSet, LogSeen, KeptSince, Exact
  <2>2. CASE q # p
    <3>1. PICK i : i = proc[q]
      OBVIOUS
    <3>2. proc'[q] = i
      BY <2>2, <3>1 DEF AutoTypes
    <3>3. JobSound(i)'
      BY <3>1, JobStays DEF JobsSound
    <3>4. QED
      BY <3>2, <3>3 DEF JobSound, Derived, Knows, Kept, OwnSet, LogSeen, KeptSince, Exact
  <2>3. QED
    BY <2>1, <2>2
<1>4. QED
  BY <1>2, <1>3 DEF JobsSound

-----------------------------------------------------------------------------
(* The ways a step leaves its invocation.                                  *)

LEMMA GotoIs ==
  ASSUME AutoTypes, NEW p \in Proc, NEW a, Goto(p, a)
  PROVE  proc' = [proc EXCEPT ![p] = [proc[p] EXCEPT !.at = a]]
BY DEF Goto, AutoTypes

LEMMA AnswerIs ==
  ASSUME AutoTypes, NEW p \in Proc, NEW v, AnswerWith(p, v)
  PROVE  proc' = [proc EXCEPT ![p] = [proc[p] EXCEPT !.at = "done", !.verdict = v]]
BY DEF AnswerWith, AutoTypes

LEMMA TokensKept == ASSUME TokensSound, Grown, tokens' = tokens PROVE TokensSound'
<1>1. ASSUME NEW t \in tokens' PROVE TokenSound(t)'
  BY <1>1, TokenStays DEF TokensSound
<1>2. QED
  BY <1>1 DEF TokensSound

Sound == AutoTypes /\ BranchSound /\ JobsSound /\ TokensSound

Keeps == JobsSound' /\ TokensSound' /\ proc' \in [Proc -> Jobs \cup {Idle}]

\* A step within one invocation keeps what all of them know, when the job it leaves is sound.
LEMMA WalkKeeps ==
  ASSUME Sound, Grown, NEW p \in Proc, NEW j, proc' = [proc EXCEPT ![p] = j], JobSound(j)',
         tokens' = tokens
  PROVE  Keeps
BY JobReplaced, TokensKept DEF Sound, Keeps

LEMMA AnswerKeeps ==
  ASSUME Sound, Grown, NEW p \in Proc, proc[p].at \notin {"idle", "done"},
         NEW v \in AutoVerdicts \ {"committed"}, AnswerWith(p, v), tokens' = tokens
  PROVE  Keeps
<1>1. PICK i : i = proc[p]
  OBVIOUS
<1>2. i \in Jobs /\ JobSound(i)' /\ i # Idle
  BY <1>1, BusyHasJob, JobStays DEF Sound, JobsSound, Idle
<1>3. PICK j : j = [i EXCEPT !.at = "done", !.verdict = v]
  OBVIOUS
<1>4. Held(i, j) /\ j.at = "done" /\ j.verdict = v
  BY <1>2, <1>3, AnswerForm
<1>5. JobSound(j)'
  BY <1>2, <1>4, WalkSound DEF Before, Bound, Asked, Derived
<1>6. proc' = [proc EXCEPT ![p] = j]
  BY <1>1, <1>3, AnswerIs DEF Sound
<1>7. QED
  BY <1>5, <1>6, WalkKeeps

\* The token knows what the invocation that failed knew.
LEMMA FailKeeps ==
  ASSUME Sound, Grown, NEW p \in Proc, proc[p].at \in Bound \cup Asked,
         NEW v \in AutoVerdicts \ {"committed"}, Fail(p, v)
  PROVE  Keeps
<1>0. proc[p].at \notin {"idle", "done"}
  BY DEF Bound, Asked
<1>1. PICK i : i = proc[p]
  OBVIOUS
<1>2. i \in Jobs /\ JobSound(i)' /\ i # Idle
  BY <1>0, <1>1, BusyHasJob, JobStays DEF Sound, JobsSound, Idle
<1>3. PICK j : j = [i EXCEPT !.at = "done", !.verdict = v]
  OBVIOUS
<1>4. Held(i, j) /\ j.at = "done" /\ j.verdict = v
  BY <1>2, <1>3, AnswerForm
<1>5. JobSound(j)'
  BY <1>2, <1>4, WalkSound DEF Before, Bound, Asked, Derived
<1>6. proc' = [proc EXCEPT ![p] = j]
  BY <1>1, <1>3, AnswerIs DEF Sound, Fail
<1>7. JobsSound' /\ proc' \in [Proc -> Jobs \cup {Idle}]
  BY <1>5, <1>6, JobReplaced DEF Sound
<1>8. PICK t : t = [k \in {"inv", "mut", "head", "rev", "set", "log"} |-> i[k]]
  OBVIOUS
<1>9. TokenSound(t)'
  <2>1. /\ t \in Tokens /\ t.mut = i.mut /\ t.head = i.head /\ t.rev = i.rev
        /\ t.set = i.set /\ t.log = i.log
    BY <1>2, <1>8, TokenForm
  <2>2. Knows(i)'
    BY <1>1, <1>2 DEF JobSound
  <2>3. Knows(t)'
    BY <2>1, <2>2, KnowsTheSame
  <2>4. QED
    BY <2>1, <2>3 DEF TokenSound
<1>10. tokens' \subseteq tokens \cup {t}
  BY <1>1, <1>8 DEF Fail
<1>11. ASSUME NEW u \in tokens' PROVE TokenSound(u)'
  <2>1. CASE u = t
    BY <1>9, <2>1
  <2>2. CASE u \in tokens
    BY <2>2, TokenStays DEF Sound, TokensSound
  <2>3. QED
    BY <1>10, <2>1, <2>2
<1>12. QED
  BY <1>7, <1>11 DEF Keeps, TokensSound

LEMMA DeclineKeeps ==
  ASSUME Sound, Grown, NEW p \in Proc, proc[p].at \in Bound, Decline(p)
  PROVE  Keeps
<1>1. "failed" \in AutoVerdicts \ {"committed"} /\ "refused" \in AutoVerdicts \ {"committed"}
  BY DEF AutoVerdicts
<1>2. CASE Fail(p, "failed")
  BY <1>1, <1>2, FailKeeps
<1>3. CASE AnswerWith(p, "refused") /\ tokens' = tokens
  <2>1. proc[p].at \notin {"idle", "done"}
    BY DEF Bound
  <2>2. QED
    BY <1>1, <1>3, <2>1, AnswerKeeps
<1>4. QED
  BY <1>2, <1>3 DEF Decline

\* Walking on from one place to another, with what is known.
LEMMA GotoKeeps ==
  ASSUME Sound, Grown, NEW p \in Proc, proc[p].at \notin {"idle", "done"},
         NEW a \in Places \ {"judge", "after", "done"}, Goto(p, a), tokens' = tokens,
         a \in Before => proc[p].at \in Before,
         a \in {"verify", "again", "run", "locate"} =>
           proc[p].at \in {"verify", "again", "run", "locate"},
         a \in Bound \cup Asked \cup {"recover"} =>
           proc[p].at \in Bound \cup Asked \cup {"recover"},
         a \in {"log", "stage", "cached", "commit"} \cup Asked \cup {"prepare"} =>
           Derived(proc[p]) \/ \A i : i = proc[p] => Kept(i)'
  PROVE  Keeps
<1>1. PICK i : i = proc[p]
  OBVIOUS
<1>2. i \in Jobs /\ JobSound(i)' /\ i # Idle
  BY <1>1, BusyHasJob, JobStays DEF Sound, JobsSound, Idle
<1>3. PICK j : j = [i EXCEPT !.at = a]
  OBVIOUS
<1>4. Held(i, j) /\ j.at = a
  BY <1>2, <1>3, WalkForm
<1>5. Kept(i)' => Kept(j)'
  BY <1>4, KnowsTheSame DEF Held
<1>6. Derived(j) => Derived(i) \/ Kept(j)'
  BY <1>1, <1>4, <1>5 DEF Derived
<1>7. JobSound(j)'
  BY <1>1, <1>2, <1>4, <1>6, WalkSound
<1>8. proc' = [proc EXCEPT ![p] = j]
  BY <1>1, <1>3, GotoIs DEF Sound
<1>9. QED
  BY <1>7, <1>8, WalkKeeps

-----------------------------------------------------------------------------
(* The steps of an invocation.                                             *)

LEMMA BeginsSound ==
  ASSUME Sound, Grown, NEW p \in Proc,
         \/ \E m \in Mutation : BeginAutoCommit(p, m)
         \/ \E t \in tokens : BeginFinalize(p, t)
  PROVE  Keeps
<1>1. ASSUME NEW m \in Mutation, BeginAutoCommit(p, m) PROVE Keeps
  <2>1. PICK j : j = [at |-> "inspect", mode |-> "auto", inv |-> used + 1, mut |-> m, head |-> 0,
                      rev |-> RevisionOf[m], set |-> {}, log |-> None, code |-> 0, seen |-> 0,
                      verdict |-> None]
    OBVIOUS
  <2>2. proc' = [proc EXCEPT ![p] = j] /\ tokens' = tokens
    BY <1>1, <2>1 DEF BeginAutoCommit
  <2>3. used + 1 \in Nat \ {0} /\ RevisionOf[m] \in Bytes /\ None \in Bytes \cup {None}
    BY DEF Bytes, Sound, AutoTypes
  <2> DEFINE L == Bytes \cup {None}
  <2>4. L = Bytes \cup {None}
    OBVIOUS
  <2> HIDE DEF L
  <2>5. j \in Jobs /\ j.at = "inspect" /\ j.mode = "auto" /\ j.log = None /\ j.head = 0
    BY <2>1, <2>3, <2>4 DEF Jobs, Places, Before, AutoVerdicts
  <2>6. 0 <= HEAD'
    BY DEF Grown, Extends, HEAD
  <2>7. JobSound(j)'
    BY <2>5, <2>6 DEF JobSound, Derived, Bound, Asked
  <2>8. QED
    BY <2>2, <2>7, WalkKeeps
<1>2. ASSUME NEW t \in tokens, BeginFinalize(p, t) PROVE Keeps
  <2>1. PICK j : j = [at |-> "recover", mode |-> "finalize", inv |-> t.inv, mut |-> t.mut,
                      head |-> t.head, rev |-> t.rev, set |-> t.set, log |-> t.log, code |-> 0,
                      seen |-> 0, verdict |-> None]
    OBVIOUS
  <2>2. proc' = [proc EXCEPT ![p] = j] /\ tokens' = tokens
    BY <1>2, <2>1 DEF BeginFinalize
  <2>3. t \in Tokens /\ Knows(t)'
    BY TokenStays DEF Sound, TokensSound, TokenSound
  <2> DEFINE L == Bytes \cup {None}
  <2>4. L = Bytes \cup {None}
    OBVIOUS
  <2>5. /\ t.inv \in Nat \ {0} /\ t.mut \in Mutation /\ t.head \in Nat /\ t.rev \in Bytes
        /\ t.set \in SUBSET LedgerPath /\ t.log \in L
    BY <2>3 DEF Tokens
  <2> HIDE DEF L
  <2>6. /\ j \in Jobs /\ j.at = "recover" /\ j.head = t.head /\ j.mut = t.mut /\ j.rev = t.rev
        /\ j.set = t.set /\ j.log = t.log
    BY <2>1, <2>4, <2>5 DEF Jobs, Places, AutoVerdicts
  <2>7. Knows(j)'
    BY <2>3, <2>6, KnowsTheSame
  <2>8. j.head <= HEAD'
    BY <2>7 DEF Knows
  <2>9. JobSound(j)'
    BY <2>6, <2>7, <2>8 DEF JobSound, Derived, Before, Bound, Asked
  <2>10. QED
    BY <2>2, <2>9, WalkKeeps
<1>3. QED
  BY <1>1, <1>2

LEMMA LeavesSound ==
  ASSUME Sound, Grown, NEW p \in Proc, Return(p) \/ Crash(p)
  PROVE  Keeps
<1>1. proc' = [proc EXCEPT ![p] = Idle] /\ tokens' = tokens
  BY DEF Return, Crash
<1>2. JobSound(Idle)'
  BY DEF JobSound, Idle
<1>3. QED
  BY <1>1, <1>2, WalkKeeps

LEMMA VerdictNames ==
  /\ {"failed", "refused", "unknown", "unreconciled"} \subseteq AutoVerdicts \ {"committed"}
  /\ "committed" \in AutoVerdicts
BY DEF AutoVerdicts

\* The steps that come before the commit set.
LEMMA BeforeSound ==
  ASSUME Sound, Grown, NEW p \in Proc,
         \/ Inspect(p) \/ ReadHead(p) \/ VerifyBefore(p) \/ InspectAgain(p)
         \/ Mutate(p) \/ MutationNotCommitted(p)
  PROVE  Keeps
<1>1. CASE Inspect(p)
  <2>1. proc[p].at = "inspect" /\ tokens' = tokens
        /\ (Goto(p, "head") \/ AnswerWith(p, "refused"))
    BY <1>1 DEF Inspect
  <2>2. QED
    BY <2>1, VerdictNames, AnswerKeeps, GotoKeeps DEF Places, Before, Bound, Asked
<1>2. CASE ReadHead(p)
  <2>1. PICK i : i = proc[p]
    OBVIOUS
  <2>2. i.at = "head" /\ i \in Jobs /\ JobSound(i)'
    BY <1>2, <2>1, BusyHasJob, JobStays DEF ReadHead, Sound, JobsSound
  <2>3. PICK n : n = HEAD
    OBVIOUS
  <2>4. PICK j : j = [i EXCEPT !.at = "verify", !.head = n]
    OBVIOUS
  <2>5. proc' = [proc EXCEPT ![p] = j] /\ tokens' = tokens /\ commits' = commits
    BY <1>2, <2>1, <2>3, <2>4 DEF ReadHead, git, Sound, AutoTypes
  <2>6. n \in Nat /\ n >= 1 /\ HEAD' = n
    BY <2>3, <2>5, CommitsAreJournal, JournalLen DEF HEAD, Sound, AutoTypes
  <2>7. HeadRead(i, j, n)
    BY <2>2, <2>4, <2>6, HeadForm
  <2>8. i.mode = "auto" /\ i.log = None
    BY <2>2 DEF JobSound, Before, Idle
  <2>9. JobSound(j)'
    BY <2>6, <2>7, <2>8 DEF HeadRead, JobSound, Derived, Before, Bound, Asked
  <2>10. QED
    BY <2>5, <2>9, WalkKeeps
<1>3. CASE VerifyBefore(p)
  <2>1. proc[p].at = "verify" /\ tokens' = tokens
        /\ (Goto(p, "again") \/ AnswerWith(p, "refused"))
    BY <1>3 DEF VerifyBefore
  <2>2. QED
    BY <2>1, VerdictNames, AnswerKeeps, GotoKeeps DEF Places, Before, Bound, Asked
<1>4. CASE InspectAgain(p)
  <2>1. proc[p].at = "again" /\ tokens' = tokens
        /\ (Goto(p, "run") \/ AnswerWith(p, "refused"))
    BY <1>4 DEF InspectAgain
  <2>2. QED
    BY <2>1, VerdictNames, AnswerKeeps, GotoKeeps DEF Places, Before, Bound, Asked
<1>5. CASE Mutate(p)
  <2>1. proc[p].at = "run" /\ tokens' = tokens /\ Goto(p, "locate")
    BY <1>5 DEF Mutate
  <2>2. QED
    BY <2>1, GotoKeeps DEF Places, Before, Bound, Asked
<1>6. CASE MutationNotCommitted(p)
  <2>1. proc[p].at = "run" /\ tokens' = tokens /\ AnswerWith(p, "refused")
    BY <1>6 DEF MutationNotCommitted
  <2>2. QED
    BY <2>1, VerdictNames, AnswerKeeps
<1>7. QED
  BY <1>1, <1>2, <1>3, <1>4, <1>5, <1>6

\* The commit set: what HEAD does not hold of the item, and the log.
LEMMA LocateSound ==
  ASSUME Sound, Grown, NEW p \in Proc, Locate(p)
  PROVE  Keeps
<1>1. CASE AnswerWith(p, "failed")
  <2>1. proc[p].at = "locate" /\ tokens' = tokens
    BY DEF Locate
  <2>2. QED
    BY <1>1, <2>1, VerdictNames, AnswerKeeps
<1>2. CASE ~ AnswerWith(p, "failed")
  <2>1. PICK i : i = proc[p]
    OBVIOUS
  <2>2. i.at = "locate" /\ i \in Jobs /\ JobSound(i)'
    BY <2>1, BusyHasJob, JobStays DEF Locate, Sound, JobsSound
  <2>3. PICK s : s = CommitSet(i.mut, i.rev)
    OBVIOUS
  <2>4. PICK j : j = [i EXCEPT !.at = "prepare", !.set = s]
    OBVIOUS
  <2>5. proc' = [proc EXCEPT ![p] = j] /\ tokens' = tokens /\ commits' = commits
    BY <1>2, <2>1, <2>3, <2>4 DEF Locate, git, Sound, AutoTypes
  <2>6. i.mut \in Mutation /\ ItemOf[i.mut] \in LedgerPath /\ Log \in LedgerPath
    BY <2>2, PathTypes DEF Jobs
  <2>7. s \in SUBSET LedgerPath /\ Log \in s /\ s \subseteq {ItemOf[i.mut], Log}
        /\ (ItemOf[i.mut] \notin s => commits[HEAD].tree[ItemOf[i.mut]] = i.rev)
    BY <2>3, <2>6 DEF CommitSet, HeadTree
  <2>8. SetDerived(i, j, s)
    BY <2>2, <2>4, <2>7, SetForm
  <2>9. i.mode = "auto" /\ i.log = None /\ i.head \in 1..HEAD'
    BY <2>2 DEF JobSound, Before, Idle
  <2>10. HEAD' = HEAD /\ HEAD \in Nat
    BY <2>5, CommitsAreJournal, JournalLen DEF HEAD, Sound
  <2>11. KeptSince(j)'
    BY <2>5, <2>7, <2>8, <2>9, <2>10 DEF KeptSince, SetDerived
  <2>12. Knows(j)'
    BY <2>7, <2>8, <2>9, <2>11 DEF Knows, OwnSet, LogSeen, SetDerived
  <2>13. j.head <= HEAD'
    BY <2>8, <2>9, <2>10 DEF SetDerived
  <2>14. JobSound(j)'
    BY <2>8, <2>9, <2>12, <2>13 DEF SetDerived, JobSound, Derived, Before, Bound, Asked
  <2>15. QED
    BY <2>5, <2>14, WalkKeeps
<1>3. QED
  BY <1>1, <1>2

\* Where HEAD is still the commit the invocation started from, what it does not own is there.
LEMMA UnmovedIsKept ==
  ASSUME Sound, Grown, NEW i, KeptSince(i), i.head \in 1..HEAD, HEAD = i.head
  PROVE  Kept(i)'
<1>1. Kept(i)
  BY DEF KeptSince, Kept
<1>2. QED
  BY <1>1, KnowledgeStays

LEMMA PrepareSound ==
  ASSUME Sound, Grown, NEW p \in Proc, Prepare(p)
  PROVE  Keeps
<1>1. proc[p].at = "prepare" /\ proc[p].at \in Bound /\ proc[p].at \notin {"idle", "done"}
  BY DEF Prepare, Bound
<1>2. CASE Decline(p)
  BY <1>1, <1>2, DeclineKeeps
<1>3. CASE ~ Decline(p)
  <2>1. PICK i : i = proc[p]
    OBVIOUS
  <2>2. i \in Jobs /\ JobSound(i)
    BY <1>1, <2>1, BusyHasJob DEF Sound, JobsSound
  <2>3. Knows(i)
    BY <1>1, <2>1, <2>2 DEF JobSound, Idle
  <2>4. /\ Goto(p, "log") /\ tokens' = tokens
        /\ i.mode = "auto" => HEAD = i.head
    BY <1>3, <2>1 DEF Prepare
  <2>7. Kept(i)'
    <3>1. CASE i.mode = "auto"
      BY <2>3, <2>4, <3>1, UnmovedIsKept DEF Knows
    <3>2. CASE i.mode # "auto"
      <4>1. Derived(i)
        BY <1>1, <2>1, <2>2, <3>2 DEF Derived, Jobs
      <4>2. JobSound(i)' /\ i # Idle
        BY <1>1, <2>1, <2>2, JobStays DEF Idle
      <4>3. QED
        BY <4>1, <4>2 DEF JobSound, Derived
    <3>3. QED
      BY <3>1, <3>2
  <2>8. \A x : x = proc[p] => Kept(x)'
    BY <2>1, <2>7
  <2>9. "log" \in Places \ {"judge", "after", "done"} /\ "log" \notin Before
    BY DEF Places, Bound, Before
  <2>10. QED
    BY <1>1, <2>4, <2>8, <2>9, GotoKeeps
<1>4. QED
  BY <1>2, <1>3

LEMMA ReadLogSound ==
  ASSUME Sound, Grown, NEW p \in Proc, ReadLog(p)
  PROVE  Keeps
<1>1. proc[p].at = "log" /\ proc[p].at \in Bound /\ proc[p].at \notin {"idle", "done"}
  BY DEF ReadLog, Bound
<1>2. CASE Decline(p)
  BY <1>1, <1>2, DeclineKeeps
<1>3. CASE ~ Decline(p)
  <2>1. PICK i : i = proc[p]
    OBVIOUS
  <2>2. i \in Jobs /\ JobSound(i)' /\ i.at = "log"
    BY <1>1, <2>1, BusyHasJob, JobStays DEF Sound, JobsSound
  <2>3. PICK l : l = work[Log]
    OBVIOUS
  <2>4. PICK j : j = [i EXCEPT !.at = "stage", !.log = l]
    OBVIOUS
  <2>5. proc' = [proc EXCEPT ![p] = j] /\ tokens' = tokens
    BY <1>3, <2>1, <2>3, <2>4 DEF ReadLog, Sound, AutoTypes
  <2>6. l \in Bytes
    BY <2>3, PathTypes DEF Sound, AutoTypes, WorkTree
  <2>7. CarriesTerminal(l, i.mut, i.rev)'
    <3>1. CarriesTerminal(l, i.mut, i.rev)
      BY <1>3, <2>1, <2>3 DEF ReadLog
    <3>2. QED
      BY <3>1, TerminalStays
  <2>8. LogRead(i, j, l)
    BY <2>2, <2>4, <2>6, LogForm
  <2>9. Knows(i)' /\ Kept(i)' /\ i.head <= HEAD'
    BY <2>2 DEF JobSound, Derived, Bound, Idle
  <2>10. Kept(j)'
    BY <2>8, <2>9 DEF Kept, LogRead
  <2>11. Knows(j)'
    <3>1. KeptSince(j)'
      BY <2>8, <2>9 DEF Knows, KeptSince, LogRead
    <3>2. LogSeen(j)'
      BY <2>7, <2>8 DEF LogSeen, LogRead
    <3>3. QED
      BY <2>8, <2>9, <3>1, <3>2 DEF Knows, OwnSet, LogRead
  <2>12. JobSound(j)'
    BY <2>8, <2>9, <2>10, <2>11 DEF LogRead, JobSound, Derived, Before, Bound, Asked
  <2>13. QED
    BY <2>5, <2>12, WalkKeeps
<1>4. QED
  BY <1>2, <1>3

LEMMA StageAndStartSound ==
  ASSUME Sound, Grown, NEW p \in Proc, StageSet(p) \/ CheckCached(p) \/ StartCommit(p)
  PROVE  Keeps
<1>0. /\ {"cached", "commit", "committing"} \subseteq Places \ {"judge", "after", "done"}
      /\ {"cached", "commit", "committing"} \cap Before = {}
      /\ {"verify", "again", "run", "locate"} \cap {"cached", "commit", "committing"} = {}
  BY DEF Places, Before, Bound, Asked
<1>1. CASE StageSet(p)
  <2>1. proc[p].at = "stage" /\ tokens' = tokens /\ Goto(p, "cached")
    BY <1>1 DEF StageSet
  <2>2. Derived(proc[p]) /\ proc[p].at \in Bound
    BY <2>1 DEF Derived, Bound
  <2>3. QED
    BY <1>0, <2>1, <2>2, GotoKeeps
<1>2. CASE CheckCached(p)
  <2>1. proc[p].at = "cached" /\ (Fail(p, "failed") \/ (Goto(p, "commit") /\ tokens' = tokens))
    BY <1>2 DEF CheckCached
  <2>2. Derived(proc[p]) /\ proc[p].at \in Bound
    BY <2>1 DEF Derived, Bound
  <2>3. QED
    BY <1>0, <2>1, <2>2, VerdictNames, FailKeeps, GotoKeeps
<1>3. CASE StartCommit(p) /\ child = None
  <2>1. proc[p].at = "commit" /\ tokens' = tokens /\ Goto(p, "committing")
    BY <1>3 DEF StartCommit
  <2>2. Derived(proc[p]) /\ proc[p].at \in Bound
    BY <2>1 DEF Derived, Bound
  <2>3. QED
    BY <1>0, <2>1, <2>2, GotoKeeps
<1>4. CASE StartCommit(p) /\ child # None
  <2>1. PICK i : i = proc[p]
    OBVIOUS
  <2>2. i.at = "commit" /\ tokens' = tokens
    BY <1>4, <2>1 DEF StartCommit
  <2>3. i \in Jobs /\ JobSound(i)' /\ i # Idle
    BY <2>1, <2>2, BusyHasJob, JobStays DEF Sound, JobsSound, Idle
  <2>4. PICK j : j = [i EXCEPT !.at = "observe", !.code = 1]
    OBVIOUS
  <2>5. proc' = [proc EXCEPT ![p] = j]
    BY <1>4, <2>1, <2>4 DEF StartCommit, Sound, AutoTypes
  <2>6. Held(i, j) /\ j.at = "observe"
    <3>1. "observe" \in Places /\ 1 \in {0, 1}
      BY DEF Places, Asked
    <3>2. QED
      BY <2>3, <2>4, <3>1, CodeForm
  <2>7. JobSound(j)'
    BY <2>2, <2>3, <2>6, WalkSound DEF Derived, Before, Bound, Asked
  <2>8. QED
    BY <2>2, <2>5, <2>7, WalkKeeps
<1>5. QED
  BY <1>1, <1>2, <1>3, <1>4

\* HEAD is read again, and the commit there is judged.
LEMMA ObserveSound ==
  ASSUME Sound, Grown, NEW p \in Proc, Observe(p)
  PROVE  Keeps
<1>1. proc[p].at = "observe" /\ proc[p].at \in Bound \cup Asked
  BY DEF Observe, Asked
<1>2. CASE HEAD = proc[p].head
  <2>1. Fail(p, "unknown") \/ Fail(p, "failed")
    BY <1>2 DEF Observe
  <2>2. QED
    BY <1>1, <2>1, VerdictNames, FailKeeps
<1>3. CASE HEAD # proc[p].head
  <2>1. PICK i : i = proc[p]
    OBVIOUS
  <2>2. i \in Jobs /\ JobSound(i)' /\ i # Idle /\ i.at = "observe"
    BY <1>1, <2>1, BusyHasJob, JobStays DEF Sound, JobsSound, Idle
  <2>3. PICK n : n = HEAD
    OBVIOUS
  <2>4. PICK j : j = [i EXCEPT !.at = "judge", !.seen = n]
    OBVIOUS
  <2>5. proc' = [proc EXCEPT ![p] = j] /\ tokens' = tokens /\ commits' = commits
    BY <1>3, <2>1, <2>3, <2>4 DEF Observe, git, Sound, AutoTypes
  <2>6. n \in Nat /\ n \in 1..HEAD'
    BY <2>3, <2>5, CommitsAreJournal, JournalLen DEF HEAD, Sound, AutoTypes
  <2>7. "judge" \in Places
    BY DEF Places, Asked
  <2>8. Held(i, j) /\ j.at = "judge" /\ j.seen = n
    <3>1. Sees(i, j, "judge", n)
      BY <2>2, <2>4, <2>6, <2>7, SeenForm
    <3>2. QED
      BY <3>1 DEF Sees
  <2>9. JobSound(j)'
    BY <2>2, <2>6, <2>8, WalkSound DEF Derived, Before, Bound, Asked
  <2>10. QED
    BY <2>5, <2>9, WalkKeeps
<1>4. QED
  BY <1>2, <1>3

LEMMA JudgeSound ==
  ASSUME Sound, Grown, NEW p \in Proc, Judge(p)
  PROVE  Keeps
<1>1. proc[p].at = "judge" /\ proc[p].at \in Bound \cup Asked
  BY DEF Judge, Asked
<1>2. CASE ~ VerifyCommit(proc[p].seen, proc[p])
  <2>1. Fail(p, "unknown")
    BY <1>2 DEF Judge
  <2>2. QED
    BY <1>1, <2>1, VerdictNames, FailKeeps
<1>3. CASE VerifyCommit(proc[p].seen, proc[p])
  <2>1. PICK i : i = proc[p]
    OBVIOUS
  <2>2. i \in Jobs /\ JobSound(i) /\ JobSound(i)' /\ i # Idle /\ i.at = "judge"
    BY <1>1, <2>1, BusyHasJob, JobStays DEF Sound, JobsSound, Idle
  <2>3. PICK j : j = [i EXCEPT !.at = "after"]
    OBVIOUS
  <2>4. "after" \in Places
    BY DEF Places
  <2>5. Held(i, j) /\ j.at = "after" /\ j.seen = i.seen
    BY <2>2, <2>3, <2>4, WalkForm
  <2>6. proc' = [proc EXCEPT ![p] = j] /\ tokens' = tokens
    BY <1>3, <2>1, <2>3, GotoIs DEF Judge, Sound
  <2>7. Knows(i) /\ Kept(i) /\ i.seen \in 1..HEAD /\ i.mut \in Mutation
    BY <2>2 DEF JobSound, Derived, Asked, Jobs
  <2>8. Exact(i)
    BY <1>3, <2>1, <2>7, VerifiedIsExact DEF Sound, Exact
  <2>9. Exact(i)'
    BY <2>8, KnowledgeStays
  <2>10. Exact(j)'
    BY <2>5, <2>9 DEF Exact, Held
  <2>11. JobSound(j)'
    BY <2>2, <2>5, <2>10, WalkSound DEF Derived, Before, Bound, Asked
  <2>12. QED
    BY <2>6, <2>11, WalkKeeps
<1>4. QED
  BY <1>2, <1>3

LEMMA VerifyAfterSound ==
  ASSUME Sound, Grown, NEW p \in Proc, VerifyAfter(p)
  PROVE  Keeps
<1>1. PICK i : i = proc[p]
  OBVIOUS
<1>2. i.at = "after" /\ tokens' = tokens
  BY <1>1 DEF VerifyAfter
<1>3. i \in Jobs /\ JobSound(i)' /\ i # Idle
  BY <1>1, <1>2, BusyHasJob, JobStays DEF Sound, JobsSound, Idle
<1>4. PICK v : v \in AutoVerdicts /\ AnswerWith(p, v)
  <2>1. AnswerWith(p, "committed") \/ AnswerWith(p, "unreconciled")
    BY DEF VerifyAfter
  <2>2. QED
    BY <2>1, VerdictNames
<1>5. PICK j : j = [i EXCEPT !.at = "done", !.verdict = v]
  OBVIOUS
<1>6. Held(i, j) /\ j.at = "done" /\ j.verdict = v /\ j.seen = i.seen
  BY <1>3, <1>4, <1>5, AnswerForm
<1>7. Exact(i)'
  BY <1>2, <1>3 DEF JobSound
<1>8. Exact(j)'
  BY <1>6, <1>7 DEF Exact, Held
<1>9. JobSound(j)'
  BY <1>2, <1>3, <1>6, <1>8, WalkSound DEF Derived, Before, Bound, Asked
<1>10. proc' = [proc EXCEPT ![p] = j]
  BY <1>1, <1>4, <1>5, AnswerIs DEF Sound
<1>11. QED
  BY <1>2, <1>9, <1>10, WalkKeeps

\* A recovery resumes where HEAD has not moved, or finds its commit at HEAD.
LEMMA RecoverSound ==
  ASSUME Sound, Grown, NEW p \in Proc, Recover(p)
  PROVE  Keeps
<1>1. proc[p].at = "recover" /\ proc[p].at \notin {"idle", "done"} /\ tokens' = tokens
  BY DEF Recover
<1>2. PICK i : i = proc[p]
  OBVIOUS
<1>3. i \in Jobs /\ JobSound(i) /\ JobSound(i)' /\ i # Idle /\ i.at = "recover"
  BY <1>1, <1>2, BusyHasJob, JobStays DEF Sound, JobsSound, Idle
<1>4. Knows(i) /\ i.mut \in Mutation
  BY <1>3 DEF JobSound, Jobs
<1>5. CASE AnswerWith(p, "refused")
  BY <1>1, <1>5, VerdictNames, AnswerKeeps
<1>6. CASE HEAD = i.head /\ CommitSet(i.mut, i.rev) = i.set /\ Goto(p, "prepare")
  <2>1. Kept(i)
    BY <1>6 DEF CommitSet, Kept, HeadTree
  <2>2. Kept(i)'
    BY <1>4, <2>1, KnowledgeStays DEF Knows
  <2>3. \A x : x = proc[p] => Kept(x)'
    BY <1>2, <2>2
  <2>4. "prepare" \in Places \ {"judge", "after", "done"} /\ "prepare" \notin Before
    BY DEF Places, Bound, Before
  <2>5. QED
    BY <1>1, <1>6, <2>3, <2>4, GotoKeeps
<1>7. CASE /\ VerifyCommit(HEAD, i)
           /\ proc' = [proc EXCEPT ![p].at = "after", ![p].seen = HEAD]
  <2>1. PICK n : n = HEAD
    OBVIOUS
  <2>2. PICK j : j = [i EXCEPT !.at = "after", !.seen = n]
    OBVIOUS
  <2>3. proc' = [proc EXCEPT ![p] = j]
    BY <1>2, <1>7, <2>1, <2>2 DEF Sound, AutoTypes
  <2>4. n \in Nat /\ n \in 1..HEAD
    BY <2>1, CommitsAreJournal, JournalLen DEF HEAD, Sound, AutoTypes
  <2>5. "after" \in Places
    BY DEF Places
  <2>6. Held(i, j) /\ j.at = "after" /\ j.seen = n
    <3>1. Sees(i, j, "after", n)
      BY <1>3, <2>2, <2>4, <2>5, SeenForm
    <3>2. QED
      BY <3>1 DEF Sees
  <2>7. /\ commits[n].inv # 0
        /\ commits[n].changed \subseteq {ItemOf[i.mut], Log}
        /\ commits[n].tree[ItemOf[i.mut]] = i.rev
        /\ CarriesTerminal(commits[n].tree[Log], i.mut, i.rev)
    BY <1>4, <1>7, <2>1, <2>4, VerifiedIsExact DEF Sound
  <2>8. Exact(j)
    BY <2>4, <2>6, <2>7 DEF Exact, Held
  <2>9. Exact(j)'
    BY <2>8, KnowledgeStays
  <2>10. JobSound(j)'
    BY <1>3, <2>6, <2>9, WalkSound DEF Derived, Before, Bound, Asked
  <2>11. QED
    BY <1>1, <2>3, <2>10, WalkKeeps
<1>8. QED
  BY <1>2, <1>5, <1>6, <1>7 DEF Recover

LEMMA StepKeeps ==
  ASSUME Sound, Grown, NEW p \in Proc, Step(p)
  PROVE  Keeps
BY BeginsSound, LeavesSound, BeforeSound, LocateSound, PrepareSound, ReadLogSound,
   StageAndStartSound, ObserveSound, JudgeSound, VerifyAfterSound, RecoverSound DEF Step

\* The exit status of git reaches the process that waits for it.
LEMMA ExitKeeps ==
  ASSUME Sound, Grown, NEW code \in {0, 1}, Exit(code), tokens' = tokens
  PROVE  Keeps
<1>1. ASSUME NEW q \in Proc PROVE JobSound(proc[q])' /\ proc'[q] \in Jobs \cup {Idle}
  <2>1. PICK i : i = proc[q]
    OBVIOUS
  <2>2. JobSound(i)' /\ i \in Jobs \cup {Idle}
    BY <2>1, JobStays DEF Sound, JobsSound, AutoTypes
  <2>3. CASE i.at # "committing"
    <3>1. proc'[q] = i
      BY <2>1, <2>3 DEF Exit
    <3>2. QED
      BY <2>2, <3>1 DEF JobSound, Derived, Knows, Kept, OwnSet, LogSeen, KeptSince, Exact
  <2>4. CASE i.at = "committing"
    <3>1. i \in Jobs /\ i # Idle
      BY <2>2, <2>4 DEF Idle
    <3>2. PICK j : j = [i EXCEPT !.at = "observe", !.code = code]
      OBVIOUS
    <3>3. proc'[q] = j
      BY <2>1, <2>4, <3>2 DEF Exit
    <3>4. Held(i, j) /\ j.at = "observe"
      <4>1. "observe" \in Places
        BY DEF Places, Asked
      <4>2. QED
        BY <3>1, <3>2, <4>1, CodeForm
    <3>5. JobSound(j)'
      BY <2>2, <2>4, <3>1, <3>4, WalkSound DEF Derived, Before, Bound, Asked
    <3>6. j \in Jobs
      BY <3>4 DEF Held
    <3>7. QED
      BY <3>3, <3>5, <3>6 DEF JobSound, Derived, Knows, Kept, OwnSet, LogSeen, KeptSince, Exact
  <2>5. QED
    BY <2>3, <2>4
<1>2. JobsSound'
  BY <1>1 DEF JobsSound
<1>3. proc' \in [Proc -> Jobs \cup {Idle}]
  BY <1>1 DEF Exit
<1>4. QED
  BY <1>2, <1>3, TokensKept DEF Sound, Keeps

\* The world leaves every job and token as it is.
LEMMA WorldKeeps ==
  ASSUME Sound, Grown, proc' = proc, tokens' = tokens
  PROVE  Keeps
<1>1. ASSUME NEW q \in Proc PROVE JobSound(proc[q])'
  <2>1. PICK i : i = proc[q]
    OBVIOUS
  <2>2. JobSound(i)'
    BY <2>1, JobStays DEF Sound, JobsSound
  <2>3. proc'[q] = i
    BY <2>1
  <2>4. QED
    BY <2>2, <2>3 DEF JobSound, Derived, Knows, Kept, OwnSet, LogSeen, KeptSince, Exact
<1>2. JobsSound'
  BY <1>1 DEF JobsSound
<1>3. proc' \in [Proc -> Jobs \cup {Idle}]
  BY DEF Sound, AutoTypes
<1>4. QED
  BY <1>2, <1>3, TokensKept DEF Sound, Keeps

LEMMA NextKeeps ==
  ASSUME Sound, AutoNext
  PROVE  Keeps /\ Grown
<1>1. Grown
  BY HistoryGrows DEF Sound, Grown
<1>2. CASE \E p \in Proc : Step(p)
  BY <1>1, <1>2, StepKeeps
<1>3. CASE GitCommitEnds
  <2>1. \E code \in {0, 1} : Exit(code) /\ tokens' = tokens
    BY <1>3 DEF GitCommitEnds, GitCommits
  <2>2. QED
    BY <1>1, <2>1, ExitKeeps
<1>4. CASE GitCommitFails
  <2>1. Exit(1) /\ tokens' = tokens /\ 1 \in {0, 1}
    BY <1>4 DEF GitCommitFails
  <2>2. QED
    BY <1>1, <2>1, ExitKeeps
<1>5. CASE Environment
  <2>1. proc' = proc /\ tokens' = tokens
    BY <1>5
       DEF Environment, ForeignEdit, ForeignAdd, ForeignCommit, ClaimCommand, PlainMutation, World
  <2>2. QED
    BY <1>1, <2>1, WorldKeeps
<1>6. QED
  BY <1>1, <1>2, <1>3, <1>4, <1>5 DEF AutoNext

-----------------------------------------------------------------------------
(* The branch, and the commit that is being made: while it holds the index *)
(* lock HEAD does not move, and it changes what it was asked to, no more.  *)

ChildSound ==
  child # None =>
    /\ Log \in child.set /\ child.set \subseteq {ItemOf[child.mut], Log}
    /\ \A f \in Path \ child.set : child.tree[f] = HeadTree[f]

\* What a step does to the branch, to the commit in the making and to the index.
NewCommit(c) ==
  /\ commits' = Append(commits, c) /\ c \in BranchCommits
  /\ c.changed = Changed(c.tree)
  /\ \/ c.inv = 0 /\ c.subject = None
     \/ /\ child # None /\ c.inv = child.inv
        /\ c.tree = child.tree \/ c.tree = [child.tree EXCEPT ![Outside] = Absent]

GitTypes == index' \in WorkTree /\ child' \in Children \cup {None}

LEMMA CommitMade ==
  ASSUME AutoTypes, GitCommitEnds
  PROVE  GitTypes /\ child # None /\ child' = None /\ \E c : NewCommit(c) /\ c.inv = child.inv
<1>1. child # None /\ child \in Children /\ child' = None
  BY DEF GitCommitEnds, GitCommits, AutoTypes
<1>2. /\ child.inv \in Nat \ {0} /\ child.mut \in Mutation /\ child.set \in SUBSET LedgerPath
      /\ child.tree \in WorkTree
  BY <1>1 DEF Children
<1>3. PICK subject \in {Subject(child.mut), None},
           tree \in {child.tree, [child.tree EXCEPT ![Outside] = Absent]}, code \in {0, 1} :
        GitCommits(subject, tree, code)
  BY DEF GitCommitEnds
<1>4. tree \in WorkTree
  <2>1. Absent \in Bytes /\ Outside \in Path
    BY PathTypes DEF Bytes
  <2> HIDE DEF Bytes
  <2>2. QED
    BY <1>2, <1>3, <2>1 DEF WorkTree
<1>5. subject \in Subjects \cup {None}
  BY <1>2, <1>3 DEF Subjects
<1>6. PICK c : c = [inv |-> child.inv, subject |-> subject, changed |-> Changed(tree), tree |-> tree]
  OBVIOUS
<1>7. c \in BranchCommits /\ c.inv = child.inv /\ c.tree = tree /\ c.changed = Changed(c.tree)
  <2>1. Changed(tree) \in SUBSET Path
    BY DEF Changed
  <2>2. QED
    BY <1>2, <1>4, <1>5, <1>6, <2>1 DEF BranchCommits
<1>8. commits' = Append(commits, c)
  BY <1>3, <1>6 DEF GitCommits
<1>9. index' \in WorkTree
  <2>1. index' = [f \in Path |-> IF f \in child.set THEN child.tree[f] ELSE index[f]]
    BY <1>3 DEF GitCommits
  <2> HIDE DEF Bytes
  <2>2. QED
    BY <1>2, <2>1 DEF AutoTypes, WorkTree
<1>10. QED
  BY <1>1, <1>3, <1>7, <1>8, <1>9 DEF NewCommit, GitTypes

LEMMA ForeignCommitMade ==
  ASSUME AutoTypes, ForeignCommit
  PROVE  GitTypes /\ child = None /\ child' = None /\ \E c : NewCommit(c) /\ c.inv = 0
<1>1. PICK c : c = [inv |-> 0, subject |-> None, changed |-> Staged, tree |-> index]
  OBVIOUS
<1>2. Staged = Changed(index) /\ Staged \in SUBSET Path
  BY DEF Staged, Changed
<1>3. c \in BranchCommits /\ c.inv = 0 /\ c.subject = None /\ c.changed = Changed(c.tree)
  BY <1>1, <1>2 DEF BranchCommits, AutoTypes
<1>4. QED
  BY <1>1, <1>3 DEF ForeignCommit, World, NewCommit, GitTypes, AutoTypes

LEMMA CommitStarted ==
  ASSUME Sound, NEW p \in Proc, StartCommit(p), child = None
  PROVE  /\ GitTypes /\ commits' = commits /\ index' = index
         /\ child' \in Children /\ child'.inv = proc[p].inv
         /\ Log \in child'.set /\ child'.set \subseteq {ItemOf[child'.mut], Log}
         /\ \A f \in Path \ child'.set : child'.tree[f] = HeadTree[f]
<1>1. PICK i : i = proc[p]
  OBVIOUS
<1>2. i.at = "commit" /\ i \in Jobs /\ JobSound(i) /\ i # Idle
  BY <1>1, BusyHasJob DEF StartCommit, Sound, JobsSound, Idle
<1>3. OwnSet(i)
  BY <1>2 DEF JobSound, Bound, Knows
<1>4. PICK tree : tree = [f \in Path |-> IF f \in i.set THEN work[f] ELSE HeadTree[f]]
  OBVIOUS
<1>5. tree \in WorkTree
  <2>1. HEAD \in 1..Len(commits)
    BY CommitsAreJournal, JournalLen DEF Sound, AutoTypes, HEAD
  <2>2. commits[HEAD] \in BranchCommits
    BY <2>1 DEF Sound, AutoTypes
  <2>3. HeadTree \in WorkTree
    BY <2>2 DEF HeadTree, BranchCommits
  <2> HIDE DEF Bytes
  <2>4. QED
    BY <1>4, <2>3 DEF Sound, AutoTypes, WorkTree
<1>6. child' = [inv |-> i.inv, mut |-> i.mut, set |-> i.set, tree |-> tree]
  BY <1>1, <1>4 DEF StartCommit
<1>7. i.inv \in Nat \ {0} /\ i.mut \in Mutation /\ i.set \in SUBSET LedgerPath
  BY <1>2 DEF Jobs
<1>8. /\ child' \in Children /\ child'.inv = i.inv /\ child'.mut = i.mut /\ child'.set = i.set
      /\ child'.tree = tree
  BY <1>5, <1>6, <1>7 DEF Children
<1>9. commits' = commits /\ index' = index
  BY DEF StartCommit
<1>10. GitTypes
  BY <1>8, <1>9 DEF GitTypes, Sound, AutoTypes
<1>11. QED
  BY <1>1, <1>3, <1>4, <1>8, <1>9, <1>10 DEF OwnSet

GitStands == commits' = commits /\ child' = child
GitFails == commits' = commits /\ child # None /\ child' = None
GitStarts(p) == child = None /\ StartCommit(p)
GitMoves == child' = None /\ \E c : NewCommit(c)

LEMMA GitEffects ==
  ASSUME Sound, AutoNext
  PROVE  /\ GitTypes
         /\ \/ GitStands \/ GitFails
            \/ \E p \in Proc : GitStarts(p)
            \/ GitMoves
<1>0. index \in WorkTree /\ child \in Children \cup {None} /\ work \in WorkTree
  BY DEF Sound, AutoTypes
<1>1. ASSUME NEW p \in Proc, Step(p)
      PROVE  GitTypes /\ (GitStands \/ GitStarts(p))
  <2>1. CASE StageSet(p)
    <3>1. commits' = commits /\ child' = child
          /\ \/ index' = index
             \/ index' = [f \in Path |-> IF f \in proc[p].set THEN work[f] ELSE index[f]]
      BY <2>1 DEF StageSet
    <3> HIDE DEF Bytes
    <3>2. index' \in WorkTree
      BY <1>0, <3>1 DEF WorkTree
    <3>3. QED
      BY <1>0, <3>1, <3>2 DEF GitTypes, GitStands
  <2>2. CASE StartCommit(p)
    <3>1. CASE child = None
      BY <2>2, <3>1, CommitStarted DEF GitStarts
    <3>2. CASE child # None
      <4>1. commits' = commits /\ child' = child /\ index' = index
        BY <2>2, <3>2 DEF StartCommit
      <4>2. QED
        BY <1>0, <4>1 DEF GitTypes, GitStands
    <3>3. QED
      BY <3>1, <3>2
  <2>3. CASE ~ StageSet(p) /\ ~ StartCommit(p)
    <3>1. CASE \E m \in Mutation : BeginAutoCommit(p, m)
      BY <1>0, <3>1 DEF BeginAutoCommit, git, GitTypes, GitStands
    <3>2. CASE \E t \in tokens : BeginFinalize(p, t)
      BY <1>0, <3>2 DEF BeginFinalize, git, GitTypes, GitStands
    <3>3. CASE Inspect(p) \/ ReadHead(p) \/ VerifyBefore(p) \/ InspectAgain(p) \/ Mutate(p)
      BY <1>0, <3>3 DEF Inspect, ReadHead, VerifyBefore, InspectAgain, Mutate, git, GitTypes, GitStands
    <3>4. CASE MutationNotCommitted(p) \/ Locate(p) \/ Prepare(p) \/ ReadLog(p) \/ CheckCached(p)
      BY <1>0, <3>4
         DEF MutationNotCommitted, Locate, Prepare, ReadLog, CheckCached, git, GitTypes, GitStands
    <3>5. CASE Observe(p) \/ Judge(p) \/ VerifyAfter(p) \/ Recover(p) \/ Return(p) \/ Crash(p)
      BY <1>0, <3>5 DEF Observe, Judge, VerifyAfter, Recover, Return, Crash, git, GitTypes, GitStands
    <3>6. QED
      BY <1>1, <2>3, <3>1, <3>2, <3>3, <3>4, <3>5 DEF Step
  <2>4. QED
    BY <2>1, <2>2, <2>3
<1>2. CASE GitCommitEnds
  BY <1>2, CommitMade DEF Sound, GitMoves
<1>3. CASE GitCommitFails
  BY <1>0, <1>3 DEF GitCommitFails, GitTypes, GitFails
<1>4. ASSUME NEW f \in Path, ForeignEdit(f) \/ ForeignAdd(f)
      PROVE  GitTypes /\ GitStands
  <2>1. commits' = commits /\ child' = child
        /\ (index' = index \/ index' = [index EXCEPT ![f] = work[f]])
    BY <1>4 DEF ForeignEdit, ForeignAdd, World
  <2> HIDE DEF Bytes
  <2>2. index' \in WorkTree
    BY <1>0, <2>1 DEF WorkTree
  <2>3. QED
    BY <1>0, <2>1, <2>2 DEF GitTypes, GitStands
<1>5. CASE ForeignCommit
  BY <1>5, ForeignCommitMade DEF Sound, GitMoves
<1>6. CASE ClaimCommand \/ \E m \in Mutation : PlainMutation(m)
  BY <1>0, <1>6 DEF ClaimCommand, PlainMutation, World, GitTypes, GitStands
<1>7. QED
  BY <1>1, <1>2, <1>3, <1>4, <1>5, <1>6 DEF AutoNext, Environment

\* The other variables.
LEMMA CountTypes ==
  ASSUME AutoTypes, AutoNext
  PROVE  mutex' \in Proc \cup {None} /\ used' \in Nat /\ crashes' \in Nat
<1>0. mutex \in Proc \cup {None} /\ used \in Nat /\ crashes \in Nat
  BY DEF AutoTypes
<1>1. ASSUME NEW p \in Proc, Step(p)
      PROVE  mutex' \in Proc \cup {None} /\ used' \in Nat /\ crashes' \in Nat
  <2>1. CASE \E m \in Mutation : BeginAutoCommit(p, m)
    BY <1>0, <2>1 DEF BeginAutoCommit
  <2>2. CASE \E t \in tokens : BeginFinalize(p, t)
    BY <1>0, <2>2 DEF BeginFinalize
  <2>3. CASE Inspect(p) \/ ReadHead(p) \/ VerifyBefore(p) \/ InspectAgain(p) \/ Mutate(p)
    BY <1>0, <2>3 DEF Inspect, ReadHead, VerifyBefore, InspectAgain, Mutate, AnswerWith
  <2>4. CASE MutationNotCommitted(p) \/ Locate(p) \/ Prepare(p) \/ ReadLog(p) \/ CheckCached(p)
    BY <1>0, <2>4
       DEF MutationNotCommitted, Locate, Prepare, ReadLog, CheckCached, Decline, Fail, AnswerWith
  <2>5. CASE StageSet(p) \/ StartCommit(p)
    BY <1>0, <2>5 DEF StageSet, StartCommit
  <2>6. CASE Observe(p) \/ Judge(p) \/ VerifyAfter(p) \/ Return(p) \/ Crash(p)
    BY <1>0, <2>6 DEF Observe, Judge, VerifyAfter, Return, Crash, Fail, AnswerWith
  <2>7. CASE Recover(p)
    BY <1>0, <2>7 DEF Recover, AnswerWith
  <2>8. QED
    BY <1>1, <2>1, <2>2, <2>3, <2>4, <2>5, <2>6, <2>7 DEF Step
<1>2. CASE GitCommitEnds
  BY <1>0, <1>2 DEF GitCommitEnds, GitCommits
<1>3. CASE GitCommitFails
  BY <1>0, <1>3 DEF GitCommitFails
<1>4. CASE Environment
  BY <1>0, <1>4
     DEF Environment, ForeignEdit, ForeignAdd, ForeignCommit, ClaimCommand, PlainMutation, World
<1>5. QED
  BY <1>1, <1>2, <1>3, <1>4 DEF AutoNext

LEMMA TypesKept ==
  ASSUME Sound, AutoNext
  PROVE  AutoTypes'
<1>1. Keeps /\ Grown /\ GitTypes /\ work' \in WorkTree
  BY NextKeeps, GitEffects, HistoryGrows DEF Sound
<1>2. mutex' \in Proc \cup {None} /\ used' \in Nat /\ crashes' \in Nat
  BY CountTypes DEF Sound
<1>3. tokens' \in SUBSET Tokens
  BY <1>1 DEF Keeps, TokensSound, TokenSound
<1>4. commits' \in Seq(BranchCommits) /\ Len(commits') >= 1
  <2>1. commits' = commits \/ \E c \in BranchCommits : commits' = Append(commits, c)
    BY GitEffects DEF GitStands, GitFails, GitStarts, GitMoves, NewCommit, StartCommit
  <2>2. commits \in Seq(BranchCommits) /\ Len(commits) \in Nat /\ Len(commits) >= 1
    BY CommitsAreJournal, JournalLen DEF Sound, AutoTypes
  <2>3. ASSUME NEW c \in BranchCommits
        PROVE  Append(commits, c) \in Seq(BranchCommits) /\ Len(Append(commits, c)) = Len(commits) + 1
    BY <2>2, AppendProperties
  <2>4. QED
    BY <2>1, <2>2, <2>3
<1>5. QED
  BY <1>1, <1>2, <1>3, <1>4 DEF AutoTypes, Keeps, Grown, Extends, GitTypes

\* The branch after a commit: what it was, and the new one on top.
LEMMA BranchAfter ==
  ASSUME Sound, NEW c, NewCommit(c)
  PROVE  /\ HEAD \in Nat /\ HEAD >= 1 /\ HEAD' = HEAD + 1 /\ commits'[HEAD + 1] = c
         /\ \A k \in 1..HEAD : commits'[k] = commits[k]
BY CommitsAreJournal, JournalAppend, JournalLen DEF NewCommit, HEAD, Sound, AutoTypes

LEMMA SmallSets ==
  ASSUME NEW S, NEW x, NEW y, S \subseteq {x, y}
  PROVE  Cardinality(S \ {y}) <= 1
<1>1. S \ {y} = {} \/ S \ {y} = {x}
  OBVIOUS
<1>2. Cardinality({}) = 0 /\ Cardinality({x}) = 1
  BY FS_EmptySet, FS_Singleton
<1>3. QED
  BY <1>1, <1>2

\* The commit of an invocation has its paths, or the mark of a hook.
LEMMA OwnCommit ==
  ASSUME Sound, ChildSound, NEW c, NewCommit(c), c.inv # 0
  PROVE  \/ c.changed \subseteq LedgerPath /\ Cardinality(c.changed \ {Log}) <= 1
         \/ c.tree[Outside] = Absent
<1>1. /\ child # None /\ child \in Children
      /\ c.tree = child.tree \/ c.tree = [child.tree EXCEPT ![Outside] = Absent]
  BY DEF NewCommit, Sound, AutoTypes
<1>2. child.tree \in WorkTree /\ child.set \in SUBSET LedgerPath
  BY <1>1 DEF Children
<1>3. CASE c.tree = child.tree
  <2>1. c.changed \subseteq child.set
    BY <1>1, <1>3 DEF NewCommit, ChildSound, Changed
  <2>2. c.changed \subseteq {ItemOf[child.mut], Log}
    BY <1>1, <2>1 DEF ChildSound
  <2>3. Cardinality(c.changed \ {Log}) <= 1
    BY <2>2, SmallSets
  <2>4. QED
    BY <1>2, <2>1, <2>3
<1>4. CASE c.tree = [child.tree EXCEPT ![Outside] = Absent]
  <2>1. Outside \in Path
    BY PathTypes
  <2>2. c.tree[Outside] = Absent
    BY <1>2, <1>4, <2>1 DEF WorkTree
  <2>3. QED
    BY <2>2
<1>5. QED
  BY <1>1, <1>3, <1>4

LEMMA BranchKept ==
  ASSUME Sound, ChildSound, OwnPathsOnly, AutoNext
  PROVE  BranchSound' /\ OwnPathsOnly'
<1>1. CASE commits' = commits
  BY <1>1 DEF BranchSound, OwnPathsOnly, HEAD, Sound
<1>2. ASSUME NEW c, NewCommit(c) PROVE BranchSound' /\ OwnPathsOnly'
  <2>1. /\ HEAD \in Nat /\ HEAD >= 1 /\ HEAD' = HEAD + 1 /\ commits'[HEAD + 1] = c
        /\ \A k \in 1..HEAD : commits'[k] = commits[k]
    BY <1>2, BranchAfter
  <2>2. c.subject # None => c.inv # 0
    <3>1. child # None => child.inv # 0
      BY DEF Sound, AutoTypes, Children
    <3>2. QED
      BY <1>2, <3>1 DEF NewCommit
  <2>3. c.changed = {f \in Path : c.tree[f] # commits[HEAD].tree[f]}
    BY <1>2 DEF NewCommit, Changed, HeadTree
  <2>4. ASSUME NEW k \in 1..HEAD'
        PROVE  /\ commits'[k].subject # None => commits'[k].inv # 0
               /\ k > 1 => commits'[k].changed =
                             {f \in Path : commits'[k].tree[f] # commits'[k - 1].tree[f]}
               /\ commits'[k].inv # 0 =>
                    \/ commits'[k].changed \subseteq LedgerPath
                       /\ Cardinality(commits'[k].changed \ {Log}) <= 1
                    \/ commits'[k].tree[Outside] = Absent
    <3>1. CASE k \in 1..HEAD
      <4>1. commits'[k] = commits[k] /\ (k > 1 => commits'[k - 1] = commits[k - 1])
        BY <2>1, <3>1
      <4>2. QED
        BY <3>1, <4>1 DEF Sound, BranchSound, OwnPathsOnly
    <3>2. CASE k = HEAD + 1
      <4>1. commits'[k] = c /\ commits'[k - 1] = commits[HEAD]
        BY <2>1, <3>2
      <4>2. QED
        BY <1>2, <2>2, <2>3, <4>1, OwnCommit
    <3>3. QED
      BY <2>1, <3>1, <3>2
  <2>5. BranchSound'
    BY <2>4 DEF BranchSound
  <2>6. OwnPathsOnly'
    BY <2>4 DEF OwnPathsOnly
  <2>7. QED
    BY <2>5, <2>6
<1>3. commits' = commits \/ \E c : NewCommit(c)
  BY GitEffects DEF GitStands, GitFails, GitStarts, GitMoves, StartCommit
<1>4. QED
  BY <1>1, <1>2, <1>3

LEMMA ChildKept ==
  ASSUME Sound, ChildSound, AutoNext
  PROVE  ChildSound'
<1>1. CASE GitStands
  BY <1>1 DEF GitStands, ChildSound, HeadTree, HEAD
<1>2. CASE child' = None
  BY <1>2 DEF ChildSound
<1>3. ASSUME NEW p \in Proc, GitStarts(p) PROVE ChildSound'
  <2>1. /\ commits' = commits
        /\ Log \in child'.set /\ child'.set \subseteq {ItemOf[child'.mut], Log}
        /\ \A f \in Path \ child'.set : child'.tree[f] = HeadTree[f]
    BY <1>3, CommitStarted DEF GitStarts
  <2>2. HeadTree' = HeadTree
    BY <2>1 DEF HeadTree, HEAD
  <2>3. QED
    BY <2>1, <2>2 DEF ChildSound
<1>4. QED
  BY <1>1, <1>2, <1>3, GitEffects DEF GitFails, GitMoves

-----------------------------------------------------------------------------
(* The invariant of the exchange with Git.                                 *)

GitInv == Sound /\ ChildSound /\ OwnPathsOnly

LEMMA GitInvInit == ASSUME AutoInit PROVE GitInv
<1>1. /\ index \in WorkTree /\ \A f \in Path : index[f] \in Bytes
  <2>1. {Absent, 0, Original} \subseteq Bytes
    BY DEF Bytes
  <2> HIDE DEF Bytes
  <2>2. QED
    BY <2>1 DEF AutoInit, WorkTree
<1>2. work \in WorkTree
  <2>1. Foreign \in Bytes
    BY DEF Bytes
  <2> HIDE DEF Bytes
  <2>2. QED
    BY <1>1, <2>1 DEF AutoInit, WorkTree
<1>3. PICK c : c = [inv |-> 0, subject |-> None, changed |-> {}, tree |-> index]
  OBVIOUS
<1>4. c \in BranchCommits /\ c.inv = 0 /\ c.subject = None
  BY <1>1, <1>3 DEF BranchCommits
<1>5. commits = <<c>>
  BY <1>3 DEF AutoInit
<1>6. commits \in Seq(BranchCommits) /\ Len(commits) = 1 /\ commits[1] = c
  BY <1>4, <1>5
<1>7. IsJournal(journal)
  BY EmptyJournal DEF AutoInit
<1>8. proc \in [Proc -> Jobs \cup {Idle}] /\ tokens \in SUBSET Tokens
  BY DEF AutoInit
<1>9. AutoTypes
  BY <1>1, <1>2, <1>6, <1>7, <1>8 DEF AutoInit, AutoTypes
<1>10. BranchSound /\ OwnPathsOnly
  BY <1>4, <1>6 DEF BranchSound, OwnPathsOnly, HEAD
<1>11. JobsSound
  BY DEF AutoInit, JobsSound, JobSound
<1>12. TokensSound /\ ChildSound
  BY DEF AutoInit, TokensSound, ChildSound
<1>13. QED
  BY <1>9, <1>10, <1>11, <1>12 DEF GitInv, Sound

LEMMA GitInvStep == ASSUME GitInv, [AutoNext]_autoVars PROVE GitInv'
<1>1. CASE AutoNext
  <2>1. Sound /\ ChildSound /\ OwnPathsOnly
    BY DEF GitInv
  <2>2. AutoTypes' /\ BranchSound' /\ OwnPathsOnly' /\ ChildSound' /\ Keeps
    BY <1>1, <2>1, TypesKept, BranchKept, ChildKept, NextKeeps
  <2>3. QED
    BY <2>2 DEF GitInv, Sound, Keeps
<1>2. CASE UNCHANGED autoVars
  <2>1. /\ commits' = commits /\ journal' = journal /\ index' = index /\ work' = work
        /\ mutex' = mutex /\ child' = child /\ proc' = proc /\ tokens' = tokens
        /\ used' = used /\ crashes' = crashes
    BY <1>2 DEF autoVars
  <2>2. AutoTypes'
    BY <2>1 DEF GitInv, Sound, AutoTypes
  <2>3. Grown
    BY <2>1, CommitsAreJournal, ExtendsItself DEF Grown, GitInv, Sound, AutoTypes
  <2>4. Keeps
    BY <2>1, <2>3, WorldKeeps DEF GitInv
  <2>5. BranchSound' /\ OwnPathsOnly' /\ ChildSound'
    BY <2>1 DEF GitInv, Sound, BranchSound, OwnPathsOnly, ChildSound, HEAD, HeadTree
  <2>6. QED
    BY <2>2, <2>4, <2>5 DEF GitInv, Sound, Keeps
<1>3. QED
  BY <1>1, <1>2

LEMMA GitInvHolds == AutoSpec => []GitInv
<1>1. AutoInit => GitInv
  BY GitInvInit
<1>2. GitInv /\ [AutoNext]_autoVars => GitInv'
  BY GitInvStep
<1>3. QED
  BY <1>1, <1>2, PTL DEF AutoSpec

\* An answer that names a commit is true, whatever hooks, foreign commits and orphaned
\* children of git do between the commit and the look at HEAD.
THEOREM AnswersAreExact == AutoSpec => []SuccessIsExact
<1>1. GitInv => SuccessIsExact
  <2>1. SUFFICES ASSUME GitInv, NEW p \in Proc,
                        proc[p].at = "done", proc[p].verdict = "committed"
                 PROVE  LET k == proc[p].seen
                        IN  /\ commits[k].inv # 0
                            /\ commits[k].changed \subseteq {ItemOf[proc[p].mut], Log}
                            /\ commits[k].tree[ItemOf[proc[p].mut]] = proc[p].rev
                            /\ CarriesTerminal(commits[k].tree[Log], proc[p].mut, proc[p].rev)
    BY DEF SuccessIsExact
  <2>2. JobSound(proc[p]) /\ proc[p] # Idle
    BY <2>1 DEF GitInv, Sound, JobsSound, Idle
  <2>3. Exact(proc[p])
    BY <2>1, <2>2 DEF JobSound
  <2>4. QED
    BY <2>3 DEF Exact
<1>2. QED
  BY <1>1, GitInvHolds, PTL

\* A commit takes no path but the invocation's own, unless a hook adds to it: what somebody
\* else stages stays out of it, because git holds the index from the moment it is asked.
THEOREM CommitsTakeTheirOwn == AutoSpec => []OwnPathsOnly
<1>1. GitInv => OwnPathsOnly
  BY DEF GitInv
<1>2. QED
  BY <1>1, GitInvHolds, PTL

-----------------------------------------------------------------------------
(* One invocation at a time, and what it publishes on.                     *)

Busy(p) == proc[p].at \notin {"idle", "done"}
MutexSound == \A p \in Proc : Busy(p) => mutex = p

\* A step changes the job of its own process, and holds the mutex while that is busy.
LEMMA OwnJobOnly ==
  ASSUME AutoTypes, NEW p \in Proc, Step(p)
  PROVE  /\ \A q \in Proc : q # p => proc'[q] = proc[q]
         /\ \/ Busy(p) /\ mutex' = mutex
            \/ ~ Busy(p)' /\ (mutex' = mutex \/ Busy(p))
            \/ mutex = None /\ mutex' = p
<1>0. proc \in [Proc -> Jobs \cup {Idle}]
  BY DEF AutoTypes
<1>1. CASE \E m \in Mutation : BeginAutoCommit(p, m)
  BY <1>0, <1>1 DEF BeginAutoCommit
<1>2. CASE \E t \in tokens : BeginFinalize(p, t)
  BY <1>0, <1>2 DEF BeginFinalize
<1>3. CASE Return(p) \/ Crash(p)
  BY <1>0, <1>3 DEF Return, Crash, Busy, Idle
<1>4. ASSUME NEW v, AnswerWith(p, v), Busy(p)
      PROVE  (\A q \in Proc : q # p => proc'[q] = proc[q]) /\ ~ Busy(p)'
  <2>1. proc' = [proc EXCEPT ![p] = [proc[p] EXCEPT !.at = "done", !.verdict = v]]
    BY <1>4, AnswerIs
  <2>2. proc[p] \in Jobs
    BY <1>4, BusyHasJob DEF Busy
  <2>3. PICK i : i = proc[p]
    OBVIOUS
  <2>4. [i EXCEPT !.at = "done", !.verdict = v].at = "done"
    BY <2>2, <2>3 DEF Jobs
  <2>5. proc'[p].at = "done"
    BY <1>0, <2>1, <2>3, <2>4
  <2>6. QED
    BY <1>0, <2>1, <2>5 DEF Busy
<1>5. ASSUME NEW a, Goto(p, a) PROVE \A q \in Proc : q # p => proc'[q] = proc[q]
  BY <1>0, <1>5 DEF Goto
<1>6. CASE Inspect(p)
  BY <1>4, <1>5, <1>6 DEF Inspect, Busy
<1>7. CASE ReadHead(p)
  BY <1>0, <1>7 DEF ReadHead, Busy
<1>8. CASE VerifyBefore(p)
  BY <1>4, <1>5, <1>8 DEF VerifyBefore, Busy
<1>9. CASE InspectAgain(p)
  BY <1>4, <1>5, <1>9 DEF InspectAgain, Busy
<1>10. CASE Mutate(p)
  BY <1>5, <1>10 DEF Mutate, Busy
<1>11. CASE MutationNotCommitted(p)
  BY <1>4, <1>11 DEF MutationNotCommitted, Busy
<1>12. CASE Locate(p)
  BY <1>0, <1>4, <1>12 DEF Locate, Busy
<1>13. CASE Prepare(p)
  BY <1>4, <1>5, <1>13 DEF Prepare, Decline, Fail, Busy
<1>14. CASE ReadLog(p)
  BY <1>0, <1>4, <1>14 DEF ReadLog, Decline, Fail, Busy
<1>15. CASE StageSet(p) \/ StartCommit(p)
  BY <1>0, <1>5, <1>15 DEF StageSet, StartCommit, Busy
<1>16. CASE CheckCached(p)
  BY <1>4, <1>5, <1>16 DEF CheckCached, Fail, Busy
<1>17. CASE Observe(p)
  BY <1>0, <1>4, <1>17 DEF Observe, Fail, Busy
<1>18. CASE Judge(p)
  BY <1>4, <1>5, <1>18 DEF Judge, Fail, Busy
<1>19. CASE VerifyAfter(p)
  BY <1>4, <1>19 DEF VerifyAfter, Busy
<1>20. CASE Recover(p)
  BY <1>0, <1>4, <1>5, <1>20 DEF Recover, Busy
<1>21. QED
  BY <1>1, <1>2, <1>3, <1>6, <1>7, <1>8, <1>9, <1>10, <1>11, <1>12, <1>13, <1>14, <1>15, <1>16,
     <1>17, <1>18, <1>19, <1>20 DEF Step

\* What git or the world does leaves the jobs where they are, but for one that learns of an exit.
Told(q) ==
  /\ proc[q].at = "committing" /\ proc'[q].at = "observe"
  /\ proc'[q].inv = proc[q].inv /\ proc'[q].head = proc[q].head

LEMMA OtherSteps ==
  ASSUME AutoTypes, GitCommitEnds \/ GitCommitFails \/ Environment
  PROVE  /\ mutex' = mutex
         /\ \A q \in Proc : proc'[q] = proc[q] \/ Told(q)
<1>1. CASE Environment
  BY <1>1
     DEF Environment, ForeignEdit, ForeignAdd, ForeignCommit, ClaimCommand, PlainMutation, World
<1>2. ASSUME NEW code, Exit(code), NEW q \in Proc
      PROVE  proc'[q] = proc[q] \/ Told(q)
  <2>1. CASE proc[q].at # "committing"
    BY <1>2, <2>1 DEF Exit
  <2>2. CASE proc[q].at = "committing"
    <3>1. proc[q] \in Jobs
      BY <2>2, BusyHasJob
    <3>2. PICK i : i = proc[q]
      OBVIOUS
    <3>3. PICK j : j = [i EXCEPT !.at = "observe", !.code = code]
      OBVIOUS
    <3>4. j.at = "observe" /\ j.inv = i.inv /\ j.head = i.head
      BY <3>1, <3>2, <3>3 DEF Jobs
    <3>5. proc'[q] = j
      BY <1>2, <2>2, <3>2, <3>3 DEF Exit
    <3>6. QED
      BY <2>2, <3>2, <3>4, <3>5 DEF Told
  <2>3. QED
    BY <2>1, <2>2
<1>3. CASE GitCommitEnds
  BY <1>2, <1>3 DEF GitCommitEnds, GitCommits
<1>4. CASE GitCommitFails
  BY <1>2, <1>4 DEF GitCommitFails
<1>5. QED
  BY <1>1, <1>3, <1>4

LEMMA MutexKept ==
  ASSUME AutoTypes, MutexSound, AutoNext
  PROVE  MutexSound'
<1>1. ASSUME NEW p \in Proc, Step(p) PROVE MutexSound'
  <2>1. ASSUME NEW q \in Proc, Busy(q)' PROVE mutex' = q
    <3>1. None \notin Proc
      BY AutoCommitAssumption DEF AutoCommitAssumption
    <3>2. CASE q = p
      BY <1>1, <2>1, <3>2, OwnJobOnly DEF MutexSound
    <3>3. CASE q # p
      <4>1. Busy(q) /\ mutex = q
        BY <1>1, <2>1, <3>3, OwnJobOnly DEF Busy, MutexSound
      <4>2. ~ Busy(p)
        BY <3>3, <4>1 DEF MutexSound
      <4>3. QED
        BY <1>1, <3>1, <4>1, <4>2, OwnJobOnly
    <3>4. QED
      BY <3>2, <3>3
  <2>2. QED
    BY <2>1 DEF MutexSound
<1>2. CASE GitCommitEnds \/ GitCommitFails \/ Environment
  BY <1>2, OtherSteps DEF MutexSound, Busy, Told
<1>3. QED
  BY <1>1, <1>2 DEF AutoNext

\* The bytes an item may hold once entry k has published it: those, what superseded them, or
\* what somebody wrote over them.
Later(k) ==
  {Foreign} \cup
  {journal[l].revision : l \in {a \in AuthorizingEntries(journal, journal[k].item) : a >= k}}

Published == {k \in 1..Len(journal) : journal[k].type \in {"legacy", "final"}}

WorkHolds == \A k \in Published : journal[k].item \in Item /\ work[journal[k].item] \in Later(k)

Landed ==
  \A k \in Published : journal[k].inv # 0 =>
    \E n \in 1..HEAD : commits[n].tree[journal[k].item] \in Later(k)

\* Before an auto-commit publishes, all that was published has landed.
RunSound == (\E p \in Proc : proc[p].at = "run") => Landed

LEMMA LaterGrows ==
  ASSUME AutoTypes, Grown, NEW k \in 1..Len(journal), NEW b, b \in Later(k)
  PROVE  b \in Later(k)'
<1>1. /\ Len(journal) \in Nat /\ Len(journal') \in Nat /\ Len(journal) <= Len(journal')
      /\ \A n \in 1..Len(journal) : journal'[n] = journal[n]
  BY DEF Grown, Extends
<1>2. CASE b = Foreign
  BY <1>2 DEF Later
<1>3. ASSUME NEW l \in AuthorizingEntries(journal, journal[k].item), l >= k, b = journal[l].revision
      PROVE  b \in Later(k)'
  <2>1. l \in 1..Len(journal) /\ Authorizes(journal[l], journal[k].item)
    BY <1>3 DEF AuthorizingEntries
  <2>2. l \in 1..Len(journal') /\ journal'[l] = journal[l] /\ journal'[k] = journal[k]
    BY <1>1, <2>1
  <2>3. l \in AuthorizingEntries(journal', journal'[k].item)
    BY <2>1, <2>2 DEF AuthorizingEntries, Authorizes
  <2>4. QED
    BY <1>3, <2>2, <2>3 DEF Later
<1>4. QED
  BY <1>2, <1>3 DEF Later

LEMMA LaterOfItself ==
  ASSUME NEW k \in 1..Len(journal), NEW l \in 1..Len(journal), l >= k,
         journal[l].type \in {"legacy", "final"}, journal[l].committed = TRUE,
         journal[l].item = journal[k].item
  PROVE  journal[l].revision \in Later(k)
BY DEF Later, AuthorizingEntries, Authorizes

\* A step publishes, or it adds no terminal and leaves an item alone or spoilt.
Quiet ==
  /\ \A k \in 1..Len(journal') : k > Len(journal) => journal'[k].type \notin {"legacy", "final"}
  /\ \A f \in Item : work'[f] \in {work[f], Foreign}

LEMMA QuietVerification ==
  ASSUME AutoTypes, journal' = Finalized(journal),
         work' = work \/ work' = Rewritten(work, journal')
  PROVE  Quiet
<1>1. /\ IsJournal(journal')
      /\ \A k \in 1..Len(journal') : k > Len(journal) => journal'[k].type = "finalized"
  BY FinalizedGrows DEF AutoTypes, Extends
<1>2. \A f \in Item : work'[f] = work[f]
  BY <1>1, RewrittenType, PathTypes DEF AutoTypes
<1>3. QED
  BY <1>1, <1>2 DEF Quiet

LEMMA QuietJournal ==
  ASSUME AutoTypes, journal' = journal, \A f \in Item : work'[f] \in {work[f], Foreign}
  PROVE  Quiet
BY JournalLen DEF Quiet, AutoTypes

LEMMA WorldEffects ==
  ASSUME AutoTypes, AutoNext
  PROVE  \/ Quiet
         \/ \E m \in Mutation, v \in Nat :
              Publishes(m, v) /\ commits' = commits
              /\ \/ v = 0 /\ proc' = proc
                 \/ \E p \in Proc : proc[p].at = "run" /\ Mutate(p)
<1>1. ASSUME NEW p \in Proc, Step(p), ~ Mutate(p) PROVE Quiet
  <2>1. CASE VerifyBefore(p) \/ VerifyAfter(p)
    BY <2>1, QuietVerification DEF VerifyBefore, VerifyAfter
  <2>2. CASE ~ VerifyBefore(p) /\ ~ VerifyAfter(p)
    <3>1. journal' = journal
      BY <1>1, <2>2, StepUnmoved DEF Unmoved
    <3>2. work' = work
      BY <1>1, <2>2
         DEF Step, BeginAutoCommit, BeginFinalize, Inspect, ReadHead, InspectAgain,
             MutationNotCommitted, Locate, Prepare, ReadLog, StageSet, CheckCached, StartCommit,
             Observe, Judge, Recover, Return, Crash
    <3>3. QED
      BY <3>1, <3>2, QuietJournal
  <2>3. QED
    BY <2>1, <2>2
<1>2. ASSUME NEW p \in Proc, Mutate(p)
      PROVE  \/ Quiet
             \/ \E m \in Mutation, v \in Nat :
                  Publishes(m, v) /\ commits' = commits /\ proc[p].at = "run"
  <2>1. proc[p].at = "run" /\ commits' = commits
    BY <1>2 DEF Mutate, git
  <2>2. proc[p].mut \in Mutation /\ proc[p].inv \in Nat
    BY <2>1, BusyHasJob DEF Jobs
  <2>3. CASE Replayed(proc[p].mut)
    BY <1>2, <2>3, QuietJournal DEF Mutate
  <2>4. CASE ~ Replayed(proc[p].mut)
    BY <1>2, <2>1, <2>2, <2>4 DEF Mutate
  <2>5. QED
    BY <2>3, <2>4
<1>3. CASE GitCommitEnds
  BY <1>3, QuietJournal DEF GitCommitEnds, GitCommits
<1>4. CASE GitCommitFails
  BY <1>4, QuietJournal DEF GitCommitFails
<1>5. ASSUME NEW f \in Path, ForeignEdit(f) \/ ForeignAdd(f) PROVE Quiet
  <2>1. journal' = journal /\ (work' = work \/ work' = [work EXCEPT ![f] = Foreign])
    BY <1>5 DEF ForeignEdit, ForeignAdd
  <2>2. \A g \in Item : work'[g] \in {work[g], Foreign}
    BY <2>1, PathTypes DEF AutoTypes, WorkTree
  <2>3. QED
    BY <2>1, <2>2, QuietJournal
<1>6. CASE ForeignCommit
  BY <1>6, QuietJournal DEF ForeignCommit
<1>7. CASE ClaimCommand
  <2>1. PICK e : e = [type |-> "claim"]
    OBVIOUS
  <2>2. journal' = Append(journal, e) /\ work' = Rewritten(work, journal')
    BY <1>7, <2>1 DEF ClaimCommand
  <2>3. /\ Len(journal) \in Nat /\ Len(journal') = Len(journal) + 1 /\ IsJournal(journal')
        /\ journal'[Len(journal) + 1] = e
    BY <2>2, JournalLen, JournalAppend DEF AutoTypes
  <2>4. \A f \in Item : work'[f] = work[f]
    BY <2>2, <2>3, RewrittenType, PathTypes DEF AutoTypes
  <2>5. \A k \in 1..Len(journal') : k > Len(journal) => journal'[k].type = "claim"
    BY <2>1, <2>3
  <2>6. QED
    BY <2>4, <2>5 DEF Quiet
<1>8. ASSUME NEW m \in Mutation, PlainMutation(m)
      PROVE  Publishes(m, 0) /\ commits' = commits /\ proc' = proc
  BY <1>8 DEF PlainMutation, World
<1>9. QED
  BY <1>1, <1>2, <1>3, <1>4, <1>5, <1>6, <1>7, <1>8 DEF AutoNext, Environment

LEMMA PublishedKept ==
  ASSUME AutoTypes, Grown, NEW k \in Published
  PROVE  k \in Published' /\ journal'[k] = journal[k] /\ k \in 1..Len(journal)
BY DEF Published, Grown, Extends

LEMMA WorkKept ==
  ASSUME AutoTypes, WorkHolds, AutoNext
  PROVE  WorkHolds'
<1>0. Grown
  BY HistoryGrows DEF Grown
<1>00. Len(journal) \in Nat /\ Len(journal') \in Nat
  BY <1>0 DEF Grown, Extends
<1>1. CASE Quiet
  <2>1. ASSUME NEW k \in Published'
        PROVE  journal'[k].item \in Item /\ work'[journal'[k].item] \in Later(k)'
    <3>1. k \in Published /\ k \in 1..Len(journal) /\ journal'[k] = journal[k]
      <4>1. k \in 1..Len(journal') /\ ~ (k > Len(journal))
        BY <1>1, <2>1 DEF Quiet, Published
      <4>2. k \in 1..Len(journal)
        BY <1>00, <4>1
      <4>3. QED
        BY <1>0, <2>1, <4>2 DEF Published, Grown, Extends
    <3>2. journal[k].item \in Item /\ work[journal[k].item] \in Later(k)
      BY <3>1 DEF WorkHolds
    <3>3. work'[journal'[k].item] \in {work[journal[k].item], Foreign}
      BY <1>1, <3>1, <3>2 DEF Quiet
    <3>4. Foreign \in Later(k)
      BY DEF Later
    <3>5. PICK b : b = work'[journal'[k].item]
      OBVIOUS
    <3>6. b \in Later(k)
      BY <3>2, <3>3, <3>4, <3>5
    <3>7. b \in Later(k)'
      BY <1>0, <3>1, <3>6, LaterGrows
    <3>8. QED
      BY <3>1, <3>2, <3>5, <3>7
  <2>2. QED
    BY <2>1 DEF WorkHolds
<1>2. ASSUME NEW m \in Mutation, NEW v \in Nat, Publishes(m, v) PROVE WorkHolds'
  <2>1. PICK z : z = Len(journal) + 2
    OBVIOUS
  <2>2. /\ Len(journal') = z /\ journal'[z - 1].type \in {"intent", "publish"}
        /\ journal'[z].type \in {"legacy", "final"} /\ journal'[z].item = ItemOf[m]
        /\ journal'[z].committed = TRUE /\ journal'[z].revision = RevisionOf[m]
        /\ work'[ItemOf[m]] = RevisionOf[m]
        /\ \A f \in Path \ {ItemOf[m], Log} : work'[f] = work[f]
    <3>1. z - 1 = Len(journal) + 1
      BY <1>00, <2>1
    <3>2. QED
      BY <1>2, <2>1, <3>1, PublishesGrows
  <2>3. z \in 1..Len(journal') /\ z > Len(journal)
    BY <1>00, <2>1, <2>2
  <2>4. ASSUME NEW k \in Published'
        PROVE  journal'[k].item \in Item /\ work'[journal'[k].item] \in Later(k)'
    <3>1. k \in 1..z /\ k <= z
      BY <1>00, <2>1, <2>2, <2>4 DEF Published
    <3>2. CASE journal'[k].item = ItemOf[m]
      <4>1. journal'[z].revision \in Later(k)'
        BY <2>2, <2>3, <3>1, <3>2 DEF Later, AuthorizingEntries, Authorizes
      <4>2. QED
        BY <2>2, <3>2, <4>1, PathTypes
    <3>3. CASE journal'[k].item # ItemOf[m]
      <4>1. k # z /\ k # z - 1
        BY <2>2, <2>4, <3>3 DEF Published
      <4>2. k \in 1..Len(journal)
        BY <1>00, <2>1, <3>1, <4>1
      <4>3. k \in Published /\ journal'[k] = journal[k]
        BY <1>0, <2>4, <4>2 DEF Published, Grown, Extends
      <4>4. journal[k].item \in Item /\ work[journal[k].item] \in Later(k)
        BY <4>3 DEF WorkHolds
      <4>5. work'[journal[k].item] = work[journal[k].item]
        BY <2>2, <3>3, <4>3, <4>4, PathTypes
      <4>6. PICK b : b = work[journal[k].item]
        OBVIOUS
      <4>7. b \in Later(k)'
        BY <1>0, <4>2, <4>4, <4>6, LaterGrows
      <4>8. QED
        BY <4>3, <4>4, <4>5, <4>6, <4>7
    <3>4. QED
      BY <3>2, <3>3
  <2>5. QED
    BY <2>4 DEF WorkHolds
<1>3. QED
  BY <1>1, <1>2, WorldEffects

\* What has landed stays landed; so do new entries that no auto-commit made.
LEMMA LandedKept ==
  ASSUME AutoTypes, Grown, Landed,
         \A k \in Published' : k > Len(journal) => journal'[k].inv = 0
  PROVE  Landed'
<1>0. Len(journal) \in Nat /\ Len(journal') \in Nat
  BY DEF Grown, Extends
<1>1. ASSUME NEW k \in Published', journal'[k].inv # 0
      PROVE  \E n \in 1..HEAD' : commits'[n].tree[journal'[k].item] \in Later(k)'
  <2>1. k \in 1..Len(journal)
    BY <1>0, <1>1 DEF Published
  <2>2. k \in Published /\ journal'[k] = journal[k]
    BY <1>1, <2>1 DEF Published, Grown, Extends
  <2>3. PICK n \in 1..HEAD : commits[n].tree[journal[k].item] \in Later(k)
    BY <1>1, <2>2 DEF Landed
  <2>4. PICK b : b = commits[n].tree[journal[k].item]
    OBVIOUS
  <2>5. b \in Later(k)'
    BY <2>1, <2>3, <2>4, LaterGrows
  <2>6. n \in 1..HEAD' /\ commits'[n] = commits[n]
    BY DEF Grown, Extends, HEAD
  <2>7. QED
    BY <2>2, <2>4, <2>5, <2>6
<1>2. QED
  BY <1>1 DEF Landed

\* With nothing staged and nothing dirty but the log, HEAD holds what the working tree does.
LEMMA CleanHasLanded ==
  ASSUME AutoTypes, WorkHolds, Staged = {}, DirtyLedger \subseteq {Log}
  PROVE  Landed
<1>1. HEAD \in 1..HEAD
  BY CommitsAreJournal, JournalLen DEF HEAD, AutoTypes
<1>2. ASSUME NEW f \in Item PROVE HeadTree[f] = work[f]
  <2>1. f \in Path /\ f \in LedgerPath /\ f # Log
    BY PathTypes
  <2>2. index[f] = HeadTree[f]
    BY <2>1 DEF Staged
  <2>3. f \notin DirtyLedger
    BY <2>1
  <2>4. work[f] = index[f]
    BY <2>1, <2>3 DEF DirtyLedger
  <2>5. QED
    BY <2>2, <2>4
<1>3. QED
  BY <1>1, <1>2 DEF Landed, WorkHolds, HeadTree

\* Only the second inspection lets an auto-commit publish.
LEMMA RunBegins ==
  ASSUME AutoTypes, NEW p \in Proc, Step(p), proc'[p].at = "run"
  PROVE  InspectAgain(p) /\ Staged = {} /\ DirtyLedger \subseteq {Log}
<1>0. proc \in [Proc -> Jobs \cup {Idle}]
  BY DEF AutoTypes
<1>1. ASSUME proc[p].at # "idle", NEW a, Goto(p, a) PROVE proc'[p].at = a
  <2>1. PICK i : i = proc[p]
    OBVIOUS
  <2>2. i \in Jobs
    BY <1>1, <2>1, BusyHasJob
  <2>3. [i EXCEPT !.at = a].at = a
    BY <2>2 DEF Jobs
  <2>4. proc'[p] = [i EXCEPT !.at = a]
    BY <1>0, <1>1, <2>1 DEF Goto
  <2>5. QED
    BY <2>3, <2>4
<1>2. Busy(p)'
  BY DEF Busy
<1>3. ASSUME NEW v, AnswerWith(p, v), proc[p].at # "idle" PROVE FALSE
  <2>1. PICK i : i = proc[p]
    OBVIOUS
  <2>2. i \in Jobs
    BY <1>3, <2>1, BusyHasJob
  <2>3. [i EXCEPT !.at = "done", !.verdict = v].at = "done"
    BY <2>2 DEF Jobs
  <2>4. proc'[p] = [i EXCEPT !.at = "done", !.verdict = v]
    <3>1. proc' = [proc EXCEPT ![p] = [proc[p] EXCEPT !.at = "done", !.verdict = v]]
      BY <1>3, AnswerIs
    <3>2. QED
      BY <1>0, <2>1, <3>1
  <2>5. QED
    BY <2>3, <2>4
<1>4. CASE (\E m \in Mutation : BeginAutoCommit(p, m)) \/ (\E t \in tokens : BeginFinalize(p, t))
  BY <1>0, <1>4 DEF BeginAutoCommit, BeginFinalize
<1>5. CASE Return(p) \/ Crash(p)
  BY <1>0, <1>5 DEF Return, Crash, Idle
<1>6. CASE Inspect(p) \/ VerifyBefore(p) \/ MutationNotCommitted(p) \/ Mutate(p)
  BY <1>1, <1>3, <1>6 DEF Inspect, VerifyBefore, MutationNotCommitted, Mutate
<1>7. ASSUME NEW a, NEW x, proc[p].at # "idle",
             \/ proc' = [proc EXCEPT ![p].at = a, ![p].head = x]
             \/ proc' = [proc EXCEPT ![p].at = a, ![p].set = x]
             \/ proc' = [proc EXCEPT ![p].at = a, ![p].log = x]
             \/ proc' = [proc EXCEPT ![p].at = a, ![p].code = x]
             \/ proc' = [proc EXCEPT ![p].at = a, ![p].seen = x]
      PROVE  proc'[p].at = a
  <2>1. PICK i : i = proc[p]
    OBVIOUS
  <2>2. i \in Jobs
    BY <1>7, <2>1, BusyHasJob
  <2>3. /\ [i EXCEPT !.at = a, !.head = x].at = a /\ [i EXCEPT !.at = a, !.set = x].at = a
        /\ [i EXCEPT !.at = a, !.log = x].at = a /\ [i EXCEPT !.at = a, !.code = x].at = a
        /\ [i EXCEPT !.at = a, !.seen = x].at = a
    BY <2>2 DEF Jobs
  <2>4. \/ proc'[p] = [i EXCEPT !.at = a, !.head = x]
        \/ proc'[p] = [i EXCEPT !.at = a, !.set = x]
        \/ proc'[p] = [i EXCEPT !.at = a, !.log = x]
        \/ proc'[p] = [i EXCEPT !.at = a, !.code = x]
        \/ proc'[p] = [i EXCEPT !.at = a, !.seen = x]
    BY <1>0, <1>7, <2>1
  <2>5. QED
    BY <2>3, <2>4
<1>8. CASE ReadHead(p) \/ Locate(p)
  BY <1>3, <1>7, <1>8 DEF ReadHead, Locate
<1>9. CASE Prepare(p) \/ ReadLog(p) \/ CheckCached(p)
  BY <1>1, <1>3, <1>7, <1>9 DEF Prepare, ReadLog, CheckCached, Decline, Fail
<1>10. CASE StageSet(p) \/ StartCommit(p)
  BY <1>1, <1>7, <1>10 DEF StageSet, StartCommit
<1>11. CASE Observe(p) \/ Judge(p) \/ VerifyAfter(p)
  BY <1>1, <1>3, <1>7, <1>11 DEF Observe, Judge, VerifyAfter, Fail
<1>12. CASE Recover(p)
  BY <1>1, <1>3, <1>7, <1>12 DEF Recover
<1>13. CASE InspectAgain(p)
  BY <1>3, <1>13 DEF InspectAgain
<1>14. QED
  BY <1>4, <1>5, <1>6, <1>8, <1>9, <1>10, <1>11, <1>12, <1>13 DEF Step

LEMMA RunKept ==
  ASSUME AutoTypes, MutexSound, WorkHolds, RunSound, AutoNext
  PROVE  RunSound'
<1>0. Grown
  BY HistoryGrows DEF Grown
<1>1. SUFFICES ASSUME NEW p \in Proc, proc'[p].at = "run" PROVE Landed'
  BY DEF RunSound
<1>2. CASE proc'[p] = proc[p]
  <2>1. Landed /\ proc[p].at = "run"
    BY <1>1, <1>2 DEF RunSound
  <2>2. ASSUME NEW q \in Proc, proc[q].at = "run", Mutate(q) PROVE FALSE
    <3>1. q = p
      BY <2>1, <2>2 DEF MutexSound, Busy
    <3>2. PICK i : i = proc[p]
      OBVIOUS
    <3>3. i \in Jobs
      BY <2>1, <3>2, BusyHasJob
    <3>4. [i EXCEPT !.at = "locate"].at = "locate"
      BY <3>3 DEF Jobs
    <3>5. proc'[p] = [i EXCEPT !.at = "locate"]
      BY <2>2, <3>1, <3>2 DEF Mutate, Goto, AutoTypes
    <3>6. QED
      BY <1>1, <3>4, <3>5
  <2>3. \A k \in Published' : k > Len(journal) => journal'[k].inv = 0
    <3>1. CASE Quiet
      BY <3>1 DEF Quiet, Published
    <3>2. ASSUME NEW m \in Mutation, Publishes(m, 0)
          PROVE  \A k \in Published' : k > Len(journal) => journal'[k].inv = 0
      <4>1. PICK z : z = Len(journal) + 2
        OBVIOUS
      <4>2. /\ Len(journal) \in Nat /\ Len(journal') = z
            /\ journal'[z - 1].type \in {"intent", "publish"} /\ journal'[z].inv = 0
        <5>1. Len(journal) \in Nat
          BY JournalLen DEF AutoTypes
        <5>2. z - 1 = Len(journal) + 1
          BY <4>1, <5>1
        <5>3. QED
          BY <3>2, <4>1, <5>1, <5>2, PublishesGrows
      <4>3. ASSUME NEW k \in Published', k > Len(journal) PROVE journal'[k].inv = 0
        <5>1. k = z \/ k = z - 1
          BY <4>1, <4>2, <4>3 DEF Published
        <5>2. k # z - 1
          BY <4>2, <4>3 DEF Published
        <5>3. QED
          BY <4>2, <5>1, <5>2
      <4>4. QED
        BY <4>3
    <3>3. QED
      BY <2>2, <3>1, <3>2, WorldEffects
  <2>4. QED
    BY <1>0, <2>1, <2>3, LandedKept
<1>3. CASE proc'[p] # proc[p]
  <2>1. PICK q \in Proc : Step(q)
    BY <1>1, <1>3, OtherSteps DEF AutoNext, Told
  <2>2. q = p
    BY <1>3, <2>1, OwnJobOnly
  <2>3. InspectAgain(p) /\ Landed
    BY <1>1, <2>1, <2>2, RunBegins, CleanHasLanded
  <2>4. journal' = journal
    BY <2>3 DEF InspectAgain
  <2>5. \A k \in Published' : ~ k > Len(journal)
    BY <2>4, JournalLen DEF Published, AutoTypes
  <2>6. QED
    BY <1>0, <2>3, <2>5, LandedKept
<1>4. QED
  BY <1>2, <1>3

StackInv == GitInv /\ MutexSound /\ WorkHolds /\ RunSound

LEMMA StackInvInit == ASSUME AutoInit PROVE StackInv
<1>1. GitInv
  BY GitInvInit
<1>2. MutexSound /\ RunSound
  BY DEF AutoInit, MutexSound, Busy, RunSound, Idle
<1>3. WorkHolds
  BY EmptyJournal DEF AutoInit, WorkHolds, Published
<1>4. QED
  BY <1>1, <1>2, <1>3 DEF StackInv

LEMMA StackInvStep == ASSUME StackInv, [AutoNext]_autoVars PROVE StackInv'
<1>1. GitInv'
  BY GitInvStep DEF StackInv
<1>2. CASE AutoNext
  <2>1. MutexSound' /\ WorkHolds' /\ RunSound'
    BY <1>2, MutexKept, WorkKept, RunKept DEF StackInv, GitInv, Sound
  <2>2. QED
    BY <1>1, <2>1 DEF StackInv
<1>3. CASE UNCHANGED autoVars
  <2>1. /\ commits' = commits /\ journal' = journal /\ work' = work
        /\ mutex' = mutex /\ proc' = proc
    BY <1>3 DEF autoVars
  <2>2. MutexSound'
    BY <2>1 DEF StackInv, MutexSound, Busy
  <2>3. WorkHolds'
    BY <2>1 DEF StackInv, WorkHolds, Published, Later
  <2>4. RunSound'
    BY <2>1 DEF StackInv, RunSound, Landed, Published, Later, HEAD
  <2>5. QED
    BY <1>1, <2>2, <2>3, <2>4 DEF StackInv
<1>4. QED
  BY <1>2, <1>3

LEMMA StackInvHolds == AutoSpec => []StackInv
<1>1. AutoInit => StackInv
  BY StackInvInit
<1>2. StackInv /\ [AutoNext]_autoVars => StackInv'
  BY StackInvStep
<1>3. QED
  BY <1>1, <1>2, PTL DEF AutoSpec

\* Uncommitted mutations do not pile up unnoticed: between the inspection that found the
\* tree clean and the publication, no other auto-commit can publish, because one mutex keeps
\* them apart; people who edit, stage, commit or mutate without the flag may.
THEOREM MutationsDoNotStack == AutoSpec => NothingStacks
<1> DEFINE Stacked ==
      \A p \in Proc : proc[p].at = "run" /\ proc'[p].at = "locate" =>
        \A k \in 1..Len(journal) :
          journal[k].type \in {"legacy", "final"} /\ journal[k].inv # 0 =>
            \E n \in 1..HEAD :
              commits[n].tree[journal[k].item] \in {Foreign} \cup
                {journal[l].revision :
                   l \in {a \in AuthorizingEntries(journal, journal[k].item) : a >= k}}
<1>1. StackInv => Stacked
  BY DEF StackInv, RunSound, Landed, Published, Later
<1>2. StackInv /\ [AutoNext]_autoVars => [Stacked]_autoVars
  BY <1>1
<1>3. QED
  BY <1>2, StackInvHolds, PTL DEF AutoSpec, NothingStacks

-----------------------------------------------------------------------------
(* One invocation, one commit: what a step does to the job, in the respects *)
(* that count.                                                             *)

Stays(p, j) ==
  /\ proc' = [proc EXCEPT ![p] = j]
  /\ j \in Jobs /\ j.inv = proc[p].inv /\ j.head = proc[p].head

LEMMA GotoStays ==
  ASSUME AutoTypes, NEW p \in Proc, proc[p].at # "idle", NEW a \in Places, Goto(p, a)
  PROVE  \E j : Stays(p, j) /\ j.at = a
<1>1. PICK i : i = proc[p]
  OBVIOUS
<1>2. PICK j : j = [i EXCEPT !.at = a]
  OBVIOUS
<1>3. Held(i, j) /\ j.at = a
  BY <1>1, <1>2, BusyHasJob, WalkForm
<1>4. proc' = [proc EXCEPT ![p] = j]
  BY <1>1, <1>2, GotoIs
<1>5. QED
  BY <1>1, <1>3, <1>4 DEF Stays, Held

LEMMA AnswerStays ==
  ASSUME AutoTypes, NEW p \in Proc, proc[p].at # "idle", NEW v \in AutoVerdicts, AnswerWith(p, v)
  PROVE  \E j : Stays(p, j) /\ j.at = "done"
<1>1. PICK i : i = proc[p]
  OBVIOUS
<1>2. PICK j : j = [i EXCEPT !.at = "done", !.verdict = v]
  OBVIOUS
<1>3. i \in Jobs
  BY <1>1, BusyHasJob
<1>4. Held(i, j) /\ j.at = "done" /\ j.verdict = v
  BY <1>2, <1>3, AnswerForm
<1>5. proc' = [proc EXCEPT ![p] = j]
  BY <1>1, <1>2, AnswerIs
<1>6. QED
  BY <1>1, <1>4, <1>5 DEF Stays, Held

LEMMA SeenStays ==
  ASSUME AutoTypes, NEW p \in Proc, proc[p].at # "idle", NEW a \in Places,
         proc' = [proc EXCEPT ![p].at = a, ![p].seen = HEAD]
  PROVE  \E j : Stays(p, j) /\ j.at = a
<1>1. PICK i : i = proc[p]
  OBVIOUS
<1>2. PICK n : n = HEAD
  OBVIOUS
<1>3. PICK j : j = [i EXCEPT !.at = a, !.seen = n]
  OBVIOUS
<1>4. n \in Nat
  BY <1>2, CommitsAreJournal, JournalLen DEF HEAD
<1>5. i \in Jobs
  BY <1>1, BusyHasJob
<1>6. Sees(i, j, a, n)
  BY <1>3, <1>4, <1>5, SeenForm
<1>7. proc' = [proc EXCEPT ![p] = j]
  BY <1>1, <1>2, <1>3 DEF AutoTypes
<1>8. QED
  BY <1>1, <1>6, <1>7 DEF Stays, Sees, Held

\* Leaving, beginning, and going on.
Quits(p) ==
  /\ proc' = [proc EXCEPT ![p] = Idle]
  /\ tokens' = tokens /\ used' = used /\ child' = child /\ commits' = commits
  /\ \/ proc[p].at = "done" /\ crashes' = crashes
     \/ crashes' = crashes + 1

Begins(p) ==
  /\ mutex = None /\ tokens' = tokens /\ child' = child /\ commits' = commits
  /\ crashes' = crashes
  /\ \E j \in Jobs :
       /\ proc' = [proc EXCEPT ![p] = j]
       /\ \/ used' = used + 1 /\ j.inv = used' /\ j.at = "inspect" /\ j.head = 0
          \/ used' = used /\ j.at = "recover"
             /\ \E t \in tokens : j.inv = t.inv /\ j.head = t.head

\* A recovery joins the way to the commit where the invocation's HEAD still stands.
Rejoins(i) == i.at = "recover" /\ HEAD = i.head

Walks(p) ==
  LET i == proc[p]
  IN  /\ i \in Jobs /\ Busy(p) /\ i.at # "committing"
      /\ used' = used /\ crashes' = crashes /\ commits' = commits
      /\ \A t \in tokens' \ tokens : t.inv = i.inv /\ t.head = i.head
      /\ \E j \in Jobs :
           /\ proc' = [proc EXCEPT ![p] = j]
           /\ j.inv = i.inv /\ (j.head = i.head \/ (i.at \in Before /\ j.head = HEAD))
           /\ j.at \in Before => i.at \in Before
           /\ j.at \in Bound => (i.at \in Before \cup Bound) \/ Rejoins(i)
           /\ \/ child' = child
              \/ /\ child = None /\ child'.inv = i.inv
                 /\ i.at \in Bound /\ j.at = "committing"

LEMMA WalksOn ==
  ASSUME NEW p \in Proc, AutoTypes, Busy(p), proc[p].at # "committing",
         used' = used, crashes' = crashes, commits' = commits, child' = child,
         \A t \in tokens' \ tokens : t.inv = proc[p].inv /\ t.head = proc[p].head,
         NEW j, Stays(p, j),
         j.at \in Before => proc[p].at \in Before,
         j.at \in Bound => (proc[p].at \in Before \cup Bound) \/ Rejoins(proc[p])
  PROVE  Walks(p)
BY BusyHasJob DEF Walks, Stays, Busy

LEMMA AnswerWalks ==
  ASSUME NEW p \in Proc, AutoTypes, Busy(p), proc[p].at # "committing",
         used' = used, crashes' = crashes, commits' = commits, child' = child,
         NEW v \in AutoVerdicts, AnswerWith(p, v), tokens' = tokens
  PROVE  Walks(p)
<1>1. PICK j : Stays(p, j) /\ j.at = "done"
  BY AnswerStays DEF Busy
<1>2. QED
  BY <1>1, WalksOn DEF Before, Bound

LEMMA FailWalks ==
  ASSUME NEW p \in Proc, AutoTypes, Busy(p), proc[p].at # "committing",
         used' = used, crashes' = crashes, commits' = commits, child' = child,
         NEW v \in AutoVerdicts, Fail(p, v)
  PROVE  Walks(p)
<1>1. PICK j : Stays(p, j) /\ j.at = "done"
  BY AnswerStays DEF Busy, Fail
<1>2. PICK i : i = proc[p]
  OBVIOUS
<1>3. PICK t : t = [k \in {"inv", "mut", "head", "rev", "set", "log"} |-> i[k]]
  OBVIOUS
<1>4. t.inv = i.inv /\ t.head = i.head
  BY <1>2, <1>3, BusyHasJob, TokenForm DEF Busy
<1>5. tokens' \subseteq tokens \cup {t}
  BY <1>2, <1>3 DEF Fail
<1>6. \A u \in tokens' \ tokens : u.inv = proc[p].inv /\ u.head = proc[p].head
  BY <1>2, <1>4, <1>5
<1>7. QED
  BY <1>1, <1>6, WalksOn DEF Before, Bound

LEMMA DeclineWalks ==
  ASSUME NEW p \in Proc, AutoTypes, Busy(p), proc[p].at # "committing",
         used' = used, crashes' = crashes, commits' = commits, child' = child, Decline(p)
  PROVE  Walks(p)
BY VerdictNames, AnswerWalks, FailWalks DEF Decline

LEMMA GotoWalks ==
  ASSUME NEW p \in Proc, AutoTypes, Busy(p), proc[p].at # "committing",
         used' = used, crashes' = crashes, commits' = commits, child' = child,
         NEW a \in Places, Goto(p, a), tokens' = tokens,
         a \in Before => proc[p].at \in Before,
         a \in Bound => (proc[p].at \in Before \cup Bound) \/ Rejoins(proc[p])
  PROVE  Walks(p)
<1>1. PICK j : Stays(p, j) /\ j.at = a
  BY GotoStays DEF Busy
<1>2. QED
  BY <1>1, WalksOn

\* What every step of an invocation leaves alone, but the start of its commit.
Still == used' = used /\ crashes' = crashes /\ commits' = commits /\ child' = child

LEMMA ReadHeadWalks == ASSUME AutoTypes, NEW p \in Proc, ReadHead(p) PROVE Walks(p)
<1>1. PICK i : i = proc[p]
  OBVIOUS
<1>2. i.at = "head" /\ i \in Jobs /\ Busy(p) /\ i.at \in Before
  BY <1>1, BusyHasJob DEF ReadHead, Busy, Before
<1>3. PICK n : n = HEAD
  OBVIOUS
<1>4. n \in Nat
  BY <1>3, CommitsAreJournal, JournalLen DEF HEAD
<1>5. PICK j : j = [i EXCEPT !.at = "verify", !.head = n]
  OBVIOUS
<1>6. HeadRead(i, j, n)
  BY <1>2, <1>4, <1>5, HeadForm
<1>7. proc' = [proc EXCEPT ![p] = j]
  BY <1>1, <1>3, <1>5 DEF ReadHead, AutoTypes
<1>8. /\ j \in Jobs /\ j.inv = i.inv /\ i.at \in Before /\ j.head = HEAD
      /\ j.at \in Before => i.at \in Before
      /\ j.at \notin Bound
  BY <1>2, <1>3, <1>6 DEF HeadRead, Bound
<1>9. Still /\ tokens' = tokens
  BY DEF ReadHead, Still, git
<1>10. QED
  BY <1>1, <1>2, <1>7, <1>8, <1>9 DEF Walks, Still

\* A job that keeps its invocation and its start, from the preparation on.
LEMMA JobWalks ==
  ASSUME AutoTypes, NEW p \in Proc, Busy(p), proc[p].at # "committing", Still, tokens' = tokens,
         NEW j, Stays(p, j), j.at \notin Before,
         j.at \in Bound => proc[p].at \in Before \cup Bound
  PROVE  Walks(p)
BY WalksOn DEF Still

LEMMA LocateWalks == ASSUME AutoTypes, NEW p \in Proc, Locate(p) PROVE Walks(p)
<1>1. /\ proc[p].at = "locate" /\ Busy(p) /\ proc[p].at \in Before \cup Bound
      /\ Still /\ tokens' = tokens
  BY DEF Locate, Busy, Before, Still, git
<1>2. CASE AnswerWith(p, "failed")
  BY <1>1, <1>2, VerdictNames, AnswerWalks DEF Still
<1>3. CASE ~ AnswerWith(p, "failed")
  <2>1. PICK i : i = proc[p]
    OBVIOUS
  <2>2. i \in Jobs /\ i.mut \in Mutation
    BY <1>1, <2>1, BusyHasJob DEF Jobs, Busy
  <2>3. PICK s : s = CommitSet(i.mut, i.rev)
    OBVIOUS
  <2>4. s \in SUBSET LedgerPath
    BY <2>2, <2>3, PathTypes DEF CommitSet
  <2>5. PICK j : j = [i EXCEPT !.at = "prepare", !.set = s]
    OBVIOUS
  <2>6. SetDerived(i, j, s)
    BY <2>2, <2>4, <2>5, SetForm
  <2>7. proc' = [proc EXCEPT ![p] = j]
    BY <1>3, <2>1, <2>3, <2>5 DEF Locate, AutoTypes
  <2>8. Stays(p, j) /\ j.at \notin Before
    BY <2>1, <2>6, <2>7 DEF Stays, SetDerived, Before
  <2>9. QED
    BY <1>1, <2>8, JobWalks
<1>4. QED
  BY <1>2, <1>3

LEMMA ReadLogWalks == ASSUME AutoTypes, NEW p \in Proc, ReadLog(p) PROVE Walks(p)
<1>1. /\ proc[p].at = "log" /\ Busy(p) /\ proc[p].at \in Before \cup Bound /\ Still
  BY DEF ReadLog, Busy, Bound, Still, git
<1>2. CASE Decline(p)
  BY <1>1, <1>2, DeclineWalks DEF Still
<1>3. CASE ~ Decline(p)
  <2>1. PICK i : i = proc[p]
    OBVIOUS
  <2>2. i \in Jobs
    BY <1>1, <2>1, BusyHasJob
  <2>3. PICK l : l = work[Log]
    OBVIOUS
  <2>4. PICK j : j = [i EXCEPT !.at = "stage", !.log = l]
    OBVIOUS
  <2>5. proc' = [proc EXCEPT ![p] = j] /\ tokens' = tokens
    BY <1>3, <2>1, <2>3, <2>4 DEF ReadLog, AutoTypes
  <2>6. l \in Bytes
    BY <2>3, PathTypes DEF AutoTypes, WorkTree
  <2>7. LogRead(i, j, l)
    BY <2>2, <2>4, <2>6, LogForm
  <2>8. Stays(p, j) /\ j.at \notin Before
    BY <2>1, <2>5, <2>7 DEF Stays, LogRead, Before
  <2>9. QED
    BY <1>1, <2>5, <2>8, JobWalks
<1>4. QED
  BY <1>2, <1>3

\* The commit that starts is the invocation's; with the index locked there is none.
LEMMA StartWalks == ASSUME Sound, NEW p \in Proc, StartCommit(p) PROVE Walks(p)
<1>1. /\ proc[p].at = "commit" /\ Busy(p) /\ proc[p].at \in Bound /\ tokens' = tokens
      /\ used' = used /\ crashes' = crashes /\ commits' = commits
  BY DEF StartCommit, Busy, Bound
<1>2. PICK i : i = proc[p]
  OBVIOUS
<1>3. i \in Jobs
  BY <1>1, <1>2, BusyHasJob DEF Sound
<1>4. CASE child = None
  <2>1. Goto(p, "committing")
    BY <1>4 DEF StartCommit
  <2>2. "committing" \in Places
    BY DEF Places, Asked
  <2>3. PICK j : Stays(p, j) /\ j.at = "committing"
    BY <1>1, <2>1, <2>2, GotoStays DEF Sound
  <2>4. child'.inv = i.inv
    BY <1>2, <1>4, CommitStarted
  <2>5. j.at \notin Before /\ j.at \notin Bound
    BY <2>3 DEF Before, Bound
  <2>6. QED
    BY <1>1, <1>2, <1>3, <1>4, <2>3, <2>4, <2>5 DEF Walks, Stays
<1>5. CASE child # None
  <2>1. PICK j : j = [i EXCEPT !.at = "observe", !.code = 1]
    OBVIOUS
  <2>2. proc' = [proc EXCEPT ![p] = j] /\ Still
    BY <1>1, <1>2, <1>5, <2>1 DEF StartCommit, Sound, AutoTypes, Still
  <2>3. Held(i, j) /\ j.at = "observe" /\ j.code = 1
    <3>1. "observe" \in Places /\ 1 \in {0, 1}
      BY DEF Places, Asked
    <3>2. QED
      BY <1>3, <2>1, <3>1, CodeForm
  <2>4. Stays(p, j) /\ j.at \notin Before /\ j.at \notin Bound
    BY <1>2, <2>2, <2>3 DEF Stays, Held, Before, Bound
  <2>5. QED
    BY <1>1, <2>2, <2>4, JobWalks DEF Sound
<1>6. QED
  BY <1>4, <1>5

\* Every step of a process is one of these.
LEMMA StepForms == ASSUME Sound, NEW p \in Proc, Step(p) PROVE Quits(p) \/ Begins(p) \/ Walks(p)
<1>0. AutoTypes /\ proc \in [Proc -> Jobs \cup {Idle}]
  BY DEF Sound, AutoTypes
<1>1. CASE \E m \in Mutation : BeginAutoCommit(p, m)
  <2>1. PICK m \in Mutation : BeginAutoCommit(p, m)
    BY <1>1
  <2>2. PICK v : v = used'
    OBVIOUS
  <2>3. PICK j : j = [at |-> "inspect", mode |-> "auto", inv |-> v, mut |-> m, head |-> 0,
                      rev |-> RevisionOf[m], set |-> {}, log |-> None, code |-> 0, seen |-> 0,
                      verdict |-> None]
    OBVIOUS
  <2>4. v = used + 1 /\ v \in Nat \ {0}
    BY <1>0, <2>1, <2>2 DEF BeginAutoCommit, AutoTypes
  <2>5. RevisionOf[m] \in Bytes /\ "inspect" \in Places
    BY DEF Bytes, Places, Before
  <2>6. j \in Jobs /\ j.inv = v /\ j.at = "inspect" /\ j.head = 0
    <3>1. None \in AutoVerdicts /\ None \in Bytes \cup {None} /\ {} \in SUBSET LedgerPath
      BY DEF AutoVerdicts
    <3> HIDE DEF Bytes, Places, AutoVerdicts, LedgerPath
    <3>2. QED
      BY <2>3, <2>4, <2>5, <3>1 DEF Jobs
  <2>7. proc' = [proc EXCEPT ![p] = j]
    BY <2>1, <2>2, <2>3 DEF BeginAutoCommit
  <2>8. /\ mutex = None /\ tokens' = tokens /\ child' = child /\ commits' = commits
        /\ crashes' = crashes /\ used' = used + 1
    BY <2>1 DEF BeginAutoCommit, git
  <2>9. QED
    BY <2>2, <2>6, <2>7, <2>8 DEF Begins
<1>2. CASE \E t \in tokens : BeginFinalize(p, t)
  <2>1. PICK t \in tokens : BeginFinalize(p, t)
    BY <1>2
  <2>2. PICK j : j = [at |-> "recover", mode |-> "finalize", inv |-> t.inv, mut |-> t.mut,
                      head |-> t.head, rev |-> t.rev, set |-> t.set, log |-> t.log,
                      code |-> 0, seen |-> 0, verdict |-> None]
    OBVIOUS
  <2>3. j \in Jobs /\ j.inv = t.inv /\ j.at = "recover" /\ j.head = t.head
    <3>1. t \in Tokens /\ None \in AutoVerdicts /\ "recover" \in Places
      BY <1>0, <2>1 DEF AutoTypes, AutoVerdicts, Places
    <3> HIDE DEF Bytes, Places, AutoVerdicts, LedgerPath
    <3>2. QED
      BY <2>2, <3>1 DEF Jobs, Tokens
  <2>4. proc' = [proc EXCEPT ![p] = j]
    BY <2>1, <2>2 DEF BeginFinalize
  <2>5. /\ mutex = None /\ tokens' = tokens /\ child' = child /\ commits' = commits
        /\ crashes' = crashes /\ used' = used
    BY <2>1 DEF BeginFinalize, git
  <2>6. QED
    BY <2>1, <2>3, <2>4, <2>5 DEF Begins
<1>3. CASE Return(p) \/ Crash(p)
  BY <1>3 DEF Return, Crash, Quits
<1>4. CASE Inspect(p)
  <2>1. /\ proc[p].at = "inspect" /\ Busy(p) /\ Still /\ tokens' = tokens
        /\ (Goto(p, "head") \/ AnswerWith(p, "refused"))
    BY <1>4 DEF Inspect, Busy, Still, git
  <2>2. QED
    BY <1>0, <2>1, VerdictNames, AnswerWalks, GotoWalks DEF Still, Places, Before, Bound
<1>5. CASE VerifyBefore(p)
  <2>1. /\ proc[p].at = "verify" /\ Busy(p) /\ Still /\ tokens' = tokens
        /\ (Goto(p, "again") \/ AnswerWith(p, "refused"))
    BY <1>5 DEF VerifyBefore, Busy, Still, git
  <2>2. QED
    BY <1>0, <2>1, VerdictNames, AnswerWalks, GotoWalks DEF Still, Places, Before, Bound
<1>6. CASE InspectAgain(p)
  <2>1. /\ proc[p].at = "again" /\ Busy(p) /\ Still /\ tokens' = tokens
        /\ (Goto(p, "run") \/ AnswerWith(p, "refused"))
    BY <1>6 DEF InspectAgain, Busy, Still, git
  <2>2. QED
    BY <1>0, <2>1, VerdictNames, AnswerWalks, GotoWalks DEF Still, Places, Before, Bound
<1>7. CASE Mutate(p)
  <2>1. proc[p].at = "run" /\ Busy(p) /\ Still /\ tokens' = tokens /\ Goto(p, "locate")
    BY <1>7 DEF Mutate, Busy, Still, git
  <2>2. QED
    BY <1>0, <2>1, GotoWalks DEF Still, Places, Before, Bound
<1>8. CASE MutationNotCommitted(p)
  <2>1. proc[p].at = "run" /\ Busy(p) /\ Still /\ tokens' = tokens /\ AnswerWith(p, "refused")
    BY <1>8 DEF MutationNotCommitted, Busy, Still, git
  <2>2. QED
    BY <1>0, <2>1, VerdictNames, AnswerWalks DEF Still
<1>9. CASE Prepare(p)
  <2>1. /\ proc[p].at = "prepare" /\ Busy(p) /\ Still
        /\ (Decline(p) \/ (Goto(p, "log") /\ tokens' = tokens))
    BY <1>9 DEF Prepare, Busy, Still, git
  <2>2. QED
    BY <1>0, <2>1, DeclineWalks, GotoWalks DEF Still, Places, Before, Bound
<1>10. CASE StageSet(p)
  <2>1. proc[p].at = "stage" /\ Busy(p) /\ Still /\ tokens' = tokens /\ Goto(p, "cached")
    BY <1>10 DEF StageSet, Busy, Still
  <2>2. QED
    BY <1>0, <2>1, GotoWalks DEF Still, Places, Before, Bound
<1>11. CASE CheckCached(p)
  <2>1. /\ proc[p].at = "cached" /\ Busy(p) /\ Still
        /\ (Fail(p, "failed") \/ (Goto(p, "commit") /\ tokens' = tokens))
    BY <1>11 DEF CheckCached, Busy, Still, git
  <2>2. QED
    BY <1>0, <2>1, VerdictNames, FailWalks, GotoWalks DEF Still, Places, Before, Bound
<1>12. CASE Observe(p)
  <2>1. proc[p].at = "observe" /\ Busy(p) /\ Still
    BY <1>12 DEF Observe, Busy, Still, git
  <2>2. CASE HEAD = proc[p].head
    <3>1. PICK v \in {"unknown", "failed"} : Fail(p, v)
      BY <1>12, <2>2 DEF Observe
    <3>2. QED
      BY <1>0, <2>1, <3>1, VerdictNames, FailWalks DEF Still
  <2>3. CASE HEAD # proc[p].head
    <3>1. proc' = [proc EXCEPT ![p].at = "judge", ![p].seen = HEAD] /\ tokens' = tokens
      BY <1>12, <2>3 DEF Observe
    <3>2. "judge" \in Places /\ "judge" \notin Before /\ "judge" \notin Bound
      BY DEF Places, Asked, Before, Bound
    <3>3. QED
      BY <1>0, <2>1, <3>1, <3>2, SeenStays, JobWalks
  <2>4. QED
    BY <2>2, <2>3
<1>13. CASE Judge(p)
  <2>1. /\ proc[p].at = "judge" /\ Busy(p) /\ Still
        /\ (Fail(p, "unknown") \/ (Goto(p, "after") /\ tokens' = tokens))
    BY <1>13 DEF Judge, Busy, Still, git
  <2>2. QED
    BY <1>0, <2>1, VerdictNames, FailWalks, GotoWalks DEF Still, Places, Before, Bound
<1>14. CASE VerifyAfter(p)
  <2>1. /\ proc[p].at = "after" /\ Busy(p) /\ Still /\ tokens' = tokens
        /\ (AnswerWith(p, "committed") \/ AnswerWith(p, "unreconciled"))
    BY <1>14 DEF VerifyAfter, Busy, Still, git
  <2>2. QED
    BY <1>0, <2>1, VerdictNames, AnswerWalks DEF Still
<1>15. CASE Recover(p)
  <2>1. proc[p].at = "recover" /\ Busy(p) /\ Still /\ tokens' = tokens
    BY <1>15 DEF Recover, Busy, Still, git
  <2>2. CASE AnswerWith(p, "refused")
    BY <1>0, <2>1, <2>2, VerdictNames, AnswerWalks DEF Still
  <2>3. CASE Goto(p, "prepare") /\ HEAD = proc[p].head
    <3>1. "prepare" \in Places /\ "prepare" \notin Before /\ Rejoins(proc[p])
      BY <2>1, <2>3 DEF Places, Bound, Before, Rejoins
    <3>2. QED
      BY <1>0, <2>1, <2>3, <3>1, GotoWalks DEF Still
  <2>4. CASE proc' = [proc EXCEPT ![p].at = "after", ![p].seen = HEAD]
    <3>1. "after" \in Places /\ "after" \notin Before /\ "after" \notin Bound
      BY DEF Places, Before, Bound
    <3>2. QED
      BY <1>0, <2>1, <2>4, <3>1, SeenStays, JobWalks
  <2>5. QED
    BY <1>15, <2>2, <2>3, <2>4 DEF Recover
<1>16. QED
  BY <1>0, <1>1, <1>2, <1>3, <1>4, <1>5, <1>6, <1>7, <1>8, <1>9, <1>10, <1>11, <1>12, <1>13,
     <1>14, <1>15, ReadHeadWalks, LocateWalks, ReadLogWalks, StartWalks DEF Step

-----------------------------------------------------------------------------
(* Whose commit there is, whose is being made, and whose is still to come. *)

\* Every commit, token and job is of an invocation that has begun.
Numbered ==
  /\ \A k \in 1..HEAD : commits[k].inv <= used
  /\ child # None => child.inv <= used
  /\ \A t \in tokens : t.inv <= used
  /\ \A p \in Proc : Busy(p) => proc[p].inv <= used

\* An invocation's commits come after the HEAD it starts from.
Ahead(x) == \A k \in MadeBy(x.inv) : k > x.head
AllAhead ==
  /\ \A t \in tokens : Ahead(t)
  /\ \A p \in Proc : Busy(p) => Ahead(proc[p])

\* Before its commit set is derived, nothing is committed for an invocation.
Fresh ==
  \A p \in Proc : proc[p].at \in Before =>
    MadeBy(proc[p].inv) = {} /\ (child # None => child.inv # proc[p].inv)

\* As long as nobody dies, somebody waits for git.
Waited == crashes = 0 /\ child # None => \E p \in Proc : proc[p].at = "committing"

Wants(v) == \E p \in Proc : proc[p].at \in Before \cup Bound /\ proc[p].inv = v
Makes(v) == child # None /\ child.inv = v
One(b) == IF b THEN 1 ELSE 0
Count(v) == Cardinality(MadeBy(v)) + One(Wants(v)) + One(Makes(v))
CommitLimit == IF crashes = 0 THEN 1 ELSE 2
Counted == \A v \in Nat \ {0} : Count(v) <= CommitLimit

CountInv == StackInv /\ Numbered /\ AllAhead /\ Fresh /\ Waited /\ Counted
Counts == Numbered' /\ AllAhead' /\ Fresh' /\ Waited' /\ Counted'

LEMMA CountInvParts ==
  ASSUME CountInv
  PROVE  /\ AutoTypes /\ Sound /\ MutexSound /\ Numbered /\ AllAhead /\ Fresh /\ Waited /\ Counted
         /\ used \in Nat /\ crashes \in Nat /\ HEAD \in Nat /\ proc \in [Proc -> Jobs \cup {Idle}]
         /\ None \notin Proc
BY CommitsAreJournal, JournalLen, AutoCommitAssumption
   DEF CountInv, StackInv, GitInv, Sound, AutoTypes, HEAD, AutoCommitAssumption

LEMMA MadeByFinite ==
  ASSUME HEAD \in Nat, NEW v
  PROVE  IsFiniteSet(MadeBy(v)) /\ Cardinality(MadeBy(v)) \in Nat
<1>1. IsFiniteSet(1..HEAD) /\ MadeBy(v) \subseteq 1..HEAD
  BY FS_Interval DEF MadeBy
<1>2. QED
  BY <1>1, FS_Subset, FS_CardinalityType

LEMMA MadeByStands ==
  ASSUME commits' = commits
  PROVE  HEAD' = HEAD /\ \A v : MadeBy(v)' = MadeBy(v)
BY DEF HEAD, MadeBy

\* Nothing is added to a count whose parts do not appear.
LEMMA CountFalls ==
  ASSUME CountInv, NEW v \in Nat \ {0}, MadeBy(v)' = MadeBy(v),
         Wants(v)' => Wants(v), Makes(v)' => Makes(v), crashes' = crashes \/ crashes' = crashes + 1
  PROVE  Count(v)' <= CommitLimit'
<1>1. Count(v) <= CommitLimit /\ crashes \in Nat
  BY CountInvParts DEF Counted
<1>2. Cardinality(MadeBy(v)) \in Nat /\ Cardinality(MadeBy(v)') = Cardinality(MadeBy(v))
  BY CountInvParts, MadeByFinite
<1>3. One(Wants(v)) \in {0, 1} /\ One(Makes(v)) \in {0, 1}
  BY DEF One
<1>4. One(Wants(v)') \in {0, 1} /\ One(Wants(v)') <= One(Wants(v))
  BY DEF One
<1>5. One(Makes(v)') \in {0, 1} /\ One(Makes(v)') <= One(Makes(v))
  BY DEF One
<1>6. CommitLimit \in {1, 2} /\ CommitLimit' \in {1, 2} /\ CommitLimit <= CommitLimit'
  BY <1>1 DEF CommitLimit
<1>7. Count(v)' = Cardinality(MadeBy(v)') + One(Wants(v)') + One(Makes(v)')
  BY DEF Count, One
<1>8. QED
  BY <1>1, <1>2, <1>3, <1>4, <1>5, <1>6, <1>7 DEF Count

LEMMA QuitsCounts == ASSUME CountInv, NEW p \in Proc, Quits(p) PROVE Counts
<1>0. /\ AutoTypes /\ MutexSound /\ Numbered /\ AllAhead /\ Fresh /\ Waited /\ used \in Nat
      /\ crashes \in Nat /\ proc \in [Proc -> Jobs \cup {Idle}]
  BY CountInvParts
<1>1. /\ proc' = [proc EXCEPT ![p] = Idle]
      /\ tokens' = tokens /\ used' = used /\ child' = child /\ commits' = commits
      /\ \/ proc[p].at = "done" /\ crashes' = crashes
         \/ crashes' = crashes + 1
  BY DEF Quits
<1>2. HEAD' = HEAD /\ \A v : MadeBy(v)' = MadeBy(v)
  BY <1>1, MadeByStands
<1>3. proc'[p].at = "idle" /\ \A q \in Proc : q # p => proc'[q] = proc[q]
  BY <1>0, <1>1 DEF Idle
<1>4. \A q \in Proc : Busy(q)' => Busy(q) /\ proc'[q] = proc[q]
  BY <1>3 DEF Busy
<1>5. Numbered'
  BY <1>0, <1>1, <1>2, <1>4 DEF Numbered
<1>6. AllAhead'
  BY <1>0, <1>1, <1>2, <1>4 DEF AllAhead, Ahead
<1>7. \A q \in Proc : proc'[q].at \in Before \cup Bound \cup {"committing"} => proc'[q] = proc[q]
  BY <1>3 DEF Before, Bound
<1>8. Fresh'
  BY <1>0, <1>1, <1>2, <1>7 DEF Fresh
<1>9. Waited'
  BY <1>0, <1>1, <1>3 DEF Waited
<1>10. ASSUME NEW v \in Nat \ {0} PROVE Count(v)' <= CommitLimit'
  <2>1. Wants(v)' => Wants(v)
    BY <1>7 DEF Wants
  <2>2. Makes(v)' => Makes(v)
    BY <1>1 DEF Makes
  <2>3. QED
    BY <1>1, <1>2, <2>1, <2>2, CountFalls
<1>11. QED
  BY <1>5, <1>6, <1>8, <1>9, <1>10 DEF Counts, Counted

LEMMA BeginsCounts == ASSUME CountInv, NEW p \in Proc, Begins(p) PROVE Counts
<1>0. /\ AutoTypes /\ MutexSound /\ Numbered /\ AllAhead /\ Fresh /\ Waited /\ used \in Nat
      /\ crashes \in Nat /\ HEAD \in Nat /\ proc \in [Proc -> Jobs \cup {Idle}] /\ None \notin Proc
  BY CountInvParts
<1>1. /\ mutex = None /\ tokens' = tokens /\ child' = child /\ commits' = commits
      /\ crashes' = crashes
  BY DEF Begins
<1>2. PICK j \in Jobs :
        /\ proc' = [proc EXCEPT ![p] = j]
        /\ \/ used' = used + 1 /\ j.inv = used' /\ j.at = "inspect" /\ j.head = 0
           \/ used' = used /\ j.at = "recover" /\ \E t \in tokens : j.inv = t.inv /\ j.head = t.head
  BY DEF Begins
<1>3. HEAD' = HEAD /\ \A v : MadeBy(v)' = MadeBy(v)
  BY <1>1, MadeByStands
<1>4. \A q \in Proc : ~ Busy(q)
  BY <1>0, <1>1 DEF MutexSound
<1>5. proc'[p] = j /\ \A q \in Proc : q # p => proc'[q] = proc[q]
  BY <1>0, <1>2
<1>6. \A q \in Proc : Busy(q)' => q = p
  BY <1>4, <1>5 DEF Busy
<1>7. child = None \/ crashes # 0
  BY <1>0, <1>4 DEF Waited, Busy
<1>8. j.inv <= used'
  BY <1>0, <1>2 DEF Numbered
<1>9. Ahead(j)' /\ (j.at \in Before => MadeBy(j.inv) = {} /\ (child # None => child.inv # j.inv))
  <2>1. CASE j.inv = used + 1
    <3>1. MadeBy(j.inv) = {} /\ (child # None => child.inv # j.inv)
      BY <1>0, <2>1 DEF Numbered, MadeBy, AutoTypes, Children
    <3>2. QED
      BY <1>3, <3>1 DEF Ahead
  <2>2. CASE j.at = "recover" /\ \E t \in tokens : j.inv = t.inv /\ j.head = t.head
    <3>1. Ahead(j)
      BY <1>0, <2>2 DEF AllAhead, Ahead
    <3>2. QED
      BY <1>3, <2>2, <3>1 DEF Ahead, Before
  <2>3. QED
    BY <1>2, <2>1, <2>2
<1>10. Numbered'
  <2>1. \A k \in 1..HEAD : commits[k].inv <= used'
    <3>1. ASSUME NEW k \in 1..HEAD PROVE commits[k].inv \in Nat
      <4>1. commits[k] \in BranchCommits
        BY <1>0, <3>1 DEF AutoTypes, HEAD
      <4>2. QED
        BY <4>1 DEF BranchCommits
    <3>2. QED
      BY <1>0, <1>2, <3>1 DEF Numbered
  <2>2. child # None => child.inv <= used'
    BY <1>0, <1>2 DEF Numbered, AutoTypes, Children
  <2>3. \A t \in tokens : t.inv <= used'
    BY <1>0, <1>2 DEF Numbered, AutoTypes, Tokens
  <2>4. QED
    BY <1>1, <1>3, <1>5, <1>6, <1>8, <2>1, <2>2, <2>3 DEF Numbered
<1>11. AllAhead'
  BY <1>0, <1>1, <1>3, <1>5, <1>6, <1>9 DEF AllAhead, Ahead
<1>12. \A q \in Proc : proc'[q].at \in Before \cup Bound => q = p
  BY <1>6 DEF Busy, Before, Bound
<1>13. Fresh'
  BY <1>1, <1>3, <1>5, <1>9, <1>12 DEF Fresh
<1>14. Waited'
  BY <1>1, <1>7 DEF Waited
<1>15. ASSUME NEW v \in Nat \ {0} PROVE Count(v)' <= CommitLimit'
  <2>1. Makes(v)' => Makes(v)
    BY <1>1 DEF Makes
  <2>2. CASE Wants(v)'
    <3>1. v = j.inv /\ j.at \in Before \cup Bound
      BY <1>5, <1>12, <2>2 DEF Wants
    <3>2. j.at \in Before
      BY <1>2, <3>1 DEF Bound, Before
    <3>3. MadeBy(v)' = {} /\ ~ Makes(v)'
      BY <1>1, <1>3, <1>9, <3>1, <3>2 DEF Makes
    <3>4. Cardinality(MadeBy(v)') = 0 /\ One(Makes(v)') = 0 /\ One(Wants(v)') = 1
      BY <2>2, <3>3, FS_EmptySet DEF One
    <3>5. CommitLimit' \in {1, 2}
      BY DEF CommitLimit
    <3>6. Count(v)' = Cardinality(MadeBy(v)') + One(Wants(v)') + One(Makes(v)')
      BY DEF Count, One
    <3>7. QED
      BY <3>4, <3>5, <3>6
  <2>3. CASE ~ Wants(v)'
    BY <1>1, <1>3, <2>1, <2>3, CountFalls
  <2>4. QED
    BY <2>2, <2>3
<1>16. QED
  BY <1>10, <1>11, <1>13, <1>14, <1>15 DEF Counts, Counted

\* A job that goes on: what it wants it starts, and a recovery that wants it anew has nothing
\* made, unless a process has died.
LEMMA WalksCounts == ASSUME CountInv, NEW p \in Proc, Walks(p) PROVE Counts
<1>0. /\ AutoTypes /\ MutexSound /\ Numbered /\ AllAhead /\ Fresh /\ Waited /\ Counted
      /\ used \in Nat /\ crashes \in Nat /\ HEAD \in Nat /\ proc \in [Proc -> Jobs \cup {Idle}]
  BY CountInvParts
<1>1. PICK i : i = proc[p]
  OBVIOUS
<1>2. /\ i \in Jobs /\ Busy(p) /\ i.at # "committing"
      /\ used' = used /\ crashes' = crashes /\ commits' = commits
      /\ \A t \in tokens' \ tokens : t.inv = i.inv /\ t.head = i.head
  BY <1>1 DEF Walks
<1>3. PICK j \in Jobs :
        /\ proc' = [proc EXCEPT ![p] = j]
        /\ j.inv = i.inv /\ (j.head = i.head \/ (i.at \in Before /\ j.head = HEAD))
        /\ j.at \in Before => i.at \in Before
        /\ j.at \in Bound => (i.at \in Before \cup Bound) \/ Rejoins(i)
        /\ \/ child' = child
           \/ child = None /\ child'.inv = i.inv /\ i.at \in Bound /\ j.at = "committing"
  BY <1>1 DEF Walks
<1>4. HEAD' = HEAD /\ \A v : MadeBy(v)' = MadeBy(v)
  BY <1>2, MadeByStands
<1>5. proc'[p] = j /\ \A q \in Proc : q # p => proc'[q] = proc[q]
  BY <1>0, <1>3
<1>6. \A q \in Proc : q # p => ~ Busy(q) /\ ~ Busy(q)'
  BY <1>0, <1>2, <1>5 DEF MutexSound, Busy
<1>7. \A q \in Proc : proc'[q].at \in Before \cup Bound => q = p
  BY <1>6 DEF Busy, Before, Bound
<1>8. i.inv <= used /\ Ahead(i)
  BY <1>0, <1>1, <1>2 DEF Numbered, AllAhead
<1>9. i.at \in Before => MadeBy(i.inv) = {} /\ (child # None => child.inv # i.inv)
  BY <1>0, <1>1 DEF Fresh
<1>10. crashes = 0 => child = None
  BY <1>0, <1>1, <1>2, <1>6 DEF Waited, Busy
<1>11. Numbered'
  BY <1>0, <1>2, <1>3, <1>4, <1>5, <1>6, <1>8 DEF Numbered
<1>12. Ahead(j)'
  <2>1. CASE j.head = i.head
    BY <1>3, <1>4, <1>8, <2>1 DEF Ahead
  <2>2. CASE i.at \in Before
    BY <1>3, <1>4, <1>9, <2>2 DEF Ahead
  <2>3. QED
    BY <1>3, <2>1, <2>2
<1>13. AllAhead'
  <2>1. ASSUME NEW t \in tokens' PROVE Ahead(t)'
    <3>1. CASE t \in tokens
      BY <1>0, <1>4, <3>1 DEF AllAhead, Ahead
    <3>2. CASE t \notin tokens
      BY <1>2, <1>4, <1>8, <3>2 DEF Ahead
    <3>3. QED
      BY <3>1, <3>2
  <2>2. ASSUME NEW q \in Proc, Busy(q)' PROVE Ahead(proc[q])'
    BY <1>5, <1>6, <1>12, <2>2 DEF Ahead
  <2>3. QED
    BY <2>1, <2>2 DEF AllAhead
<1>14. Fresh'
  <2>1. ASSUME j.at \in Before
        PROVE  MadeBy(j.inv)' = {} /\ (child' # None => child'.inv # j.inv)
    <3>1. i.at \in Before /\ child' = child
      BY <1>3, <2>1 DEF Before
    <3>2. QED
      BY <1>3, <1>4, <1>9, <3>1
  <2>2. QED
    BY <1>5, <1>7, <2>1 DEF Fresh
<1>15. Waited'
  BY <1>2, <1>3, <1>5, <1>10 DEF Waited
<1>16. ASSUME NEW v \in Nat \ {0} PROVE Count(v)' <= CommitLimit'
  <2>1. CommitLimit' = CommitLimit /\ CommitLimit \in {1, 2} /\ (crashes # 0 => CommitLimit = 2)
    BY <1>2 DEF CommitLimit
  <2>2. /\ Count(v)' = Cardinality(MadeBy(v)') + One(Wants(v)') + One(Makes(v)')
        /\ Count(v) = Cardinality(MadeBy(v)) + One(Wants(v)) + One(Makes(v))
    BY DEF Count, One
  <2>3. Count(v) <= CommitLimit /\ Cardinality(MadeBy(v)) \in Nat /\ MadeBy(v)' = MadeBy(v)
    BY <1>0, <1>4, MadeByFinite DEF Counted
  <2>4. CASE child' = child /\ (Wants(v)' => Wants(v))
    <3>1. Makes(v)' => Makes(v)
      BY <2>4 DEF Makes
    <3>2. QED
      BY <1>2, <2>3, <2>4, <3>1, CountFalls
  <2>5. CASE child' = child /\ Wants(v)' /\ ~ Wants(v)
    <3>1. v = j.inv /\ j.at \in Before \cup Bound
      BY <1>5, <1>7, <2>5 DEF Wants
    <3>2. i.at \notin Before \cup Bound
      BY <1>1, <1>3, <2>5, <3>1 DEF Wants
    <3>3. HEAD = i.head
      BY <1>3, <3>1, <3>2 DEF Rejoins
    <3>4. MadeBy(v) = {}
      BY <1>0, <1>3, <1>8, <3>1, <3>3 DEF Ahead, MadeBy
    <3>5. Cardinality(MadeBy(v)') = 0 /\ One(Wants(v)') = 1
      BY <2>3, <2>5, <3>4, FS_EmptySet DEF One
    <3>6. One(Makes(v)') \in {0, 1} /\ (child = None => One(Makes(v)') = 0)
      BY <2>5 DEF One, Makes
    <3>7. QED
      BY <1>10, <2>1, <2>2, <3>5, <3>6
  <2>6. CASE child = None /\ child'.inv = i.inv /\ i.at \in Bound /\ j.at = "committing"
    <3>1. ~ Wants(v)'
      BY <1>5, <1>7, <2>6 DEF Wants, Before, Bound
    <3>2. One(Wants(v)') = 0 /\ One(Makes(v)) = 0
      BY <2>6, <3>1 DEF One, Makes
    <3>3. Makes(v)' => Wants(v)
      BY <1>1, <2>6 DEF Makes, Wants
    <3>4. One(Makes(v)') \in {0, 1} /\ One(Wants(v)) \in {0, 1} /\ One(Makes(v)') <= One(Wants(v))
      BY <3>3 DEF One
    <3>5. QED
      BY <2>1, <2>2, <2>3, <3>2, <3>4
  <2>7. QED
    BY <1>3, <2>4, <2>5, <2>6
<1>17. QED
  BY <1>11, <1>13, <1>14, <1>15, <1>16 DEF Counts, Counted

\* What git and the world leave alone.
Elsewhere ==
  /\ tokens' = tokens /\ used' = used /\ crashes' = crashes
  /\ \A q \in Proc : proc'[q] = proc[q] \/ Told(q)

LEMMA ElsewhereBusy ==
  ASSUME Elsewhere
  PROVE  /\ \A q \in Proc : Busy(q)' => /\ Busy(q) /\ proc'[q].inv = proc[q].inv
                                        /\ proc'[q].head = proc[q].head
         /\ \A q \in Proc : proc'[q].at \in Before \cup Bound => proc'[q] = proc[q]
         /\ \A v : Wants(v)' => Wants(v)
<1>1. \A q \in Proc : Busy(q)' => /\ Busy(q) /\ proc'[q].inv = proc[q].inv
                                  /\ proc'[q].head = proc[q].head
  BY DEF Elsewhere, Told, Busy
<1>2. \A q \in Proc : proc'[q].at \in Before \cup Bound => proc'[q] = proc[q]
  BY DEF Elsewhere, Told, Before, Bound
<1>3. \A v : Wants(v)' => Wants(v)
  BY <1>2 DEF Wants
<1>4. QED
  BY <1>1, <1>2, <1>3

LEMMA StandsCounts ==
  ASSUME CountInv, Elsewhere, commits' = commits,
         child' = None \/ (child' = child /\ proc' = proc)
  PROVE  Counts
<1>0. Numbered /\ AllAhead /\ Fresh /\ Waited
  BY CountInvParts
<1>1. HEAD' = HEAD /\ \A v : MadeBy(v)' = MadeBy(v)
  BY MadeByStands
<1>2. Numbered'
  BY <1>0, <1>1, ElsewhereBusy DEF Numbered, Elsewhere
<1>3. AllAhead'
  BY <1>0, <1>1, ElsewhereBusy DEF AllAhead, Ahead, Elsewhere
<1>4. Fresh'
  BY <1>0, <1>1, ElsewhereBusy DEF Fresh
<1>5. Waited'
  BY <1>0 DEF Waited, Elsewhere
<1>6. ASSUME NEW v \in Nat \ {0} PROVE Count(v)' <= CommitLimit'
  <2>1. Makes(v)' => Makes(v)
    BY DEF Makes
  <2>2. QED
    BY <1>1, <2>1, ElsewhereBusy, CountFalls DEF Elsewhere
<1>7. QED
  BY <1>2, <1>3, <1>4, <1>5, <1>6 DEF Counts, Counted

\* The commit that is made is counted in the place of the one that was being made.
LEMMA MovesCounts ==
  ASSUME CountInv, Elsewhere, child' = None, NEW c, NewCommit(c),
         c.inv = 0 \/ (child # None /\ c.inv = child.inv)
  PROVE  Counts
<1>0. /\ AutoTypes /\ Sound /\ Numbered /\ AllAhead /\ Fresh /\ Counted /\ used \in Nat
      /\ crashes \in Nat
  BY CountInvParts
<1>1. /\ HEAD \in Nat /\ HEAD >= 1 /\ HEAD' = HEAD + 1 /\ commits'[HEAD + 1] = c
      /\ \A k \in 1..HEAD : commits'[k] = commits[k]
  BY <1>0, BranchAfter
<1>2. ASSUME NEW v
      PROVE  MadeBy(v)' = IF c.inv = v THEN MadeBy(v) \cup {HEAD + 1} ELSE MadeBy(v)
  BY <1>1 DEF MadeBy
<1>3. c.inv <= used
  BY <1>0 DEF Numbered
<1>4. Numbered'
  <2>1. \A k \in 1..HEAD' : commits'[k].inv <= used
    BY <1>0, <1>1, <1>3 DEF Numbered
  <2>2. QED
    BY <1>0, <2>1, ElsewhereBusy DEF Numbered, Elsewhere
<1>5. ASSUME NEW x, Ahead(x), x.head <= HEAD, x.head \in Nat PROVE Ahead(x)'
  <2>1. \A k \in MadeBy(x.inv)' : k \in MadeBy(x.inv) \/ k = HEAD + 1
    BY <1>2
  <2>2. QED
    BY <1>1, <1>5, <2>1 DEF Ahead
<1>6. AllAhead'
  <2>1. ASSUME NEW t \in tokens' PROVE Ahead(t)'
    <3>1. t \in tokens
      BY DEF Elsewhere
    <3>2. t.head \in 1..HEAD
      BY <1>0, <3>1 DEF Sound, TokensSound, TokenSound, Knows
    <3>3. QED
      BY <1>0, <1>1, <1>5, <3>1, <3>2 DEF AllAhead
  <2>2. ASSUME NEW q \in Proc, Busy(q)' PROVE Ahead(proc[q])'
    <3>1. Busy(q) /\ proc'[q].inv = proc[q].inv /\ proc'[q].head = proc[q].head
      BY <2>2, ElsewhereBusy
    <3>2. PICK i : i = proc[q]
      OBVIOUS
    <3>3. i.head <= HEAD /\ i.head \in Nat
      <4>1. JobSound(i) /\ i # Idle /\ i \in Jobs
        BY <1>0, <3>1, <3>2, BusyHasJob DEF Sound, JobsSound, Busy, Idle
      <4>2. QED
        BY <4>1 DEF JobSound, Jobs
    <3>4. Ahead(i)'
      BY <1>0, <1>5, <3>1, <3>2, <3>3 DEF AllAhead
    <3>5. QED
      BY <3>1, <3>2, <3>4 DEF Ahead
  <2>3. QED
    BY <2>1, <2>2 DEF AllAhead
<1>7. Fresh'
  <2>1. ASSUME NEW q \in Proc, proc'[q].at \in Before PROVE MadeBy(proc[q].inv)' = {}
    <3>1. proc'[q] = proc[q]
      BY <2>1, ElsewhereBusy
    <3>2. MadeBy(proc[q].inv) = {} /\ (child # None => child.inv # proc[q].inv)
      BY <1>0, <2>1, <3>1 DEF Fresh
    <3>3. proc[q].inv # 0
      <4>1. proc[q] \in Jobs
        BY <1>0, <2>1, <3>1, BusyHasJob DEF Before
      <4>2. QED
        BY <4>1 DEF Jobs
    <3>4. PICK v : v = proc[q].inv
      OBVIOUS
    <3>5. MadeBy(v)' = {}
      BY <1>2, <3>2, <3>3, <3>4
    <3>6. QED
      BY <3>1, <3>4, <3>5 DEF MadeBy
  <2>2. QED
    BY <2>1, ElsewhereBusy DEF Fresh
<1>8. Waited'
  BY DEF Waited
<1>9. ASSUME NEW v \in Nat \ {0} PROVE Count(v)' <= CommitLimit'
  <2>1. ~ Makes(v)' /\ (Wants(v)' => Wants(v)) /\ crashes' = crashes
    BY ElsewhereBusy DEF Makes, Elsewhere
  <2>2. CASE c.inv # v
    BY <1>2, <2>1, <2>2, CountFalls
  <2>3. CASE c.inv = v
    <3>1. Makes(v)
      BY <2>3 DEF Makes
    <3>2. One(Makes(v)) = 1 /\ One(Makes(v)') = 0
      BY <2>1, <3>1 DEF One
    <3>3. /\ One(Wants(v)) \in {0, 1} /\ One(Wants(v)') \in {0, 1}
          /\ One(Wants(v)') <= One(Wants(v))
      BY <2>1 DEF One
    <3>4. MadeBy(v)' = MadeBy(v) \cup {HEAD + 1} /\ HEAD + 1 \notin MadeBy(v)
      BY <1>1, <1>2, <2>3 DEF MadeBy
    <3>5. /\ Cardinality(MadeBy(v)) \in Nat
          /\ Cardinality(MadeBy(v)') = Cardinality(MadeBy(v)) + 1
      BY <1>1, <3>4, MadeByFinite, FS_AddElement
    <3>6. CommitLimit' = CommitLimit /\ CommitLimit \in {1, 2} /\ Count(v) <= CommitLimit
      BY <1>0, <2>1 DEF CommitLimit, Counted
    <3>7. /\ Count(v)' = Cardinality(MadeBy(v)') + One(Wants(v)') + One(Makes(v)')
          /\ Count(v) = Cardinality(MadeBy(v)) + One(Wants(v)) + One(Makes(v))
      BY DEF Count, One
    <3>8. QED
      BY <3>2, <3>3, <3>5, <3>6, <3>7
  <2>4. QED
    BY <2>2, <2>3
<1>10. QED
  BY <1>4, <1>6, <1>7, <1>8, <1>9 DEF Counts, Counted

LEMMA CountInvInit == ASSUME AutoInit PROVE CountInv
<1>1. StackInv
  BY StackInvInit
<1>2. PICK c : c = [inv |-> 0, subject |-> None, changed |-> {}, tree |-> index]
  OBVIOUS
<1>3. commits = <<c>> /\ c.inv = 0
  BY <1>2 DEF AutoInit
<1>4. HEAD = 1 /\ commits[1].inv = 0
  BY <1>3 DEF HEAD
<1>5. /\ child = None /\ tokens = {} /\ used = 0 /\ crashes = 0
      /\ \A p \in Proc : proc[p].at = "idle"
  BY DEF AutoInit, Idle
<1>6. Numbered /\ AllAhead /\ Fresh /\ Waited
  BY <1>4, <1>5 DEF Numbered, AllAhead, Fresh, Waited, Busy, Before
<1>7. ASSUME NEW v \in Nat \ {0} PROVE Count(v) <= CommitLimit
  <2>1. MadeBy(v) = {}
    BY <1>4 DEF MadeBy
  <2>2. ~ Wants(v) /\ ~ Makes(v)
    BY <1>5 DEF Wants, Makes, Before, Bound
  <2>3. Cardinality(MadeBy(v)) = 0 /\ One(Wants(v)) = 0 /\ One(Makes(v)) = 0
    BY <2>1, <2>2, FS_EmptySet DEF One
  <2>4. CommitLimit = 1
    BY <1>5 DEF CommitLimit
  <2>5. QED
    BY <2>3, <2>4 DEF Count
<1>8. QED
  BY <1>1, <1>6, <1>7 DEF CountInv, Counted

LEMMA CountInvStep == ASSUME CountInv, [AutoNext]_autoVars PROVE CountInv'
<1>0. StackInv' /\ Sound /\ AutoTypes
  BY StackInvStep, CountInvParts DEF CountInv
<1>1. ASSUME NEW p \in Proc, Step(p) PROVE Counts
  BY <1>0, <1>1, StepForms, QuitsCounts, BeginsCounts, WalksCounts
<1>2. ASSUME GitCommitEnds PROVE Counts
  <2>1. Elsewhere
    BY <1>0, <1>2, OtherSteps DEF Elsewhere, GitCommitEnds, GitCommits
  <2>2. QED
    BY <1>0, <1>2, <2>1, CommitMade, MovesCounts
<1>3. ASSUME GitCommitFails PROVE Counts
  <2>1. Elsewhere /\ commits' = commits /\ child' = None
    BY <1>0, <1>3, OtherSteps DEF Elsewhere, GitCommitFails
  <2>2. QED
    BY <2>1, StandsCounts
<1>4. ASSUME Environment PROVE Counts
  <2>1. Elsewhere /\ proc' = proc /\ child' = child
    BY <1>4
       DEF Elsewhere, Environment, ForeignEdit, ForeignAdd, ForeignCommit, ClaimCommand,
           PlainMutation, World
  <2>2. CASE ForeignCommit
    BY <1>0, <2>1, <2>2, ForeignCommitMade, MovesCounts
  <2>3. CASE ~ ForeignCommit
    <3>1. commits' = commits
      BY <1>4, <2>3 DEF Environment, ForeignEdit, ForeignAdd, ClaimCommand, PlainMutation
    <3>2. QED
      BY <2>1, <3>1, StandsCounts
  <2>4. QED
    BY <2>2, <2>3
<1>5. ASSUME UNCHANGED autoVars PROVE Counts
  <2>1. Elsewhere /\ proc' = proc /\ child' = child /\ commits' = commits
    BY <1>5 DEF autoVars, Elsewhere
  <2>2. QED
    BY <2>1, StandsCounts
<1>6. Counts
  BY <1>1, <1>2, <1>3, <1>4, <1>5 DEF AutoNext
<1>7. QED
  BY <1>0, <1>6 DEF CountInv, Counts

LEMMA CountInvHolds == AutoSpec => []CountInv
<1>1. AutoInit => CountInv
  BY CountInvInit
<1>2. CountInv /\ [AutoNext]_autoVars => CountInv'
  BY CountInvStep
<1>3. QED
  BY <1>1, <1>2, PTL DEF AutoSpec

\* However often a token is used, one invocation makes one commit, and a second one at most
\* where a process has died: a recovery goes on to a commit only where HEAD is still the one
\* the invocation started from, so all that can be under way besides is an orphaned git.
THEOREM OneCommitEach == AutoSpec => []OneCommitPerInvocation
<1>1. CountInv => OneCommitPerInvocation
  <2>1. SUFFICES ASSUME CountInv, NEW v \in 1..used
                 PROVE  Cardinality(MadeBy(v)) <= IF crashes = 0 THEN 1 ELSE 2
    BY DEF OneCommitPerInvocation
  <2>2. v \in Nat \ {0}
    BY <2>1, CountInvParts
  <2>3. Count(v) <= CommitLimit /\ Cardinality(MadeBy(v)) \in Nat
    BY <2>1, <2>2, CountInvParts, MadeByFinite DEF Counted
  <2>4. One(Wants(v)) \in {0, 1} /\ One(Makes(v)) \in {0, 1}
    BY DEF One
  <2>5. CommitLimit \in {1, 2}
    BY DEF CommitLimit
  <2>6. QED
    BY <2>3, <2>4, <2>5 DEF Count, CommitLimit
<1>2. QED
  BY <1>1, CountInvHolds, PTL
=============================================================================
