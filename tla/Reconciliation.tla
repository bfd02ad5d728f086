--------------------------- MODULE Reconciliation ---------------------------
(***************************************************************************)
(* The rules every command applies to the claim journal before it acts:    *)
(* which revision of an item the journal authorizes, how an attempt with   *)
(* no terminal is resolved, and what a drifted item blocks.  Pure          *)
(* operators over a journal (a sequence of entries); no state.             *)
(*                                                                         *)
(* An entry is a record whose field `type` says which other fields it has: *)
(*   "intent"    legacy-mutation-intent: item, att, expected, revision,    *)
(*               writer, create                                            *)
(*   "legacy"    legacy-mutation (committed): item, att, revision, writer  *)
(*   "abort"     legacy-mutation-abort: item, att                          *)
(*   "adoption"  revision-adoption: item, from, revision                   *)
(*   "publish"   publish-intent of one operation: item, op, expected,      *)
(*               revision, owner, epoch, writer                            *)
(*   "final"     publish-final of one operation: item, op, verdict,        *)
(*               committed, revision, epoch, writer                        *)
(*   "finalized" publish-finalization: item, op                            *)
(* An attempt or operation is named by a value no other one has.           *)
(***************************************************************************)
EXTENDS Naturals, Sequences, SequencesExt

CONSTANT Absent   \* no bytes at a path: the revision `null`

\* A set of journal positions in journal order, as the loops over the journal
\* visit them.
InOrder(S) ==
  [n \in 1..Cardinality(S) |-> CHOOSE k \in S : Cardinality({m \in S : m <= k}) = n]

-----------------------------------------------------------------------------
(* What the journal authorizes.                                            *)

Authorizes(e, i) ==
  /\ \/ e.type \in {"legacy", "adoption"}
     \/ e.type = "final" /\ e.committed
  /\ e.item = i

\* The positions of an item's authorizing entries.
AuthorizingEntries(j, i) == {k \in 1..Len(j) : Authorizes(j[k], i)}

\* The latest ruling on an item; Absent when the journal never ruled on it.
ExpectedRevision(j, i) ==
  LET A == AuthorizingEntries(j, i)
  IN  IF A = {} THEN Absent ELSE j[Max(A)].revision

\* A create's `null` predecessor is not a revision anybody authorized.
AuthorizedRevisions(j, i) ==
  {j[k].revision : k \in AuthorizingEntries(j, i)} \cup
  {j[k].expected : k \in {n \in 1..Len(j) : /\ j[n].type = "intent"
                                            /\ j[n].item = i
                                            /\ j[n].expected # Absent}}

\* The items reconciliation compares with the checkout: those with a legacy
\* mutation, or with a publication seen at a Git HEAD.
CoordinatedItems(j) ==
  {j[k].item : k \in {n \in 1..Len(j) : j[n].type \in {"legacy", "finalized"}}}

\* The writer recorded by the latest ruling; an adoption records none.
RecordedWriter(j, i, unknown) ==
  LET A == AuthorizingEntries(j, i)
  IN  IF A # {} /\ j[Max(A)].type \in {"legacy", "final"}
      THEN j[Max(A)].writer
      ELSE unknown

-----------------------------------------------------------------------------
(* Legacy attempts with no terminal.                                       *)

PendingAttempts(j) ==
  {k \in 1..Len(j) :
     /\ j[k].type = "intent"
     /\ ~ \E n \in 1..Len(j) : j[n].type \in {"legacy", "abort"} /\ j[n].att = j[k].att}

\* How the bytes in the resolving checkout rule on a pending attempt.  Which
\* worktree wrote the intent is not consulted.
Verdict(intent, actual) ==
  IF actual = intent.revision THEN "legacy"
  ELSE IF actual = intent.expected THEN "abort"
  ELSE "unknown"

Resolution(intent, verdict) ==
  IF verdict = "legacy"
  THEN [type |-> "legacy", item |-> intent.item, att |-> intent.att,
        revision |-> intent.revision, writer |-> intent.writer]
  ELSE [type |-> "abort", item |-> intent.item, att |-> intent.att]

\* The attempts a checkout `tree` cannot rule on: each is a global finding.
UnresolvedAttempts(j, tree) ==
  {k \in PendingAttempts(j) : Verdict(j[k], tree[j[k].item]) = "unknown"}

\* The journal once every attempt the checkout can rule on has its terminal.
Resolved(j, tree) ==
  LET pending == InOrder(PendingAttempts(j) \ UnresolvedAttempts(j, tree))
  IN  j \o [n \in 1..Len(pending) |->
              LET intent == j[pending[n]]
              IN  Resolution(intent, Verdict(intent, tree[intent.item]))]

-----------------------------------------------------------------------------
(* reconciliation-classifier.js                                            *)

NormalizeRevision(revision, expected, authorized) ==
  IF revision = Absent THEN "absent"
  ELSE IF revision = expected THEN "expected"
  ELSE IF revision \in authorized THEN "authorized"
  ELSE "unknown"

IsUnattributed(workingTree, head) ==
  \/ workingTree = "unknown"
  \/ head = "unknown"
  \/ workingTree = "absent" /\ head # "absent"

Remedy(workingTree, head, owner, writer) ==
  IF IsUnattributed(workingTree, head) THEN "restore-or-adopt"
  ELSE IF workingTree = "expected" THEN "commit-in-git"
  ELSE IF workingTree = "absent" THEN "establish-ownership"
  ELSE IF owner = "named-sibling" THEN "wait-for-named-owner"
  ELSE IF writer # "current" /\ owner # "current"
       THEN IF owner = "reachable-unowned" THEN "inspect-reachable-history"
                                           ELSE "await-owner-commit"
  ELSE "restore-or-adopt"

Scope(remedy) ==
  IF remedy \in {"restore-or-adopt", "commit-in-git"} THEN "global" ELSE "target"

\* A finding on item i blocks a command that names `target`; verification of
\* the whole ledger names none.
BlocksTarget(scope, i, target, none) ==
  scope = "global" \/ (scope = "target" /\ (target = none \/ target = i))
=============================================================================
