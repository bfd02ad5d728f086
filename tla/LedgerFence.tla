----------------------------- MODULE LedgerFence -----------------------------
(***************************************************************************)
(* Legacy mutations (create, and the ones that rewrite an existing item)   *)
(* on a provisioned ledger with several worktrees of one repository:       *)
(* withLegacyMutationFence of claim-coordinator.js around the mutation     *)
(* engine of mutation.js, and reconcileClaimJournal of                     *)
(* claim-publication.js, on a ledger where nobody claims an item.          *)
(*                                                                         *)
(* The journal is in the Git common directory and shared; every worktree   *)
(* has its own working tree and its own HEAD.  Fenced commands exclude     *)
(* each other through the namespace lock (module ClaimLock), so one        *)
(* command is in flight at a time; Git commands, edits made without        *)
(* Wowbagger and crashes interleave with its steps.                        *)
(*                                                                         *)
(* An item's revision is the digest of its bytes, so it is modelled by the *)
(* content: the item's number, which no command changes, and a body.  Two  *)
(* attempts may produce the same content, and content may recur.           *)
(***************************************************************************)
EXTENDS Reconciliation, FiniteSets

CONSTANTS
  Worktree,     \* the worktrees of one repository
  Item,         \* item identities
  Body,         \* what distinguishes contents of one item
  NoOp,         \* no command is inside the namespace lock
  Named,        \* the worktrees with a branch checked out; the others are detached
  CreatesMayEndUnknown,  \* may a create die, or its item be edited, before it ends?
  MaxEntries,   \* bound: journal entries
  MaxCrashes,   \* bound: commands that die inside the lock
  MaxEdits      \* bound: edits made without Wowbagger

\* The bytes of an item: the number they carry, and the rest.
Content == [num : Nat, body : Body]

\* What the command inside the lock holds on to.
Command == [wt : Worktree, item : Item, create : BOOLEAN,
            phase : {"fenced", "authorized", "published", "failed", "verified"},
            witness : Content \cup {Absent}, candidate : Content \cup {Absent}, att : Nat]

ASSUME FenceAssumption ==
  /\ Named \subseteq Worktree
  /\ CreatesMayEndUnknown \in BOOLEAN
  /\ Absent \notin Content /\ NoOp \notin Command
  /\ MaxEntries \in Nat /\ MaxCrashes \in Nat /\ MaxEdits \in Nat

VARIABLES
  journal,   \* the claim journal of the repository
  tree,      \* tree[w][i]: content of item i in the working tree of w, or Absent
  head,      \* head[w][i]: content of item i at the HEAD of w, or Absent
  history,   \* history[w]: the <<item, content>> pairs the HEAD of w reaches
  op,        \* the command inside the namespace lock
  crashes, edits

vars == <<journal, tree, head, history, op, crashes, edits>>

Init ==
  /\ journal = <<>>
  /\ tree = [w \in Worktree |-> [i \in Item |-> Absent]]
  /\ head = tree
  /\ history = [w \in Worktree |-> {}]
  /\ op = NoOp
  /\ crashes = 0
  /\ edits = 0

-----------------------------------------------------------------------------
(* What a command sees.                                                    *)

Present(t) == {i \in Item : t[i] # Absent}

\* A valid ledger carries every number once (duplicate-number, validate.js).
ValidLedger(t) == \A a, b \in Present(t) : t[a].num = t[b].num => a = b

NextItemNumber(t) ==
  IF Present(t) = {} THEN 1 ELSE 1 + Max({t[i].num : i \in Present(t)})

\* findRevisionOwner: this history first, then branches, then detached HEADs.
RevisionOwner(w, i, revision) ==
  LET carriers == {v \in Worktree : <<i, revision>> \in history[v]}
  IN  IF w \in carriers THEN "current"
      ELSE IF carriers \cap Named # {} THEN "named-sibling"
      ELSE IF carriers # {} THEN "reachable-unowned"
      ELSE "unreachable"

ExpectedWriter(j, w, i) ==
  LET writer == RecordedWriter(j, i, NoOp)
  IN  IF writer = NoOp THEN "unknown" ELSE IF writer = w THEN "current" ELSE "other"

\* Mutated: only HEAD is compared with the journal.
DriftedAtHead(j, w) == {i \in CoordinatedItems(j) : head[w][i] \notin AuthorizedRevisions(j, i)}

\* A coordinated item drifted when the checkout does not hold the authorized
\* revision, or HEAD holds bytes no ruling covers.
Drifted(j, w) ==
  {i \in CoordinatedItems(j) :
     \/ tree[w][i] # ExpectedRevision(j, i)
     \/ head[w][i] \notin AuthorizedRevisions(j, i)}

FindingScope(j, w, i) ==
  LET expected   == ExpectedRevision(j, i)
      authorized == AuthorizedRevisions(j, i)
  IN  Scope(Remedy(NormalizeRevision(tree[w][i], expected, authorized),
                   NormalizeRevision(head[w][i], expected, authorized),
                   RevisionOwner(w, i, expected),
                   ExpectedWriter(j, w, i)))

\* Mutated: an attempt this checkout cannot rule on is passed over.
UnsafeByDriftOnly(j, w, target) ==
  \E i \in Drifted(j, w) : BlocksTarget(FindingScope(j, w, i), i, target, NoOp)

\* Reconciliation refuses a command of worktree w that targets item i.
Unsafe(j, w, target) ==
  \/ UnresolvedAttempts(j, tree[w]) # {}
  \/ \E i \in Drifted(j, w) : BlocksTarget(FindingScope(j, w, i), i, target, NoOp)

\* Mutated: no create barrier.
NoMissingItems(j, w) == {}

\* The create barrier: an item whose number this checkout cannot read.
MissingCoordinatedItems(j, w) == {i \in CoordinatedItems(j) : tree[w][i] = Absent}

-----------------------------------------------------------------------------
(* A legacy mutation, from reconciliation to its terminal.                 *)

\* Reconcile under the lock; go on only when nothing blocks the target.
Begin(w, i, create) ==
  LET j == Resolved(journal, tree[w])
  IN  /\ op = NoOp
      /\ Len(j) + 2 <= MaxEntries
      /\ journal' = j
      /\ op' = IF Unsafe(j, w, i) \/ (create /\ MissingCoordinatedItems(j, w) # {})
               THEN NoOp
               ELSE [wt |-> w, item |-> i, create |-> create, phase |-> "fenced",
                     witness |-> tree[w][i], candidate |-> Absent, att |-> 0]
      /\ UNCHANGED <<tree, head, history, crashes, edits>>

\* A refusal before the intent: the engine returns `unchanged`, nothing is recorded.
Refuse ==
  /\ op # NoOp
  /\ op.phase = "fenced"
  /\ \/ ~ ValidLedger(tree[op.wt])
     \/ op.create # (tree[op.wt][op.item] = Absent)
     \/ tree[op.wt][op.item] # op.witness
  /\ op' = NoOp
  /\ UNCHANGED <<journal, tree, head, history, crashes, edits>>

\* The candidate is built from the bytes under the item locks and its intent is
\* appended before any byte reaches the ledger.
Authorize(body) ==
  /\ op # NoOp
  /\ op.phase = "fenced"
  /\ ValidLedger(tree[op.wt])
  /\ tree[op.wt][op.item] = op.witness
  /\ op.create <=> op.witness = Absent
  /\ LET candidate == IF op.create
                      THEN [num |-> NextItemNumber(tree[op.wt]), body |-> body]
                      ELSE [op.witness EXCEPT !.body = body]
         intent == [type |-> "intent", item |-> op.item, att |-> Len(journal) + 1,
                    expected |-> op.witness, revision |-> candidate,
                    writer |-> op.wt, create |-> op.create]
     IN  /\ candidate # op.witness
         /\ journal' = Append(journal, intent)
         /\ op' = [op EXCEPT !.phase = "authorized", !.candidate = candidate,
                             !.att = intent.att]
  /\ UNCHANGED <<tree, head, history, crashes, edits>>

\* link(2) without clobbering for a create, rename(2) for the others.
Publish ==
  /\ op # NoOp
  /\ op.phase = "authorized"
  /\ tree' = [tree EXCEPT ![op.wt][op.item] = op.candidate]
  /\ op' = [op EXCEPT !.phase = "published"]
  /\ UNCHANGED <<journal, head, history, crashes, edits>>

\* The temporary or the publication failed and the original bytes are there.
PublishFails ==
  /\ op # NoOp
  /\ op.phase = "authorized"
  /\ op' = [op EXCEPT !.phase = "failed"]
  /\ UNCHANGED <<journal, tree, head, history, crashes, edits>>

\* The final path is read back: other bytes leave the outcome unknown, with no terminal.
Verify ==
  /\ op # NoOp
  /\ op.phase = "published"
  /\ op' = IF tree[op.wt][op.item] = op.candidate
           THEN [op EXCEPT !.phase = "verified"]
           ELSE NoOp
  /\ UNCHANGED <<journal, tree, head, history, crashes, edits>>

\* The attempt's terminal, and the lock is left.
Record ==
  /\ op # NoOp
  /\ op.phase \in {"verified", "failed"}
  /\ journal' = Append(journal,
       Resolution(journal[op.att], IF op.phase = "verified" THEN "legacy" ELSE "abort"))
  /\ op' = NoOp
  /\ UNCHANGED <<tree, head, history, crashes, edits>>

\* The process dies inside the lock: whatever it appended and wrote stays.
Crash ==
  /\ op # NoOp
  /\ op.create => CreatesMayEndUnknown
  /\ crashes < MaxCrashes
  /\ crashes' = crashes + 1
  /\ op' = NoOp
  /\ UNCHANGED <<journal, tree, head, history, edits>>

-----------------------------------------------------------------------------
(* The other commands, Git, and writers that bypass Wowbagger.             *)

\* claim-verify: it resolves pending attempts and changes nothing else.
ClaimVerify(w) ==
  /\ op = NoOp
  /\ journal' = Resolved(journal, tree[w])
  /\ UNCHANGED <<tree, head, history, op, crashes, edits>>

\* claim-adopt: re-baselines an item onto bytes committed in this worktree.
Adopt(w, i) ==
  LET j == Resolved(journal, tree[w])
  IN  /\ op = NoOp
      /\ Len(j) + 1 <= MaxEntries
      /\ AuthorizingEntries(j, i) # {}
      /\ tree[w][i] # Absent
      /\ tree[w][i] = head[w][i]
      /\ ValidLedger(tree[w])
      /\ ExpectedRevision(j, i) # tree[w][i]
      /\ journal' = Append(j, [type |-> "adoption", item |-> i,
                               from |-> ExpectedRevision(j, i), revision |-> tree[w][i]])
      /\ UNCHANGED <<tree, head, history, op, crashes, edits>>

GitCommit(w, i) ==
  /\ head[w][i] # tree[w][i]
  /\ head' = [head EXCEPT ![w][i] = tree[w][i]]
  /\ history' = [history EXCEPT ![w] = @ \cup {<<i, tree[w][i]>>}]
  /\ UNCHANGED <<journal, tree, op, crashes, edits>>

\* What a merge of v into w may leave for one item: the newer side, or either
\* side of a conflict, as whoever resolves it decides.
Merges(w, v, i) ==
  LET wBehind == head[w][i] = Absent \/ <<i, head[w][i]>> \in history[v]
      vBehind == head[v][i] = Absent \/ <<i, head[v][i]>> \in history[w]
  IN  IF wBehind /\ ~vBehind THEN {head[v][i]}
      ELSE IF vBehind /\ ~wBehind THEN {head[w][i]}
      ELSE {head[w][i], head[v][i]} \ (IF head[w][i] = head[v][i] THEN {} ELSE {Absent})

GitMerge(w, v) ==
  /\ tree[w] = head[w]
  /\ history[v] \ history[w] # {}
  /\ \E merged \in [Item -> UNION {Merges(w, v, i) : i \in Item}] :
       /\ \A i \in Item : merged[i] \in Merges(w, v, i)
       /\ head' = [head EXCEPT ![w] = merged]
       /\ tree' = [tree EXCEPT ![w] = merged]
       /\ history' = [history EXCEPT ![w] = @ \cup history[v]]
  /\ UNCHANGED <<journal, op, crashes, edits>>

\* An editor, or a script, rewrites an item's body.
ForeignEdit(w, i, body) ==
  /\ edits < MaxEdits
  /\ (op # NoOp /\ op.create) => CreatesMayEndUnknown
  /\ tree[w][i] # Absent
  /\ tree[w][i].body # body
  /\ edits' = edits + 1
  /\ tree' = [tree EXCEPT ![w][i].body = body]
  /\ UNCHANGED <<journal, head, history, op, crashes>>

\* `git restore` of one item.
Restore(w, i) ==
  /\ tree[w][i] # head[w][i]
  /\ head[w][i] # Absent
  /\ tree' = [tree EXCEPT ![w][i] = head[w][i]]
  /\ UNCHANGED <<journal, head, history, op, crashes, edits>>

Mutation ==
  \/ \E w \in Worktree, i \in Item, create \in BOOLEAN : Begin(w, i, create)
  \/ \E body \in Body : Authorize(body)
  \/ Refuse \/ Publish \/ PublishFails \/ Verify \/ Record

Next ==
  \/ Mutation
  \/ Crash
  \/ \E w \in Worktree : ClaimVerify(w)
  \/ \E w \in Worktree, i \in Item : Adopt(w, i) \/ GitCommit(w, i) \/ Restore(w, i)
  \/ \E w, v \in Worktree : GitMerge(w, v)
  \/ \E w \in Worktree, i \in Item, body \in Body : ForeignEdit(w, i, body)

Spec == Init /\ [][Next]_vars

-----------------------------------------------------------------------------
(* Properties.                                                             *)

\* At most one attempt waits for its terminal, whoever died holding it: an
\* attempt a checkout cannot rule on refuses every further mutation there.
AtMostOnePendingAttempt == Cardinality(PendingAttempts(journal)) <= 1

\* Where the change an authorizing entry rules on was decided: at its intent, or
\* at the adoption itself; and the revision it was decided over.
Decided(j, k) ==
  IF j[k].type = "adoption" THEN k
  ELSE CHOOSE n \in 1..Len(j) : j[n].type = "intent" /\ j[n].att = j[k].att

Predecessor(j, k) ==
  IF j[k].type = "adoption" THEN j[k].from ELSE j[Decided(j, k)].expected

\* No lost update across worktrees: once the journal ruled on an item, every
\* later change of it, whichever worktree it comes from and even when another
\* worktree resolved the attempt of a dead writer, was decided over the latest
\* ruling, and no other mutation of the item was ruled on between its intent
\* and its terminal.  (The first ruling may start from bytes the journal never
\* saw; an operator may adopt while an attempt is pending.)
AuthorizedChain ==
  \A i \in Item : \A k \in AuthorizingEntries(journal, i) :
    LET before == SubSeq(journal, 1, Decided(journal, k) - 1)
    IN  /\ AuthorizingEntries(before, i) # {} =>
             Predecessor(journal, k) = ExpectedRevision(before, i)
        /\ \A n \in AuthorizingEntries(journal, i) :
             n > Decided(journal, k) /\ n < k => journal[n].type = "adoption"

\* Cooperating worktrees never hold two items with one number, committed or not:
\* "can no longer commit two items carrying the same number"
\* (work-claim-contract.md:514-519).
NumbersUnique ==
  \A v, w \in Worktree : \A a \in Present(tree[v]), b \in Present(tree[w]) :
     tree[v][a].num = tree[w][b].num => a = b
=============================================================================
