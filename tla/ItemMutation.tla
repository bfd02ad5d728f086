---------------------------- MODULE ItemMutation ----------------------------
(***************************************************************************)
(* create, transition, patch and parent-migrate of mutation.js on a ledger *)
(* without claim coordination: nothing but the lock files of the items     *)
(* keeps two processes apart.  A command reads the ledger, locks the items *)
(* its decision depends on, reads the ledger again, decides, publishes the *)
(* one item and removes its locks.  A lock that a dead process left is     *)
(* never broken: whoever needs it is refused until somebody removes it.    *)
(*                                                                         *)
(* snooze and the patches of other fields lock and write as the patch that *)
(* leaves `deps` as it is.  A revision is the content of the item.         *)
(***************************************************************************)
EXTENDS AtomicMutation

CONSTANTS
  Process,      \* the command-line processes
  Free,         \* there is no such lock file
  Orphan,       \* the writer of the lock file died
  NoRequest,    \* the process runs no command
  StartLedgers, \* the ledgers to start from
  MaxRetries,   \* MAX_LOCK_CLOSURE_RETRIES
  MaxCommands,  \* bound: commands started
  MaxCrashes    \* bound: processes that die or fail to remove a lock

ASSUME MutationAssumption ==
  /\ Free \notin Process /\ Orphan \notin Process /\ Free # Orphan
  /\ StartLedgers \subseteq {L \in [ItemId -> Item \cup {NoItem}] : ValidLedger(L)}
  /\ MaxRetries \in Nat \ {0} /\ MaxCommands \in Nat /\ MaxCrashes \in Nat

\* The lock of the number index; its name sorts before every item's.
NumberIndex == 0

LockName == ItemId \cup {NumberIndex}

VARIABLES
  lock,      \* lock[n]: who wrote the lock file n, Free or Orphan
  pc,        \* pc[p]: where process p is
  request,   \* request[p]: its request
  expected,  \* expected[p]: the revision the request expects
  wanted,    \* wanted[p]: the locks its unlocked read calls for
  tries,     \* tries[p]: lock closures it has given up
  proposal,  \* proposal[p]: the bytes it is about to publish
  outcome,   \* outcome[p]: the mutation state it will answer
  commands, crashes

vars == <<ledger, lock, pc, request, expected, wanted, tries, proposal, outcome,
          commands, crashes>>

Init ==
  /\ ledger \in StartLedgers
  /\ lock = [n \in LockName |-> Free]
  /\ pc = [p \in Process |-> "idle"]
  /\ request = [p \in Process |-> NoRequest]
  /\ expected = [p \in Process |-> NoItem]
  /\ wanted = [p \in Process |-> {}]
  /\ tries = [p \in Process |-> 0]
  /\ proposal = [p \in Process |-> NoItem]
  /\ outcome = [p \in Process |-> "none"]
  /\ commands = 0
  /\ crashes = 0

Held(p) == {n \in LockName : lock[n] = p}

-----------------------------------------------------------------------------
(* Lock closures.                                                          *)

\* Mutated: a create does not lock the items it refers to.
LockIdsForCreateAlone(r, L) == {r.id, NumberIndex}

\* Mutated: a create does not lock the number index.
LockIdsForCreateUnnumbered(r, L) == {r.id} \cup ((r.deps \cup {r.parent}) \cap Items(L))

LockIdsForCreate(r, L) ==
  {r.id, NumberIndex} \cup ((r.deps \cup {r.parent}) \cap Items(L))

LockIdsForTransition(i, L) ==
  {i} \cup ({L[i].parent} \cap ItemId) \cup L[i].deps \cup Dependents(L, i)
      \cup (IF Kind[i] = "epic" THEN Children(L, i) ELSE {})

LockIds(r, L) ==
  IF r.op = "create" THEN LockIdsForCreate(r, L)
  ELSE IF r.op = "transition" THEN LockIdsForTransition(r.id, L)
  ELSE {r.id}

-----------------------------------------------------------------------------
(* The steps of a command.                                                 *)

Goto(p, label) == pc' = [pc EXCEPT ![p] = label]

\* A client asks for r, having inspected the item.
Start(p) ==
  /\ pc[p] = "idle"
  /\ commands < MaxCommands
  /\ \E r \in Requests :
       /\ request' = [request EXCEPT ![p] = r]
       /\ expected' = [expected EXCEPT ![p] = IF r.op = "create" THEN NoItem ELSE ledger[r.id]]
  /\ commands' = commands + 1
  /\ Goto(p, "read")
  /\ UNCHANGED <<ledger, lock, wanted, tries, proposal, outcome, crashes>>

\* There is a valid ledger to decide about, and it holds the target.
Answerable(r, L) == ValidLedger(L) /\ (r.op = "create" \/ r.id \in Items(L))

\* The unlocked read, for the lock closure.
Read(p) ==
  /\ pc[p] = "read"
  /\ Answerable(request[p], ledger)
  /\ wanted' = [wanted EXCEPT ![p] = LockIds(request[p], ledger)]
  /\ Goto(p, "lock")
  /\ UNCHANGED <<ledger, lock, request, expected, tries, proposal, outcome, commands, crashes>>

RefuseUnlocked(p) ==
  /\ pc[p] = "read"
  /\ ~ Answerable(request[p], ledger)
  /\ outcome' = [outcome EXCEPT ![p] = "unchanged"]
  /\ Goto(p, "release")
  /\ UNCHANGED <<ledger, lock, request, expected, wanted, tries, proposal, commands, crashes>>

\* The next lock of the closure, in ascending order.
NextLock(p) ==
  LET Missing == wanted[p] \ Held(p)
  IN  CHOOSE n \in Missing : \A m \in Missing : n <= m

AcquireLock(p) ==
  /\ pc[p] = "lock"
  /\ ~ wanted[p] \subseteq Held(p)
  /\ lock[NextLock(p)] = Free
  /\ lock' = [lock EXCEPT ![NextLock(p)] = p]
  /\ UNCHANGED <<ledger, pc, request, expected, wanted, tries, proposal, outcome, commands, crashes>>

\* EEXIST: lock-held, whoever wrote the file and whether or not it lives.
LockHeld(p) ==
  /\ pc[p] = "lock"
  /\ ~ wanted[p] \subseteq Held(p)
  /\ lock[NextLock(p)] # Free
  /\ outcome' = [outcome EXCEPT ![p] = "unchanged"]
  /\ Goto(p, "release")
  /\ UNCHANGED <<ledger, lock, request, expected, wanted, tries, proposal, commands, crashes>>

Locked(p) == pc[p] = "lock" /\ wanted[p] \subseteq Held(p)

\* The read under the locks calls for other locks.
ClosureChanged(p) ==
  /\ Locked(p)
  /\ Answerable(request[p], ledger)
  /\ LockIds(request[p], ledger) # wanted[p]
  /\ Goto(p, "retry")
  /\ UNCHANGED <<ledger, lock, request, expected, wanted, tries, proposal, outcome, commands, crashes>>

\* Mutated: the expected revision is not compared with the item's.
AuthorizedBlindly(p) == Accepts(request[p], ledger)

\* The compare-and-swap, the preconditions and the candidate's validation.
Authorized(p) ==
  /\ request[p].op # "create" => ledger[request[p].id] = expected[p]
  /\ Accepts(request[p], ledger)

RefuseLocked(p) ==
  /\ Locked(p)
  /\ Answerable(request[p], ledger) => LockIds(request[p], ledger) = wanted[p] /\ ~ Authorized(p)
  /\ outcome' = [outcome EXCEPT ![p] = "unchanged"]
  /\ Goto(p, "release")
  /\ UNCHANGED <<ledger, lock, request, expected, wanted, tries, proposal, commands, crashes>>

Decide(p) ==
  /\ Locked(p)
  /\ Answerable(request[p], ledger)
  /\ LockIds(request[p], ledger) = wanted[p]
  /\ Authorized(p)
  /\ proposal' = [proposal EXCEPT ![p] = Proposed(request[p], ledger)]
  /\ Goto(p, "publish")
  /\ UNCHANGED <<ledger, lock, request, expected, wanted, tries, outcome, commands, crashes>>

\* rename(2) over the item, or link(2), which refuses an existing name.
Publish(p) ==
  /\ pc[p] = "publish"
  /\ request[p].op = "create" => request[p].id \notin Items(ledger)
  /\ ledger' = [ledger EXCEPT ![request[p].id] = proposal[p]]
  /\ Goto(p, "verify")
  /\ UNCHANGED <<lock, request, expected, wanted, tries, proposal, outcome, commands, crashes>>

\* The temporary file, the rename or the link fails and left the item alone.
PublishFails(p) ==
  /\ pc[p] = "publish"
  /\ outcome' = [outcome EXCEPT ![p] =
       IF request[p].op = "create" /\ request[p].id \in Items(ledger)
       THEN "unknown" ELSE "unchanged"]
  /\ Goto(p, "release")
  /\ UNCHANGED <<ledger, lock, request, expected, wanted, tries, proposal, commands, crashes>>

\* What was published is read back.
Verify(p) ==
  /\ pc[p] = "verify"
  /\ outcome' = [outcome EXCEPT ![p] =
       IF ledger[request[p].id] = proposal[p] THEN "committed" ELSE "unknown"]
  /\ Goto(p, "release")
  /\ UNCHANGED <<ledger, lock, request, expected, wanted, tries, proposal, commands, crashes>>

\* Mutated: the locks are given back before the rename.
ReleaseLockEarly(p) ==
  /\ pc[p] \in {"publish", "release", "retry"}
  /\ \E n \in Held(p) : lock' = [lock EXCEPT ![n] = Free]
  /\ UNCHANGED <<ledger, pc, request, expected, wanted, tries, proposal, outcome, commands, crashes>>

\* The locks are unlinked, in no particular order.
ReleaseLock(p) ==
  /\ pc[p] \in {"release", "retry"}
  /\ \E n \in Held(p) : lock' = [lock EXCEPT ![n] = Free]
  /\ UNCHANGED <<ledger, pc, request, expected, wanted, tries, proposal, outcome, commands, crashes>>

\* After a changed closure: from the unlocked read again, a bounded number of times.
Retry(p) ==
  /\ pc[p] = "retry"
  /\ Held(p) = {}
  /\ tries' = [tries EXCEPT ![p] = @ + 1]
  /\ wanted' = [wanted EXCEPT ![p] = {}]
  /\ IF tries[p] + 1 < MaxRetries
     THEN Goto(p, "read") /\ UNCHANGED outcome
     ELSE Goto(p, "release") /\ outcome' = [outcome EXCEPT ![p] = "unchanged"]
  /\ UNCHANGED <<ledger, lock, request, expected, proposal, commands, crashes>>

Forget(p) ==
  /\ request' = [request EXCEPT ![p] = NoRequest]
  /\ expected' = [expected EXCEPT ![p] = NoItem]
  /\ wanted' = [wanted EXCEPT ![p] = {}]
  /\ tries' = [tries EXCEPT ![p] = 0]
  /\ proposal' = [proposal EXCEPT ![p] = NoItem]
  /\ outcome' = [outcome EXCEPT ![p] = "none"]
  /\ Goto(p, "idle")

Answer(p) ==
  /\ pc[p] = "release"
  /\ Held(p) = {}
  /\ Forget(p)
  /\ UNCHANGED <<ledger, lock, commands, crashes>>

\* The process dies, or cannot unlink its locks: they stay.
Crash(p) ==
  /\ pc[p] # "idle"
  /\ crashes < MaxCrashes
  /\ crashes' = crashes + 1
  /\ lock' = [n \in LockName |-> IF lock[n] = p THEN Orphan ELSE lock[n]]
  /\ Forget(p)
  /\ UNCHANGED <<ledger, commands>>

Step(p) ==
  \/ Read(p) \/ RefuseUnlocked(p)
  \/ AcquireLock(p) \/ LockHeld(p)
  \/ ClosureChanged(p) \/ RefuseLocked(p) \/ Decide(p)
  \/ Publish(p) \/ PublishFails(p) \/ Verify(p)
  \/ ReleaseLock(p) \/ Retry(p) \/ Answer(p)

Next == \E p \in Process : Start(p) \/ Step(p) \/ Crash(p)

Spec == Init /\ [][Next]_vars

-----------------------------------------------------------------------------
(* Properties.                                                             *)

\* No interleaving of commands publishes a ledger that validation rejects
\* (dangling or dead dependencies, live children of closed epics, a rollup that
\* is not the epic's children, a number used twice): every candidate was validated
\* against a ledger another command may be about to change.
LedgerStaysValid == ValidLedger(ledger)

\* The read after the publication finds the published bytes: no command ends
\* with an unknown outcome because of another one.
OutcomesAreKnown == \A p \in Process : outcome[p] # "unknown"

\* A publication replaces the revision the client expected and no other.
NoLostUpdate ==
  [][\A i \in ItemId : ledger'[i] # ledger[i] =>
       \E p \in Process :
         pc[p] = "publish" /\ request[p].id = i /\ ledger[i] = expected[p]]_vars

\* The commands implement the atomic ones.
ImplementsAtomic == AtomicSpec
=============================================================================
