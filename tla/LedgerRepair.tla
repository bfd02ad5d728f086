---------------------------- MODULE LedgerRepair ----------------------------
(***************************************************************************)
(* ledger-repair.js: `number-repair`, which gives new numbers to the items *)
(* of an otherwise valid ledger that share one.  It stages the new bytes,  *)
(* records an intent in the claim journal, replaces the items one by one,  *)
(* validates, and records a final; a repair that died in between is taken  *)
(* up from the intent and the staged bytes by the next call with its       *)
(* repair_id.  The namespace lock keeps two repairs apart, and keeps no    *)
(* editor, merge or checkout away from the items.                          *)
(*                                                                         *)
(* An item is named by its id, of which only the order matters; its bytes  *)
(* are its number and the rest of it.  A load of the ledger is one step.   *)
(* A repair that commits (`--auto-commit`) is not modelled here.           *)
(***************************************************************************)
EXTENDS Naturals, Sequences, FiniteSets, FiniteSetsExt

CONSTANTS
  Item,          \* the ids, in ULID order
  Number,        \* the numbers that are used
  StartNumbers,  \* the numberings the ledger may have at first
  Repair,        \* repair ids
  Proc,          \* processes
  RepairOf,      \* RepairOf[p]: the repair p is called with
  None,          \* nothing: no holder, no request, no staging
  Gone,          \* what an item holds whose file is removed
  MaxCrashes,    \* bound: processes that die, or whose append fails
  MaxEdits       \* bound: steps of people and tools that take no lock

ASSUME RepairAssumption ==
  /\ Item \subseteq Nat /\ IsFiniteSet(Item)
  /\ Number \subseteq Nat \ {0}
  /\ StartNumbers \subseteq [Item -> Number]
  /\ RepairOf \in [Proc -> Repair]
  /\ None \notin Proc
  /\ MaxCrashes \in Nat /\ MaxEdits \in Nat

VARIABLES
  items,     \* items[i]: [number, rest], or Gone
  asked,     \* asked[r]: the request with repair_id r: [snapshot, to], or None
  staging,   \* staging[r]: the staged candidates, item by item, or None
  journal,   \* the repair entries of the claim journal
  lock,      \* the process that holds the namespace lock, or None
  proc,      \* proc[p]: where the call of p is
  fresh,     \* history: the items edited since the lock was taken
  crashes, edits

vars == <<items, asked, staging, journal, lock, proc, fresh, crashes, edits>>

Idle == [at |-> "idle"]

Init ==
  /\ \E f \in StartNumbers : items = [i \in Item |-> [number |-> f[i], rest |-> "own"]]
  /\ asked = [r \in Repair |-> None]
  /\ staging = [r \in Repair |-> None]
  /\ journal = <<>>
  /\ lock = None
  /\ proc = [p \in Proc |-> Idle]
  /\ fresh = {}
  /\ crashes = 0 /\ edits = 0

-----------------------------------------------------------------------------
(* The ledger and the request.                                             *)

Present(L) == {i \in Item : L[i] # Gone}
HoldersOf(L, n) == {i \in Present(L) : L[i].number = n}

InUse(L) == {L[i].number : i \in Present(L)}

\* validateLedger, for the numbers: they are unique.
Valid(L) == \A n \in Number : Cardinality(HoldersOf(L, n)) <= 1

\* Every item of a group that shares a number moves, except its smallest id.
Movable(L) ==
  {i \in Present(L) : \E k \in Present(L) : k < i /\ L[k].number = L[i].number}

\* numberRepairProposal: the numbers after the highest one, in id order.
Suggested(L) ==
  [i \in Movable(L) |-> Max(InUse(L))
                        + Cardinality({k \in Movable(L) : k <= i})]

\* A request names a change, and no number twice.
WellFormed(to) == DOMAIN to # {} /\ \A i, k \in DOMAIN to : i # k => to[i] # to[k]

\* ledgerSnapshotRevision: the paths and the bytes of what is there.
SnapshotRevision(L) == {<<i, L[i]>> : i \in Present(L)}

\* The map from numbers to items keeps the last item it is given.
Collides(L, to) ==
  \/ \E i, k \in DOMAIN to : i # k /\ to[i] = to[k]
  \/ \E i \in DOMAIN to :
       /\ HoldersOf(L, to[i]) # {}
       /\ LET owner == Max(HoldersOf(L, to[i]))
          IN  owner = i \/ owner \notin DOMAIN to

\* Only the number scalar of a moved item is rewritten.
Candidates(L, to) == [i \in DOMAIN to |-> [L[i] EXCEPT !.number = to[i]]]
Successor(L, C) == [i \in Item |-> IF i \in DOMAIN C THEN C[i] ELSE L[i]]

-----------------------------------------------------------------------------
(* The journal.                                                            *)

Intents(r) == {k \in 1..Len(journal) : journal[k].type = "intent" /\ journal[k].repair = r}
Finals(r) == {k \in 1..Len(journal) : journal[k].type = "final" /\ journal[k].repair = r}
Intent(r) == journal[Min(Intents(r))]

\* validRepairResolution: a repair has one intent, and after it one final at most.
\* Whoever reads the journal fails otherwise, and so does who appends to it.
Readable ==
  \A r \in Repair :
    /\ Cardinality(Intents(r)) <= 1
    /\ Cardinality(Finals(r)) <= 1
    /\ \A k \in Finals(r) : \E n \in Intents(r) : n < k

-----------------------------------------------------------------------------
(* A call.                                                                 *)

Goto(p, at) == proc' = [proc EXCEPT ![p].at = at]

Answer(p, state) == proc' = [proc EXCEPT ![p].at = "done", ![p].state = state]

\* The answer, and the end of the critical section.
Leave(p, state) == Answer(p, state) /\ lock' = None

\* What may be asked for: the proposal, part of it, or the proposal with one number
\* changed.
Requests(L) ==
  {[i \in M |-> Suggested(L)[i]] : M \in SUBSET Movable(L) \ {{}}}
    \cup {[Suggested(L) EXCEPT ![i] = n] :
            i \in Movable(L), n \in InUse(L) \cup {Suggested(L)[k] : k \in Movable(L)}}

\* Somebody asks; the witnesses are those of the ledger the proposal was made from.
Ask(r) ==
  /\ asked[r] = None
  /\ Movable(items) # {}
  /\ \E to \in Requests(items) : asked' = [asked EXCEPT ![r] = [snapshot |-> items, to |-> to]]
  /\ UNCHANGED <<items, staging, journal, lock, proc, fresh, crashes, edits>>

\* recoverPendingRepair: the journal is read before the lock is taken.
Begin(p) ==
  LET r == RepairOf[p]
      refused == ~ WellFormed(asked[r].to)
      call == [at |-> "check", todo |-> {}, seen |-> None, wrote |-> FALSE, state |-> None]
  IN  /\ proc[p] = Idle
      /\ asked[r] # None
      /\ proc' = [proc EXCEPT ![p] =
           IF refused THEN [call EXCEPT !.at = "done", !.state = "unchanged"]
           ELSE IF ~ Readable THEN [call EXCEPT !.at = "done", !.state = "error"]
           ELSE IF Intents(r) = {} THEN call
           ELSE IF Finals(r) = {} THEN [call EXCEPT !.at = "recover-lock"]
           ELSE [call EXCEPT !.at = "done", !.state = "committed"]]
      /\ UNCHANGED <<items, asked, staging, journal, lock, fresh, crashes, edits>>

\* The checks of numberRepair that need no lock.
Check(p) ==
  LET request == asked[RepairOf[p]]
  IN  /\ proc[p].at = "check"
      /\ IF /\ ~ Valid(items)
            /\ SnapshotRevision(items) = SnapshotRevision(request.snapshot)
            /\ DOMAIN request.to = Movable(items)
            /\ ~ Collides(items, request.to)
         THEN Goto(p, "lock")
         ELSE Answer(p, "unchanged")
      /\ UNCHANGED <<items, asked, staging, journal, lock, fresh, crashes, edits>>

\* A held lock refuses.
Enter(p) ==
  /\ proc[p].at \in {"lock", "recover-lock"}
  /\ IF lock = None
     THEN /\ lock' = p
          /\ fresh' = {}
          /\ Goto(p, IF proc[p].at = "lock" THEN "reread" ELSE "recover")
     ELSE Answer(p, "lock-held") /\ UNCHANGED <<lock, fresh>>
  /\ UNCHANGED <<items, asked, staging, journal, crashes, edits>>

\* Mutated: the successor is not validated before it is published.
RereadHopeful(p) ==
  LET r == RepairOf[p]
  IN  /\ proc[p].at = "reread"
      /\ CASE ~ Readable -> Leave(p, "error")
           [] Readable /\ Finals(r) # {} -> Leave(p, "committed")
           [] Readable /\ Finals(r) = {} /\ Intents(r) # {} -> Goto(p, "recover") /\ UNCHANGED lock
           [] OTHER -> IF items = asked[r].snapshot
                       THEN Goto(p, "stage") /\ UNCHANGED lock
                       ELSE Leave(p, "unchanged")
      /\ UNCHANGED <<items, asked, staging, journal, fresh, crashes, edits>>

\* Under the lock the journal and the ledger are read again.
Reread(p) ==
  LET r == RepairOf[p]
  IN  /\ proc[p].at = "reread"
      /\ CASE ~ Readable -> Leave(p, "error")
           [] Readable /\ Finals(r) # {} -> Leave(p, "committed")
           [] Readable /\ Finals(r) = {} /\ Intents(r) # {} -> Goto(p, "recover") /\ UNCHANGED lock
           [] OTHER -> IF /\ SnapshotRevision(items) = SnapshotRevision(asked[r].snapshot)
                          /\ Valid(Successor(items, Candidates(items, asked[r].to)))
                       THEN Goto(p, "stage") /\ UNCHANGED lock
                       ELSE Leave(p, "unchanged")
      /\ UNCHANGED <<items, asked, staging, journal, fresh, crashes, edits>>

\* stageNumberRepairCandidates: a staging directory that exists already, left by
\* a call that died before its intent, is an error, now and for ever.
Stage(p) ==
  LET r == RepairOf[p]
  IN  /\ proc[p].at = "stage"
      /\ IF staging[r] # None
         THEN Leave(p, "error") /\ UNCHANGED staging
         ELSE /\ staging' = [staging EXCEPT ![r] = Candidates(asked[r].snapshot, asked[r].to)]
              /\ Goto(p, "intent")
              /\ UNCHANGED lock
      /\ UNCHANGED <<items, asked, journal, fresh, crashes, edits>>

AppendIntent(p) ==
  LET r == RepairOf[p]
  IN  /\ proc[p].at = "intent"
      /\ journal' = Append(journal, [type |-> "intent", repair |-> r,
                                     expected |-> asked[r].snapshot, candidate |-> staging[r]])
      /\ proc' = [proc EXCEPT ![p].at = "replace", ![p].todo = DOMAIN staging[r]]
      /\ UNCHANGED <<items, asked, staging, lock, fresh, crashes, edits>>

\* readStagedNumberRepair: the candidates whose bytes match their digests, all of
\* them; a staging that lacks one is an error.
Staged(r) == staging[r]

\* atomicReplace: whatever regular file is there now.
Write(p, i) ==
  IF items[i] = Gone
  THEN Leave(p, "error") /\ UNCHANGED items
  ELSE /\ items' = [items EXCEPT ![i] = Staged(RepairOf[p])[i]]
       /\ proc' = [proc EXCEPT ![p].todo = @ \ {i}, ![p].wrote = TRUE]
       /\ UNCHANGED lock

Replace(p, i) ==
  /\ proc[p].at = "replace"
  /\ i \in proc[p].todo
  /\ Write(p, i)
  /\ UNCHANGED <<asked, staging, journal, fresh, crashes, edits>>

\* The ledger is loaded and validated, every candidate re-read.
Validate(p) ==
  /\ proc[p].at = "replace"
  /\ proc[p].todo = {}
  /\ IF Valid(items) /\ \A i \in DOMAIN staging[RepairOf[p]] : items[i] = staging[RepairOf[p]][i]
     THEN Goto(p, "final") /\ UNCHANGED lock
     ELSE Leave(p, "unchanged")      \* the envelope's state, whatever was replaced
  /\ UNCHANGED <<items, asked, staging, journal, fresh, crashes, edits>>

\* The journal is read and validated before the append, the entry is not.
AppendFinal(p) ==
  /\ proc[p].at = "final"
  /\ IF Readable
     THEN /\ journal' = Append(journal, [type |-> "final", repair |-> RepairOf[p]])
          /\ Leave(p, "committed")
     ELSE Leave(p, "error") /\ UNCHANGED journal
  /\ UNCHANGED <<items, asked, staging, fresh, crashes, edits>>

-----------------------------------------------------------------------------
(* recoverNumberRepair.                                                    *)

\* The staged bytes are read, and the ledger is loaded once.
Recover(p) ==
  LET r == RepairOf[p] IN
  /\ proc[p].at = "recover"
  /\ IF Staged(r) = None
     THEN Leave(p, "unknown")
     ELSE /\ proc' = [proc EXCEPT ![p].at = "redo", ![p].seen = items,
                                  ![p].todo = DOMAIN Intent(r).candidate]
          /\ UNCHANGED lock
  /\ UNCHANGED <<items, asked, staging, journal, fresh, crashes, edits>>

\* Mutated: whatever is not the candidate yet is replaced.
RedoBlindly(p, i) ==
  LET seen == proc[p].seen[i]
  IN  /\ proc[p].at = "redo"
      /\ i \in proc[p].todo
      /\ IF seen = Gone
         THEN Leave(p, "unknown") /\ UNCHANGED items
         ELSE Write(p, i)
      /\ UNCHANGED <<asked, staging, journal, fresh, crashes, edits>>

\* Mutated: an item that holds the expected bytes is taken for done.
RedoNothing(p, i) ==
  /\ proc[p].at = "redo"
  /\ i \in proc[p].todo
  /\ proc' = [proc EXCEPT ![p].todo = @ \ {i}]
  /\ UNCHANGED <<items, lock, asked, staging, journal, fresh, crashes, edits>>

\* Mutated: only an item that was not replaced yet is accepted.
RedoStrictly(p, i) ==
  LET intent == Intent(RepairOf[p])
      seen == proc[p].seen[i]
  IN  /\ proc[p].at = "redo"
      /\ i \in proc[p].todo
      /\ IF seen = intent.expected[i] THEN Write(p, i)
                                     ELSE Leave(p, "unknown") /\ UNCHANGED items
      /\ UNCHANGED <<asked, staging, journal, fresh, crashes, edits>>

\* Done already; or what the intent expected; or a third revision, which leaves
\* the repair open, and the items before it replaced.
Redo(p, i) ==
  LET intent == Intent(RepairOf[p])
      seen == proc[p].seen[i]
  IN  /\ proc[p].at = "redo"
      /\ i \in proc[p].todo
      /\ CASE seen = intent.candidate[i] ->
                proc' = [proc EXCEPT ![p].todo = @ \ {i}] /\ UNCHANGED <<items, lock>>
           [] seen # intent.candidate[i] /\ seen = intent.expected[i] -> Write(p, i)
           [] OTHER -> Leave(p, "unknown") /\ UNCHANGED items
      /\ UNCHANGED <<asked, staging, journal, fresh, crashes, edits>>

\* Validated, and not re-read item by item.
Revalidate(p) ==
  /\ proc[p].at = "redo"
  /\ proc[p].todo = {}
  /\ IF Valid(items) THEN Goto(p, "final") /\ UNCHANGED lock ELSE Leave(p, "unknown")
  /\ UNCHANGED <<items, asked, staging, journal, fresh, crashes, edits>>

Return(p) ==
  /\ proc[p].at = "done"
  /\ proc' = [proc EXCEPT ![p] = Idle]
  /\ UNCHANGED <<items, asked, staging, journal, lock, fresh, crashes, edits>>

\* The process dies; the next one takes its lock over, as ClaimLock describes.
Crash(p) ==
  /\ proc[p].at \notin {"idle", "done"}
  /\ crashes < MaxCrashes
  /\ crashes' = crashes + 1
  /\ proc' = [proc EXCEPT ![p] = Idle]
  /\ lock' = IF lock = p THEN None ELSE lock
  /\ UNCHANGED <<items, asked, staging, journal, fresh, edits>>

\* Someone edits, merges or removes an item, and takes no lock.
Edit(i, bytes) ==
  /\ edits < MaxEdits
  /\ items[i] \notin {Gone, bytes}
  /\ edits' = edits + 1
  /\ items' = [items EXCEPT ![i] = bytes]
  /\ fresh' = fresh \cup {i}
  /\ UNCHANGED <<asked, staging, journal, lock, proc, crashes>>

Work(p) ==
  \/ Begin(p) \/ Check(p) \/ Enter(p) \/ Reread(p)
  \/ Stage(p) \/ AppendIntent(p) \/ (\E i \in Item : Replace(p, i)) \/ Validate(p)
  \/ AppendFinal(p)
  \/ Recover(p) \/ (\E i \in Item : Redo(p, i)) \/ Revalidate(p)
  \/ Return(p)

Next ==
  \/ \E r \in Repair : Ask(r)
  \/ \E p \in Proc : Work(p) \/ Crash(p)
  \/ \E i \in Item : \E bytes \in [number: InUse(items), rest: {"edited"}] \cup {Gone} : Edit(i, bytes)

Spec == Init /\ [][Next]_vars

\* A process that runs goes on, and a call that found the repair unfinished is
\* made again: the operator's part of recovery.
FairSpec == Spec /\ \A p \in Proc : WF_vars(Work(p))

-----------------------------------------------------------------------------
(* Properties.                                                             *)

\* "A repeated final terminal is rejected by idempotency, not appended twice"
\* (2026-08-30-duplicate-number-recovery-design.md:133): what repairs append leaves
\* a journal that can be read; one that cannot stops every claim command.  Not so
\* of two calls with one repair_id, which both find the repair open before they
\* take the lock (ledger-repair.js:819-831).
JournalStaysReadable == Readable

\* A repair replaces only bytes it has seen: what its intent expected, or its own
\* candidate.  What somebody wrote while the repair lay unfinished survives; what
\* is written while a process holds the lock may not.
EditsAreKept ==
  [][\A p \in Proc, i \in Item :
       proc[p].at \in {"replace", "redo"} /\ i \in proc[p].todo
         /\ proc'[p].at = proc[p].at /\ i \notin proc'[p].todo /\ i \notin fresh =>
           \/ items'[i] = items[i]
           \/ items[i] = Intent(RepairOf[p]).expected[i]]_vars

\* When a repair gets its final, every item of it holds its new number and no
\* two items share one, but for what was edited while the lock was held.
FinalMeansRepaired ==
  [][\A p \in Proc :
       proc[p].at = "final" /\ proc'[p].at = "done" =>
         /\ \A i \in DOMAIN Intent(RepairOf[p]).candidate \ fresh :
              items[i] = Intent(RepairOf[p]).candidate[i]
         /\ fresh = {} => Valid(items)]_vars

\* An answer whose state is "unchanged" comes from a call that replaced no item,
\* unless somebody interfered while it held the lock.
UnchangedIsTrue ==
  [][\A p \in Proc :
       proc[p].at # "done" /\ proc'[p].at = "done" /\ proc'[p].state = "unchanged"
         /\ proc'[p].wrote => fresh # {}]_vars

\* An intent without a final is not left so: the next call finishes the repair,
\* unless it finds the lock held, an item of the repair holds a third revision, or
\* the ledger became invalid otherwise.
Unfinished(r) == Intents(r) # {} /\ Finals(r) = {}

Obstructed(r) ==
  LET intent == Intent(r)
  IN  \/ \E i \in DOMAIN intent.candidate :
           items[i] \notin {intent.candidate[i], intent.expected[i]}
      \/ ~ Valid(Successor(items, intent.candidate))

PendingIsFinished ==
  \A r \in Repair :
    Unfinished(r) ~> \/ Unfinished(r) => Obstructed(r)
                     \/ \E p \in Proc : RepairOf[p] = r /\ proc[p].at = "done"
                                         /\ proc[p].state = "lock-held"
=============================================================================
