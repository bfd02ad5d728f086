--------------------------- MODULE MutationProofs ---------------------------
(***************************************************************************)
(* Theorems about the item locks of ItemMutation, for any items, rules,    *)
(* requests, processes and crashes.  The relation patches included, the    *)
(* lock of the target alone makes the compare-and-swap and the publication *)
(* one step, whatever the rest of the closure is worth.                    *)
(*                                                                         *)
(* If no patch or migration adds a reference, the closure is worth all of  *)
(* it: what a command decided about is under its locks, so that commands   *)
(* whose locks are disjoint decide the same in either order.  The second   *)
(* invariant says that what a command is about to publish is what it would *)
(* decide now, and that is what an atomic command does.                    *)
(*                                                                         *)
(* The last sections are about Projections, what is read off a ledger that *)
(* changes: the past that a report replays, the impact that it predicts,   *)
(* and the pages of a list, whose order exists because it is a total order *)
(* on a finite set.                                                        *)
(***************************************************************************)
EXTENDS ItemMutation, Projections, SequenceTheorems, FiniteSetTheorems, FunctionTheorems,
        WellFoundedInduction, TLAPS

Label == {"idle", "read", "lock", "publish", "verify", "retry", "release"}

MutationState == {"none", "unchanged", "committed", "unknown"}

Shapes ==
  /\ ledger = [i \in ItemId |-> ledger[i]]
  /\ lock \in [LockName -> Process \cup {Free, Orphan}]
  /\ pc \in [Process -> Label]
  /\ request \in [Process -> Requests \cup {NoRequest}]
  /\ expected = [p \in Process |-> expected[p]]
  /\ wanted = [p \in Process |-> wanted[p]]
  /\ proposal = [p \in Process |-> proposal[p]]
  /\ outcome \in [Process -> MutationState]

\* A running command knows its request, and a create expects no item.
Asked(p) ==
  pc[p] # "idle" =>
    /\ request[p] \in Requests
    /\ request[p].op = "create" => expected[p] = NoItem

\* About to publish or to read back, it holds the lock of its target ...
TargetLocked(p) ==
  pc[p] \in {"publish", "verify"} => lock[request[p].id] = p

\* ... so the target is still what it compared with, or what it published.
TargetUntouched(p) ==
  /\ pc[p] = "publish" => ledger[request[p].id] = expected[p]
  /\ pc[p] = "verify" => ledger[request[p].id] = proposal[p]

NoneLocked(p) == pc[p] = "idle" => Held(p) = {}

KnownOutcome(p) == outcome[p] # "unknown"

ProcessInv(p) ==
  Asked(p) /\ TargetLocked(p) /\ TargetUntouched(p) /\ NoneLocked(p) /\ KnownOutcome(p)

IInv == Shapes /\ \A p \in Process : ProcessInv(p)

-----------------------------------------------------------------------------
\* Every lock closure has the lock of the target.
LEMMA ClosureHasTarget ==
  ASSUME NEW r \in Requests, NEW L
  PROVE  r.id \in LockIds(r, L)
BY DEF LockIds, LockIdsForCreate, LockIdsForTransition

\* Every request names an item.
LEMMA RequestNamesItem ==
  ASSUME NEW r \in Requests
  PROVE  r.id \in ItemId /\ r.id \in LockName
BY RequestsAssumption DEF LockName

LEMMA InitInv == Init => IInv
<1> SUFFICES ASSUME Init PROVE IInv
  OBVIOUS
<1>1. Shapes
  BY MutationAssumption DEF Init, Shapes, Label, MutationState
<1>2. ASSUME NEW p \in Process PROVE ProcessInv(p)
  BY MutationAssumption
     DEF Init, ProcessInv, Asked, TargetLocked, TargetUntouched, NoneLocked, KnownOutcome, Held
<1> QED
  BY <1>1, <1>2 DEF IInv

-----------------------------------------------------------------------------
(* A step of one process, as the others see it.                            *)

\* A step of q changes no variable of another process, takes no lock away from
\* it, and writes only an item that q has locked.
Framed(q) ==
  /\ Shapes'
  /\ \A p \in Process \ {q} :
       /\ pc'[p] = pc[p]
       /\ request'[p] = request[p]
       /\ expected'[p] = expected[p]
       /\ proposal'[p] = proposal[p]
       /\ outcome'[p] = outcome[p]
       /\ \A n \in LockName : lock'[n] = p <=> lock[n] = p
  /\ \A i \in ItemId : ledger'[i] = ledger[i] \/ lock[i] = q

LEMMA OthersKept ==
  ASSUME IInv, NEW q \in Process, Framed(q), NEW p \in Process \ {q}
  PROVE  ProcessInv(p)'
<1>1. pc[p] # "idle" => request[p].id \in ItemId /\ request[p].id \in LockName
  BY RequestNamesItem DEF IInv, ProcessInv, Asked
<1>2. ProcessInv(p)
  BY DEF IInv
<1>3. Asked(p)' /\ TargetLocked(p)'
  BY <1>1, <1>2 DEF ProcessInv, Framed, Asked, TargetLocked
<1>4. TargetUntouched(p)'
  BY <1>1, <1>2 DEF ProcessInv, Framed, TargetLocked, TargetUntouched
<1>5. NoneLocked(p)' /\ KnownOutcome(p)'
  BY <1>2 DEF ProcessInv, Framed, NoneLocked, KnownOutcome, Held
<1> QED
  BY <1>3, <1>4, <1>5 DEF ProcessInv

LEMMA StepIsFramed ==
  ASSUME IInv, NEW q \in Process, Start(q) \/ Step(q) \/ Crash(q)
  PROVE  Framed(q)
<1>s. Shapes /\ (pc[q] # "idle" => request[q] \in Requests)
  BY DEF IInv, ProcessInv, Asked
<1>t. pc[q] = "publish" => request[q].id \in ItemId /\ lock[request[q].id] = q
  BY RequestNamesItem DEF IInv, ProcessInv, Asked, TargetLocked
<1> USE DEF Shapes, Label, MutationState, Framed, Goto
<1>1. CASE Start(q)
  <2>1. PICK r \in Requests :
          /\ request' = [request EXCEPT ![q] = r]
          /\ expected' = [expected EXCEPT ![q] = IF r.op = "create" THEN NoItem ELSE ledger[r.id]]
    BY <1>1 DEF Start
  <2>2. /\ pc' = [pc EXCEPT ![q] = "read"]
        /\ UNCHANGED <<ledger, lock, wanted, tries, proposal, outcome, crashes>>
    BY <1>1 DEF Start
  <2>3. Shapes'
    BY <1>s, <2>1, <2>2
  <2> QED
    BY <1>s, <2>1, <2>2, <2>3
<1>2. CASE Read(q)
  BY <1>2, <1>s, MutationAssumption DEF Read
<1>3. CASE RefuseUnlocked(q)
  BY <1>3, <1>s, MutationAssumption DEF RefuseUnlocked
<1>4. CASE AcquireLock(q)
  BY <1>4, <1>s, MutationAssumption DEF AcquireLock, Held
<1>5. CASE LockHeld(q)
  BY <1>5, <1>s, MutationAssumption DEF LockHeld
<1>6. CASE ClosureChanged(q)
  BY <1>6, <1>s, MutationAssumption DEF ClosureChanged
<1>7. CASE RefuseLocked(q)
  BY <1>7, <1>s, MutationAssumption DEF RefuseLocked
<1>8. CASE Decide(q)
  BY <1>8, <1>s, MutationAssumption DEF Decide
<1>9. CASE Publish(q)
  BY <1>9, <1>s, <1>t, MutationAssumption DEF Publish
<1>10. CASE PublishFails(q)
  BY <1>10, <1>s, MutationAssumption DEF PublishFails
<1>11. CASE Verify(q)
  BY <1>11, <1>s, MutationAssumption DEF Verify
<1>12. CASE ReleaseLock(q)
  BY <1>12, <1>s, MutationAssumption DEF ReleaseLock, Held
<1>13. CASE Retry(q)
  BY <1>13, <1>s, MutationAssumption DEF Retry
<1>14. CASE Answer(q)
  BY <1>14, <1>s, MutationAssumption DEF Answer, Forget
<1>15. CASE Crash(q)
  <2>1. /\ lock' = [n \in LockName |-> IF lock[n] = q THEN Orphan ELSE lock[n]]
        /\ ledger' = ledger
    BY <1>15 DEF Crash
  <2>2. \A n \in LockName, p \in Process \ {q} : lock'[n] = p <=> lock[n] = p
    BY <2>1, MutationAssumption
  <2>3. lock' \in [LockName -> Process \cup {Free, Orphan}]
    BY <1>s, <2>1
  <2>4. Shapes'
    BY <1>15, <1>s, <2>1, <2>3 DEF Crash, Forget
  <2> QED
    BY <1>15, <1>s, <2>1, <2>2, <2>4 DEF Crash, Forget
<1> QED
  BY <1>1, <1>2, <1>3, <1>4, <1>5, <1>6, <1>7, <1>8,
     <1>9, <1>10, <1>11, <1>12, <1>13, <1>14, <1>15
  DEF Step

\* What the step does to its own process.
LEMMA OwnStep ==
  ASSUME IInv, NEW q \in Process, Start(q) \/ Step(q) \/ Crash(q)
  PROVE  ProcessInv(q)'
<1>s. Shapes /\ Shapes'
  BY StepIsFramed DEF IInv, Framed
<1>p. ProcessInv(q)
  BY DEF IInv
<1>t. pc[q] # "idle" => request[q].id \in ItemId /\ request[q].id \in LockName
  BY <1>p, RequestNamesItem DEF ProcessInv, Asked
<1> USE DEF Shapes, Label, MutationState, Goto, ProcessInv, Asked, TargetLocked,
            TargetUntouched, NoneLocked, KnownOutcome
<1>1. CASE Start(q)
  BY <1>1, <1>s, <1>p, <1>t, MutationAssumption DEF Start
<1>2. CASE Read(q)
  BY <1>2, <1>s, <1>p, <1>t, MutationAssumption DEF Read
<1>3. CASE RefuseUnlocked(q)
  BY <1>3, <1>s, <1>p, <1>t, MutationAssumption DEF RefuseUnlocked
<1>4. CASE AcquireLock(q)
  BY <1>4, <1>s, <1>p, <1>t, MutationAssumption DEF AcquireLock, Held
<1>5. CASE LockHeld(q)
  BY <1>5, <1>s, <1>p, <1>t, MutationAssumption DEF LockHeld
<1>6. CASE ClosureChanged(q)
  BY <1>6, <1>s, <1>p, <1>t, MutationAssumption DEF ClosureChanged, Locked
<1>7. CASE RefuseLocked(q)
  BY <1>7, <1>s, <1>p, <1>t, MutationAssumption DEF RefuseLocked, Locked
<1>8. CASE Decide(q)
  <2>1. /\ pc[q] = "lock"
        /\ pc' = [pc EXCEPT ![q] = "publish"]
        /\ UNCHANGED <<ledger, lock, request, expected, outcome>>
    BY <1>8 DEF Decide, Locked
  <2>2. lock[request[q].id] = q
    BY <1>8, <1>p, <2>1, ClosureHasTarget DEF Decide, Locked, Held
  <2>3. ledger[request[q].id] = expected[q]
    <3>1. CASE request[q].op = "create"
      <4>1. request[q].id \notin Items(ledger)
        BY <1>8, <3>1 DEF Decide, Authorized, Accepts, Preconditions
      <4> QED
        BY <1>p, <1>t, <2>1, <3>1, <4>1 DEF Items
    <3>2. CASE request[q].op # "create"
      BY <1>8, <3>2 DEF Decide, Authorized
    <3> QED
      BY <3>1, <3>2
  <2> QED
    BY <1>s, <1>p, <2>1, <2>2, <2>3
<1>9. CASE Publish(q)
  BY <1>9, <1>s, <1>p, <1>t, MutationAssumption DEF Publish
<1>10. CASE PublishFails(q)
  <2>1. ~ (request[q].op = "create" /\ request[q].id \in Items(ledger))
    BY <1>10, <1>p DEF PublishFails, Items
  <2> QED
    BY <1>10, <1>s, <1>p, <2>1 DEF PublishFails
<1>11. CASE Verify(q)
  BY <1>11, <1>s, <1>p, <1>t, MutationAssumption DEF Verify
<1>12. CASE ReleaseLock(q)
  BY <1>12, <1>s, <1>p, <1>t, MutationAssumption DEF ReleaseLock, Held
<1>13. CASE Retry(q)
  BY <1>13, <1>s, <1>p, <1>t, MutationAssumption DEF Retry
<1>14. CASE Answer(q)
  BY <1>14, <1>s, <1>p, <1>t, MutationAssumption DEF Answer, Forget, Held
<1>15. CASE Crash(q)
  BY <1>15, <1>s, <1>p, <1>t, MutationAssumption DEF Crash, Forget, Held
<1> QED
  BY <1>1, <1>2, <1>3, <1>4, <1>5, <1>6, <1>7, <1>8,
     <1>9, <1>10, <1>11, <1>12, <1>13, <1>14, <1>15
  DEF Step

LEMMA StepInv == IInv /\ [Next]_vars => IInv'
<1> SUFFICES ASSUME IInv, [Next]_vars PROVE IInv'
  OBVIOUS
<1>1. ASSUME NEW q \in Process, Start(q) \/ Step(q) \/ Crash(q) PROVE IInv'
  <2>1. Framed(q) /\ ProcessInv(q)'
    BY <1>1, StepIsFramed, OwnStep
  <2>2. \A p \in Process \ {q} : ProcessInv(p)'
    BY <2>1, OthersKept
  <2> QED
    BY <2>1, <2>2 DEF IInv, Framed
<1>2. CASE UNCHANGED vars
  BY <1>2 DEF vars, IInv, Shapes, ProcessInv, Asked, TargetLocked, TargetUntouched,
              NoneLocked, KnownOutcome, Held
<1> QED
  BY <1>1, <1>2 DEF Next

LEMMA Invariance == Spec => []IInv
<1> QED
  BY InitInv, StepInv, PTL DEF Spec

-----------------------------------------------------------------------------
\* A publication replaces the revision that its client expected.
THEOREM UpdatesAreNotLost == Spec => NoLostUpdate
<1> DEFINE Expected == \A i \in ItemId : ledger'[i] # ledger[i] =>
                         \E p \in Process :
                           pc[p] = "publish" /\ request[p].id = i /\ ledger[i] = expected[p]
<1>1. IInv /\ [Next]_vars => [Expected]_vars
  <2> SUFFICES ASSUME IInv, Next, NEW i \in ItemId, ledger'[i] # ledger[i]
               PROVE  \E p \in Process :
                        pc[p] = "publish" /\ request[p].id = i /\ ledger[i] = expected[p]
    OBVIOUS
  <2>1. PICK p \in Process : Publish(p)
    BY DEF Next, Start, Step, Read, RefuseUnlocked, AcquireLock, LockHeld, ClosureChanged,
           RefuseLocked, Decide, PublishFails, Verify, ReleaseLock, Retry, Answer, Crash
  <2>2. pc[p] = "publish" /\ ledger' = [ledger EXCEPT ![request[p].id] = proposal[p]]
    BY <2>1 DEF Publish
  <2>3. request[p].id = i
    BY <2>2 DEF IInv, Shapes
  <2>4. ledger[i] = expected[p]
    BY <2>2, <2>3 DEF IInv, ProcessInv, TargetUntouched
  <2> QED
    BY <2>2, <2>3, <2>4
<1> QED
  BY Invariance, <1>1, PTL DEF Spec, NoLostUpdate

\* No command reads back other bytes than it published.
THEOREM NoOutcomeIsUnknown == Spec => []OutcomesAreKnown
<1>1. IInv => OutcomesAreKnown
  BY DEF IInv, ProcessInv, KnownOutcome, OutcomesAreKnown
<1> QED
  BY Invariance, <1>1, PTL

-----------------------------------------------------------------------------
(* Numbers.                                                                *)

\* A finite set of numbers has a greatest one, or is empty.
LEMMA GreatestExists ==
  ASSUME NEW S \in SUBSET Nat, IsFiniteSet(S), S # {}
  PROVE  \E n \in S : \A m \in S : m <= n
<1> DEFINE Topless == {X \in SUBSET S : X # {} /\ ~ \E n \in X : \A m \in X : m <= n}
<1>1. SUFFICES ASSUME Topless # {} PROVE FALSE
  OBVIOUS
<1>2. Topless \subseteq FiniteSubsetsOf(S)
  BY FS_Subset DEF FiniteSubsetsOf
<1>3. PICK X \in Topless : \A Y \in Topless : ~ (<<Y, X>> \in StrictSubsetOrdering(S))
  <2> HIDE DEF Topless
  <2> QED
    BY <1>1, <1>2, FS_StrictSubsetOrderingWellFounded, WFMin
<1>4. X \subseteq S /\ X # {} /\ ~ \E n \in X : \A m \in X : m <= n
  OBVIOUS
<1>5. PICK x : x \in X
  BY <1>4
<1>6. X \ {x} \notin Topless
  <2>1. X \ {x} \subseteq X /\ X \ {x} # X
    BY <1>5
  <2>2. (X \ {x}) \in SUBSET S /\ X \in SUBSET S
    BY <1>4
  <2>3. <<X \ {x}, X>> \in StrictSubsetOrdering(S)
    BY <2>1, <2>2 DEF StrictSubsetOrdering
  <2> QED
    BY <1>3, <2>3
<1>7. CASE X \ {x} = {}
  <2>1. x \in Nat /\ \A m \in X : m <= x
    BY <1>4, <1>5, <1>7
  <2> QED
    BY <1>4, <1>5, <2>1
<1>8. CASE X \ {x} # {}
  <2>1. PICK n \in X \ {x} : \A m \in X \ {x} : m <= n
    BY <1>4, <1>6, <1>8
  <2>2. n \in Nat /\ x \in Nat /\ X \subseteq Nat
    BY <1>4, <1>5, <2>1
  <2>3. CASE n <= x
    <3>1. \A m \in X : m <= x
      BY <2>1, <2>2, <2>3
    <3> QED
      BY <1>4, <1>5, <3>1
  <2>4. CASE ~ n <= x
    <3>1. \A m \in X : m <= n
      BY <2>1, <2>2, <2>4
    <3> QED
      BY <1>4, <2>1, <3>1
  <2> QED
    BY <2>3, <2>4
<1> QED
  BY <1>7, <1>8

WellTyped(L) == L \in [ItemId -> Item \cup {NoItem}]

\* The number of a new item is a number, and nobody's.
LEMMA NextNumber ==
  ASSUME NEW L, \A i \in Items(L) : L[i].number \in Nat
  PROVE  /\ NextItemNumber(L) \in Nat
         /\ \A i \in Items(L) : L[i].number < NextItemNumber(L)
<1> DEFINE F == [i \in Items(L) |-> L[i].number]
           Numbers == {L[i].number : i \in Items(L)}
           Used == {0} \cup Numbers
<1>1. \A i \in Items(L) : L[i].number \in Nat
  OBVIOUS
<1>2. IsFiniteSet(Items(L))
  BY LifecycleAssumption, FS_Subset DEF Items
<1>3. IsFiniteSet(Used)
  <2>1. F \in Surjection(Items(L), Numbers)
    BY DEF Surjection
  <2>2. IsFiniteSet(Numbers)
    BY <1>2, <2>1, FS_Surjection
  <2>3. Used = Numbers \cup {0}
    OBVIOUS
  <2> HIDE DEF Numbers, Used
  <2> QED
    BY <2>2, <2>3, FS_AddElement
<1>4. Used \in SUBSET Nat /\ Used # {}
  BY <1>1
<1>5. \E n \in Used : \A m \in Used : m <= n
  <2> HIDE DEF Used
  <2> QED
    BY <1>3, <1>4, GreatestExists
<1> DEFINE top == CHOOSE n \in Used : \A m \in Used : m <= n
<1>6. top \in Used /\ \A m \in Used : m <= top
  <2> HIDE DEF Used
  <2> QED
    BY <1>5
<1>7. NextItemNumber(L) = 1 + top
  BY DEF NextItemNumber
<1>8. top \in Nat
  BY <1>4, <1>6
<1>9. \A i \in Items(L) : L[i].number <= top
  BY <1>6
<1> HIDE DEF top, Used
<1> QED
  BY <1>1, <1>7, <1>8, <1>9

-----------------------------------------------------------------------------
(* Two items of a ledger changed one after the other.                      *)

\* M1 changes item a of L to A, M2 changes item b to B, and M changes both.
Changes(L, a, A, b, B, M1, M2, M) ==
  /\ WellTyped(L)
  /\ a \in ItemId /\ b \in ItemId /\ a # b
  /\ A \in Item /\ B \in Item
  /\ M1 = [L EXCEPT ![a] = A]
  /\ M2 = [L EXCEPT ![b] = B]
  /\ M = [M2 EXCEPT ![a] = A]
  /\ ValidLedger(L) /\ ValidLedger(M1) /\ ValidLedger(M2)
  /\ b \in Items(L)

\* Neither item refers to the other, before or after.
Unlinked(L, a, A, b, B) ==
  /\ b \notin A.deps /\ A.parent # b
  /\ a \notin B.deps /\ B.parent # a
  /\ a \in Items(L) => b \notin L[a].deps /\ L[a].parent # b
  /\ a \notin L[b].deps /\ L[b].parent # a

\* Record y keeps the number of x and refers to no item that x does not refer to.
FewerLinks(x, y) ==
  y.number = x.number /\ y.deps \subseteq x.deps /\ y.parent \in {x.parent, NoParent}

\* Which record is whose.
LEMMA ChangedItems ==
  ASSUME NEW L, NEW a, NEW A, NEW b, NEW B, NEW M1, NEW M2, NEW M,
         Changes(L, a, A, b, B, M1, M2, M)
  PROVE  /\ Items(M1) = Items(L) \cup {a}
         /\ Items(M2) = Items(L)
         /\ Items(M) = Items(L) \cup {a}
         /\ M[a] = A /\ M1[a] = A /\ M2[a] = L[a]
         /\ M[b] = B /\ M1[b] = L[b] /\ M2[b] = B
         /\ \A i \in ItemId \ {a, b} : M[i] = L[i] /\ M1[i] = L[i] /\ M2[i] = L[i]
<1>1. A # NoItem /\ B # NoItem
  BY LifecycleAssumption DEF Changes
<1>2. /\ M[a] = A /\ M1[a] = A /\ M2[a] = L[a]
      /\ M[b] = B /\ M1[b] = L[b] /\ M2[b] = B
      /\ \A i \in ItemId \ {a, b} : M[i] = L[i] /\ M1[i] = L[i] /\ M2[i] = L[i]
  BY DEF Changes, WellTyped
<1>3. a \in ItemId /\ b \in ItemId /\ L[b] # NoItem
  BY DEF Changes, Items
<1>4. Items(M1) = Items(L) \cup {a}
  BY <1>1, <1>2, <1>3 DEF Items
<1>5. Items(M2) = Items(L)
  BY <1>1, <1>2, <1>3 DEF Items
<1>6. Items(M) = Items(L) \cup {a}
  BY <1>1, <1>2, <1>3 DEF Items
<1> QED
  BY <1>2, <1>4, <1>5, <1>6

\* A done epic whose own record nobody changes: its rollup pins its children.
LEMMA SettledEpic ==
  ASSUME NEW L, NEW a, NEW A, NEW b, NEW B, NEW M1, NEW M2, NEW M,
         Changes(L, a, A, b, B, M1, M2, M),
         NEW e \in Items(L), Kind[e] = "epic",
         \A N \in {L, M1, M2, M} : N[e].status = "done" /\ N[e].rollup = L[e].rollup
  PROVE  /\ \A c \in Children(M, e) : M[c].status \in {"done", "killed"}
         /\ M[e].rollup = {<<c, M[c].status>> : c \in Children(M, e)}
<1>1. \A N \in {L, M1, M2} :
        /\ e \in Items(N)
        /\ EpicRules(N)
  <2>1. e \in Items(M1) /\ e \in Items(M2)
    BY ChangedItems
  <2>2. ValidLedger(L) /\ ValidLedger(M1) /\ ValidLedger(M2)
    BY DEF Changes
  <2> QED
    BY <2>1, <2>2 DEF ValidLedger
<1>2. \A N \in {L, M1, M2} :
        /\ L[e].rollup = {<<c, N[c].status>> : c \in Children(N, e)}
        /\ \A c \in Children(N, e) : N[c].status \in {"done", "killed"}
  BY <1>1 DEF EpicRules
<1>3. \A N \in {L, M1, M2} : \A c, s : <<c, s>> \in L[e].rollup <=> c \in Children(N, e) /\ s = N[c].status
  BY <1>2
<1>4. \A c \in ItemId, N \in {M1, M2} : c \in Children(N, e) <=> c \in Children(L, e)
  <2> TAKE c \in ItemId, N \in {M1, M2}
  <2>1. <<c, N[c].status>> \in L[e].rollup <=> c \in Children(N, e)
    BY <1>3
  <2>2. <<c, L[c].status>> \in L[e].rollup <=> c \in Children(L, e)
    BY <1>3
  <2>3. c \in Children(N, e) => c \in Children(L, e)
    BY <1>3, <2>1
  <2>4. c \in Children(L, e) => c \in Children(N, e)
    BY <1>3, <2>2
  <2> QED
    BY <2>3, <2>4
<1>5. \A c \in Children(L, e), N \in {M1, M2} : N[c].status = L[c].status
  BY <1>3
<1>6. \A c \in Items(M) : \E N \in {L, M1, M2} : M[c] = N[c] /\ c \in Items(N)
  <2>1. M[a] = M1[a] /\ a \in Items(M1)
    BY ChangedItems
  <2>2. M[b] = M2[b] /\ b \in Items(M2)
    <3>1. b \in Items(L)
      BY DEF Changes
    <3> QED
      BY <3>1, ChangedItems
  <2>3. \A c \in Items(M) \ {a, b} : M[c] = L[c] /\ c \in Items(L)
    BY ChangedItems DEF Items
  <2> QED
    BY <2>1, <2>2, <2>3
<1>7. Children(M, e) \subseteq Children(L, e)
  <2> SUFFICES ASSUME NEW c \in Items(M), M[c].parent = e PROVE c \in Children(L, e)
    BY DEF Children
  <2>1. PICK N \in {L, M1, M2} : M[c] = N[c] /\ c \in Items(N)
    BY <1>6
  <2>2. c \in Children(N, e) /\ c \in ItemId
    BY <2>1 DEF Children, Items
  <2> QED
    BY <1>4, <2>2
<1>8. Children(L, e) \subseteq Children(M, e)
  <2> SUFFICES ASSUME NEW c \in Children(L, e) PROVE c \in Children(M, e)
    OBVIOUS
  <2>1. c \in Items(L) /\ c \in ItemId /\ c \in Items(M)
    BY ChangedItems DEF Children, Items
  <2>2. PICK N \in {L, M1, M2} : M[c] = N[c] /\ c \in Items(N)
    BY <1>6, <2>1
  <2>3. c \in Children(N, e)
    BY <1>4, <2>1
  <2> QED
    BY <2>1, <2>2, <2>3 DEF Children
<1>9. Children(M, e) = Children(L, e)
  BY <1>7, <1>8
<1>10. \A c \in Children(L, e) : M[c].status = L[c].status
  <2> TAKE c \in Children(L, e)
  <2>1. c \in Items(M)
    BY <1>8 DEF Children
  <2> QED
    BY <1>5, <1>6, <2>1
<1>11. M[e].rollup = {<<c, L[c].status>> : c \in Children(L, e)}
  BY <1>2
<1> QED
  BY <1>2, <1>9, <1>10, <1>11

\* Two items that do not refer to each other: what each change keeps valid, both
\* keep valid, if one of them adds no item and no reference.
LEMMA UnlinkedChanges ==
  ASSUME NEW L, NEW a, NEW A, NEW b, NEW B, NEW M1, NEW M2, NEW M,
         Changes(L, a, A, b, B, M1, M2, M),
         Unlinked(L, a, A, b, B), FewerLinks(L[b], B)
  PROVE  ValidLedger(M)
<1>a. /\ a \in ItemId /\ b \in ItemId /\ a # b /\ b \in Items(L)
      /\ Items(L) \subseteq ItemId
      /\ ValidLedger(L) /\ ValidLedger(M1) /\ ValidLedger(M2)
  BY DEF Changes, Items
<1>b. /\ Items(M1) = Items(L) \cup {a}
      /\ Items(M2) = Items(L)
      /\ Items(M) = Items(L) \cup {a}
      /\ M[a] = A /\ M1[a] = A /\ M2[a] = L[a]
      /\ M[b] = B /\ M1[b] = L[b] /\ M2[b] = B
      /\ \A i \in ItemId \ {a, b} : M[i] = L[i] /\ M1[i] = L[i] /\ M2[i] = L[i]
  BY ChangedItems
<1>c. /\ \A i \in Items(M) \ {b} : M[i] = M1[i] /\ i \in Items(M1)
      /\ \A i \in Items(M) \ {a} : M[i] = M2[i] /\ i \in Items(M2)
      /\ Items(M1) = Items(M) /\ Items(M2) \subseteq Items(M)
  BY <1>a, <1>b
<1>d. M[a].deps = A.deps /\ M[b].deps = B.deps /\ M[a].parent = A.parent /\ M[b].parent = B.parent
  BY <1>b
<1>1. DependenciesResolve(M)
  <2> SUFFICES ASSUME NEW i \in Items(M), NEW d \in M[i].deps
               PROVE  d # i /\ d \in Items(M) /\ M[d].status \notin {"archived", "killed"}
    BY DEF DependenciesResolve
  <2>1. CASE i # b /\ d # b
    BY <1>a, <1>c, <2>1 DEF ValidLedger, DependenciesResolve
  <2>2. CASE i # a /\ d # a
    BY <1>a, <1>c, <2>2 DEF ValidLedger, DependenciesResolve
  <2> QED
    BY <1>a, <1>d, <2>1, <2>2 DEF Unlinked
<1>2. ParentsResolve(M)
  <2> SUFFICES ASSUME NEW i \in Items(M), M[i].parent # NoParent
               PROVE  /\ M[i].parent # i
                      /\ M[i].parent \in Items(M)
                      /\ Kind[M[i].parent] = "epic"
    BY DEF ParentsResolve
  <2>1. CASE i # b
    BY <1>a, <1>c, <2>1 DEF ValidLedger, ParentsResolve
  <2>2. CASE i # a
    BY <1>a, <1>c, <2>2 DEF ValidLedger, ParentsResolve
  <2> QED
    BY <1>a, <2>1, <2>2
<1>3. DependenciesAcyclic(M)
  <2>1. \A i \in Items(M) : M[i].deps \subseteq M1[i].deps
    BY <1>b, <1>c DEF FewerLinks
  <2>2. DependenciesAcyclic(M1)
    BY <1>a DEF ValidLedger
  <2> QED
    BY <1>c, <2>1, <2>2 DEF DependenciesAcyclic
<1>4. ContainmentAcyclic(M)
  <2>1. \A i \in Items(M) : M[i].parent = M1[i].parent \/ M[i].parent = NoParent
    BY <1>b, <1>c DEF FewerLinks
  <2>2. ContainmentAcyclic(M1) /\ NoParent \notin Items(M)
    BY <1>a, <1>b, LifecycleAssumption DEF ValidLedger
  <2> QED
    BY <1>c, <2>1, <2>2 DEF ContainmentAcyclic
<1>5. DoneItemsAreSettled(M)
  <2> SUFFICES ASSUME NEW i \in Items(M), M[i].status = "done", NEW d \in M[i].deps, d \in Items(M)
               PROVE  M[d].status = "done"
    BY DEF DoneItemsAreSettled
  <2>1. CASE i # b /\ d # b
    BY <1>a, <1>c, <2>1 DEF ValidLedger, DoneItemsAreSettled
  <2>2. CASE i # a /\ d # a
    BY <1>a, <1>c, <2>2 DEF ValidLedger, DoneItemsAreSettled
  <2> QED
    BY <1>a, <1>d, <2>1, <2>2 DEF Unlinked
<1>6. EpicRules(M)
  <2> SUFFICES ASSUME NEW e \in Items(M), Kind[e] = "epic"
               PROVE  /\ M[e].status # "in-progress"
                      /\ M[e].status = "done" =>
                           /\ \A c \in Children(M, e) : M[c].status \in {"done", "killed"}
                           /\ M[e].rollup = {<<c, M[c].status>> : c \in Children(M, e)}
    BY DEF EpicRules
  <2>1. CASE e = a
    <3>1. Children(M, a) = Children(M1, a) /\ b \notin Children(M, a)
      BY <1>a, <1>b, <1>c DEF Children, Unlinked
    <3>2. \A c \in Children(M, a) : M[c] = M1[c]
      BY <1>c, <3>1 DEF Children
    <3>3. M[a] = M1[a] /\ a \in Items(M1) /\ EpicRules(M1)
      BY <1>a, <1>b DEF ValidLedger
    <3>4. {<<c, M[c].status>> : c \in Children(M, a)} = {<<c, M1[c].status>> : c \in Children(M1, a)}
      BY <3>1, <3>2
    <3> QED
      BY <2>1, <3>1, <3>2, <3>3, <3>4 DEF EpicRules
  <2>2. CASE e = b
    <3>1. Children(M, b) = Children(M2, b) /\ a \notin Children(M, b)
      BY <1>a, <1>b, <1>c DEF Children, Unlinked
    <3>2. \A c \in Children(M, b) : M[c] = M2[c]
      BY <1>c, <3>1 DEF Children
    <3>3. M[b] = M2[b] /\ b \in Items(M2) /\ EpicRules(M2)
      BY <1>a, <1>b DEF ValidLedger
    <3>4. {<<c, M[c].status>> : c \in Children(M, b)} = {<<c, M2[c].status>> : c \in Children(M2, b)}
      BY <3>1, <3>2
    <3> QED
      BY <2>2, <3>1, <3>2, <3>3, <3>4 DEF EpicRules
  <2>3. CASE e \notin {a, b}
    <3>1. e \in Items(L) /\ M[e] = L[e] /\ M1[e] = L[e] /\ M2[e] = L[e]
      BY <1>a, <1>b, <2>3
    <3>2. M[e].status # "in-progress"
      BY <1>a, <3>1 DEF ValidLedger, EpicRules
    <3>3. M[e].status = "done" => \A N \in {L, M1, M2, M} : N[e].status = "done" /\ N[e].rollup = L[e].rollup
      BY <3>1
    <3> QED
      BY <3>1, <3>2, <3>3, SettledEpic
  <2> QED
    BY <2>1, <2>2, <2>3
<1>7. TerminalEpicsHaveNoLiveChild(M)
  <2> SUFFICES ASSUME NEW i \in Items(M),
                      M[i].status \in {"triage", "backlog", "in-progress"},
                      M[i].parent \in Items(M), Kind[M[i].parent] = "epic"
               PROVE  M[M[i].parent].status \notin {"killed", "archived"}
    BY DEF TerminalEpicsHaveNoLiveChild
  <2>1. CASE i # b /\ M[i].parent # b
    BY <1>a, <1>c, <2>1 DEF ValidLedger, TerminalEpicsHaveNoLiveChild
  <2>2. CASE i # a /\ M[i].parent # a
    BY <1>a, <1>c, <2>2 DEF ValidLedger, TerminalEpicsHaveNoLiveChild
  <2> QED
    BY <1>a, <1>d, <2>1, <2>2 DEF Unlinked
<1>8. NumbersDiffer(M)
  <2>1. \A i \in Items(M) : M[i].number = M1[i].number
    BY <1>b, <1>c DEF FewerLinks
  <2> QED
    BY <1>a, <1>c, <2>1 DEF ValidLedger, NumbersDiffer
<1> QED
  BY <1>1, <1>2, <1>3, <1>4, <1>5, <1>6, <1>7, <1>8 DEF ValidLedger

\* Two items that only lose references keep a ledger valid together as well.
LEMMA FewerLinksOfTwo ==
  ASSUME NEW L, NEW a, NEW A, NEW b, NEW B, NEW M1, NEW M2, NEW M,
         Changes(L, a, A, b, B, M1, M2, M), a \in Items(L),
         FewerLinks(L[a], A), A.status = L[a].status, A.rollup = L[a].rollup,
         FewerLinks(L[b], B), B.status = L[b].status, B.rollup = L[b].rollup
  PROVE  ValidLedger(M)
<1>a. /\ Items(L) \subseteq ItemId /\ NoParent \notin Items(L)
      /\ ValidLedger(L)
      /\ Items(M) = Items(L)
  <2>1. Items(L) \subseteq ItemId /\ NoParent \notin Items(L)
    BY LifecycleAssumption DEF Items
  <2>2. ValidLedger(L)
    BY DEF Changes
  <2>3. Items(M) = Items(L)
    BY ChangedItems
  <2> QED
    BY <2>1, <2>2, <2>3
<1>b. \A i \in Items(L) : /\ FewerLinks(L[i], M[i])
                          /\ \A N \in {L, M1, M2, M} : N[i].status = L[i].status /\ N[i].rollup = L[i].rollup
  <2>1. \A i \in Items(L) \ {a, b} : M[i] = L[i] /\ M1[i] = L[i] /\ M2[i] = L[i]
    BY <1>a, ChangedItems
  <2>2. /\ M[a] = A /\ M1[a] = A /\ M2[a] = L[a]
        /\ M[b] = B /\ M1[b] = L[b] /\ M2[b] = B
    BY ChangedItems
  <2> QED
    BY <2>1, <2>2 DEF FewerLinks
<1>c. \A i \in Items(L) : /\ M[i].number = L[i].number /\ M[i].status = L[i].status
                          /\ M[i].deps \subseteq L[i].deps
                          /\ M[i].parent \in {L[i].parent, NoParent}
  BY <1>b DEF FewerLinks
<1>1. DependenciesResolve(M) /\ DoneItemsAreSettled(M) /\ NumbersDiffer(M)
  BY <1>a, <1>c DEF ValidLedger, DependenciesResolve, DoneItemsAreSettled, NumbersDiffer
<1>2. ParentsResolve(M) /\ TerminalEpicsHaveNoLiveChild(M)
  BY <1>a, <1>c DEF ValidLedger, ParentsResolve, TerminalEpicsHaveNoLiveChild
<1>3. DependenciesAcyclic(M)
  <2>1. DependenciesAcyclic(L)
    BY <1>a DEF ValidLedger
  <2> QED
    BY <1>a, <1>c, <2>1 DEF DependenciesAcyclic
<1>4. ContainmentAcyclic(M)
  <2>1. ContainmentAcyclic(L)
    BY <1>a DEF ValidLedger
  <2> QED
    BY <1>a, <1>c, <2>1 DEF ContainmentAcyclic
<1>5. EpicRules(M)
  <2> SUFFICES ASSUME NEW e \in Items(L), Kind[e] = "epic"
               PROVE  /\ M[e].status # "in-progress"
                      /\ M[e].status = "done" =>
                           /\ \A c \in Children(M, e) : M[c].status \in {"done", "killed"}
                           /\ M[e].rollup = {<<c, M[c].status>> : c \in Children(M, e)}
    BY <1>a DEF EpicRules
  <2>1. M[e].status # "in-progress"
    BY <1>a, <1>c DEF ValidLedger, EpicRules
  <2>2. M[e].status = "done" => \A N \in {L, M1, M2, M} : N[e].status = "done" /\ N[e].rollup = L[e].rollup
    BY <1>b
  <2> QED
    BY <2>1, <2>2, SettledEpic
<1> QED
  BY <1>1, <1>2, <1>3, <1>4, <1>5 DEF ValidLedger

-----------------------------------------------------------------------------
(* Two commands whose lock closures are disjoint.                          *)

\* The requests whose lock closure covers what they decide about: the patches
\* and migrations that only drop references.
Covered(r) ==
  \/ r.op \in {"create", "transition"}
  \/ r.op = "patch" /\ r.deps = {}
  \/ r.op = "parent-migrate" /\ r.parent = NoParent

\* What a request may ask.
LEMMA RequestShape ==
  ASSUME NEW r \in Requests
  PROVE  /\ r.id \in ItemId
         /\ r.op \in {"create", "transition", "patch", "parent-migrate"}
         /\ r.op = "create" => r.deps \in SUBSET ItemId /\ r.parent \in ItemId \cup {NoParent}
         /\ r.op = "transition" => r.to \in Status
BY RequestsAssumption

\* What a covered request makes of the item.
LEMMA ProposedEffect ==
  ASSUME NEW L, WellTyped(L), NEW r \in Requests, Covered(r), Preconditions(r, L)
  PROVE  /\ Proposed(r, L) \in Item
         /\ r.op = "create" => /\ r.id \notin Items(L)
                               /\ Proposed(r, L).deps = r.deps
                               /\ Proposed(r, L).parent = r.parent
         /\ r.op # "create" => r.id \in Items(L) /\ FewerLinks(L[r.id], Proposed(r, L))
         /\ r.op \in {"patch", "parent-migrate"} =>
              /\ Proposed(r, L).status = L[r.id].status
              /\ Proposed(r, L).rollup = L[r.id].rollup
<1>n. \A i \in Items(L) : L[i].number \in Nat
  BY DEF WellTyped, Items, Item
<1>1. CASE r.op = "create"
  <2>1. Proposed(r, L) = [number |-> NextItemNumber(L), status |-> "triage", deps |-> r.deps,
                          parent |-> r.parent, rollup |-> {}]
    BY <1>1 DEF Proposed
  <2>2. NextItemNumber(L) \in Nat /\ r.deps \in SUBSET ItemId /\ r.parent \in ItemId \cup {NoParent}
    BY <1>1, <1>n, NextNumber, RequestShape
  <2>3. r.id \notin Items(L)
    BY <1>1 DEF Preconditions
  <2> QED
    BY <1>1, <2>1, <2>2, <2>3 DEF Item, Status
<1>2. CASE r.op # "create"
  <2>1. r.id \in Items(L) /\ L[r.id] \in Item
    BY <1>2 DEF Preconditions, Items, WellTyped
  <2>2. CASE r.op = "transition"
    <3>1. r.to \in Status
      BY <2>2, RequestShape
    <3>2. \A c \in Children(L, r.id) : c \in ItemId /\ L[c].status \in Status
      BY DEF Children, Items, WellTyped, Item
    <3>3. {<<c, L[c].status>> : c \in Children(L, r.id)} \in SUBSET (ItemId \X Status)
      BY <3>2
    <3>4. Proposed(r, L) =
            [L[r.id] EXCEPT !.status = r.to,
                            !.rollup = IF Kind[r.id] = "epic" /\ r.to = "done"
                                       THEN {<<c, L[c].status>> : c \in Children(L, r.id)} ELSE @]
      BY <2>2 DEF Proposed, Transitioned
    <3> DEFINE rolled == IF Kind[r.id] = "epic" /\ r.to = "done"
                         THEN {<<c, L[c].status>> : c \in Children(L, r.id)} ELSE L[r.id].rollup
    <3>5. rolled \in SUBSET (ItemId \X Status)
      BY <2>1, <3>3 DEF Item
    <3>6. Proposed(r, L) = [L[r.id] EXCEPT !.status = r.to, !.rollup = rolled]
      BY <3>4
    <3> HIDE DEF rolled
    <3> QED
      BY <2>1, <2>2, <3>1, <3>5, <3>6 DEF Item, FewerLinks
  <2>3. CASE r.op = "patch"
    <3>1. Proposed(r, L) = [L[r.id] EXCEPT !.deps = {}]
      BY <2>3 DEF Proposed, Covered
    <3> QED
      BY <2>1, <2>3, <3>1 DEF Item, FewerLinks
  <2>4. CASE r.op = "parent-migrate"
    <3>1. Proposed(r, L) = [L[r.id] EXCEPT !.parent = NoParent]
      BY <2>4 DEF Proposed, Covered
    <3> QED
      BY <2>1, <2>4, <3>1 DEF Item, FewerLinks
  <2> QED
    BY <1>2, <2>2, <2>3, <2>4, RequestShape
<1> QED
  BY <1>1, <1>2

\* A command keeps the ledger well typed.
LEMMA CandidateIsTyped ==
  ASSUME NEW L, WellTyped(L), NEW r \in Requests, Covered(r), Preconditions(r, L)
  PROVE  WellTyped(Candidate(r, L))
<1>1. Proposed(r, L) \in Item /\ r.id \in ItemId
  BY ProposedEffect, RequestShape
<1> QED
  BY <1>1 DEF WellTyped, Candidate

\* A transition locks whatever refers to its item and whatever that refers to.
LEMMA TransitionLocksNeighbours ==
  ASSUME NEW L, ValidLedger(L), NEW r, r.op = "transition", r.id \in Items(L),
         NEW y \in Items(L), y \notin LockIds(r, L)
  PROVE  /\ y \notin L[r.id].deps /\ L[r.id].parent # y
         /\ r.id \notin L[y].deps /\ L[y].parent # r.id
<1>1. LockIds(r, L) = {r.id} \cup ({L[r.id].parent} \cap ItemId) \cup L[r.id].deps \cup Dependents(L, r.id)
                        \cup (IF Kind[r.id] = "epic" THEN Children(L, r.id) ELSE {})
  BY DEF LockIds, LockIdsForTransition
<1>2. y \in ItemId
  BY DEF Items
<1>3. L[y].parent = r.id => Kind[r.id] = "epic"
  <2>1. ParentsResolve(L) /\ r.id # NoParent
    BY LifecycleAssumption DEF ValidLedger, Items
  <2> QED
    BY <2>1 DEF ParentsResolve
<1>4. y \notin Dependents(L, r.id) /\ (Kind[r.id] = "epic" => y \notin Children(L, r.id))
  BY <1>1
<1> QED
  BY <1>1, <1>2, <1>3, <1>4 DEF Dependents, Children

\* A create locks the items it refers to.
LEMMA CreateLocksReferences ==
  ASSUME NEW L, NEW r, r.op = "create", NEW y \in Items(L), y \notin LockIds(r, L)
  PROVE  y \notin r.deps /\ r.parent # y
BY DEF LockIds, LockIdsForCreate, Items

\* If one of two disjoint commands creates or transitions an item, their items
\* do not refer to each other.
LEMMA DisjointAreUnlinked ==
  ASSUME NEW L, WellTyped(L), ValidLedger(L),
         NEW r \in Requests, Covered(r), Preconditions(r, L),
         NEW s \in Requests, Covered(s), Preconditions(s, L),
         LockIds(r, L) \cap LockIds(s, L) = {}, s.op # "create",
         r.op \in {"create", "transition"} \/ s.op = "transition"
  PROVE  Unlinked(L, r.id, Proposed(r, L), s.id, Proposed(s, L))
<1> DEFINE A == Proposed(r, L)
           B == Proposed(s, L)
<1>1. s.id \in Items(L) /\ s.id \in ItemId /\ r.id \in ItemId /\ NoParent \notin ItemId
  BY RequestShape, LifecycleAssumption DEF Preconditions
<1>2. s.id \notin LockIds(r, L) /\ r.id \notin LockIds(s, L)
  BY DEF LockIds, LockIdsForCreate, LockIdsForTransition
<1>3. B.deps \subseteq L[s.id].deps /\ B.parent \in {L[s.id].parent, NoParent}
  BY ProposedEffect DEF FewerLinks
<1>4. r.op # "create" => /\ r.id \in Items(L)
                         /\ A.deps \subseteq L[r.id].deps /\ A.parent \in {L[r.id].parent, NoParent}
  BY ProposedEffect DEF FewerLinks
<1>5. CASE r.op = "create"
  <2>1. r.id \notin Items(L) /\ A.deps = r.deps /\ A.parent = r.parent
    BY <1>5, ProposedEffect
  <2>2. s.id \notin r.deps /\ r.parent # s.id
    BY <1>1, <1>2, <1>5, CreateLocksReferences
  <2>3. r.id \notin L[s.id].deps /\ L[s.id].parent # r.id
    BY <1>1, <2>1 DEF ValidLedger, DependenciesResolve, ParentsResolve
  <2> HIDE DEF A, B
  <2>4. Unlinked(L, r.id, A, s.id, B)
    BY <1>1, <1>3, <2>1, <2>2, <2>3 DEF Unlinked
  <2> QED
    BY <2>4 DEF A, B
<1>6. CASE r.op # "create"
  <2>1. /\ s.id \notin L[r.id].deps /\ L[r.id].parent # s.id
        /\ r.id \notin L[s.id].deps /\ L[s.id].parent # r.id
    <3>1. CASE r.op = "transition"
      BY <1>1, <1>2, <1>4, <3>1, TransitionLocksNeighbours
    <3>2. CASE s.op = "transition"
      BY <1>1, <1>2, <1>4, <1>6, <3>2, TransitionLocksNeighbours
    <3> QED
      BY <1>6, <3>1, <3>2
  <2> HIDE DEF A, B
  <2>2. Unlinked(L, r.id, A, s.id, B)
    BY <1>1, <1>3, <1>4, <1>6, <2>1 DEF Unlinked
  <2> QED
    BY <2>2 DEF A, B
<1> QED
  BY <1>5, <1>6

\* A command reads of the ledger nothing that a disjoint command changes.
LEMMA DisjointSeeTheSame ==
  ASSUME NEW L, WellTyped(L), ValidLedger(L),
         NEW r \in Requests, Covered(r), Preconditions(r, L),
         NEW s \in Requests, Covered(s), Preconditions(s, L),
         LockIds(r, L) \cap LockIds(s, L) = {}
  PROVE  /\ LockIds(r, Candidate(s, L)) = LockIds(r, L)
         /\ Preconditions(r, Candidate(s, L))
         /\ Proposed(r, Candidate(s, L)) = Proposed(r, L)
<1> DEFINE a == r.id
           b == s.id
           B == Proposed(s, L)
           M == Candidate(s, L)
<1>1. /\ a \in ItemId /\ b \in ItemId /\ NoParent \notin ItemId
      /\ a \notin LockIds(s, L) /\ b \notin LockIds(r, L) /\ a # b
  BY RequestShape, LifecycleAssumption DEF LockIds, LockIdsForCreate, LockIdsForTransition
<1>2. B # NoItem /\ M[b] = B /\ \A i \in ItemId \ {b} : M[i] = L[i]
  BY ProposedEffect, LifecycleAssumption, <1>1 DEF Candidate, WellTyped
<1>3. Items(M) = Items(L) \cup {b}
  <2> HIDE DEF B, M
  <2> QED
    BY <1>1, <1>2 DEF Items
<1>4. s.op # "create" => b \in Items(L) /\ FewerLinks(L[b], B)
  BY ProposedEffect
<1>5. CASE r.op = "create"
  <2>1. s.op # "create" /\ a \notin Items(L)
    BY <1>5 DEF LockIds, LockIdsForCreate, Preconditions
  <2>2. Items(M) = Items(L)
    BY <1>3, <1>4, <2>1
  <2>3. \A i \in Items(L) : M[i].number = L[i].number
    <3> HIDE DEF B, M
    <3> QED
      BY <1>2, <1>4, <2>1 DEF Items, FewerLinks
  <2>4. {M[i].number : i \in Items(M)} = {L[i].number : i \in Items(L)}
    BY <2>2, <2>3
  <2>5. NextItemNumber(M) = NextItemNumber(L)
    <3> HIDE DEF M
    <3> QED
      BY <2>4 DEF NextItemNumber
  <2> HIDE DEF a, b, B, M
  <2>6. LockIds(r, M) = LockIds(r, L)
    BY <1>5, <2>2 DEF LockIds, LockIdsForCreate
  <2>7. Preconditions(r, M)
    BY <1>5, <2>1, <2>2 DEF Preconditions, a
  <2>8. Proposed(r, M) = Proposed(r, L)
    BY <1>5, <2>5 DEF Proposed
  <2> QED
    BY <2>6, <2>7, <2>8 DEF M
<1>6. CASE r.op = "transition"
  <2>1. a \in Items(L) /\ M[a] = L[a]
    BY <1>1, <1>2, <1>6 DEF Preconditions
  <2>2. b \in Items(L) => /\ b \notin L[a].deps /\ L[a].parent # b
                          /\ a \notin L[b].deps /\ L[b].parent # a
    BY <1>1, <1>6, <2>1, TransitionLocksNeighbours
  <2>3. b \notin L[a].deps
    BY <2>1, <2>2 DEF ValidLedger, DependenciesResolve
  <2>4. a \notin B.deps /\ B.parent # a
    <3>1. CASE s.op = "create"
      BY <1>1, <2>1, <3>1, CreateLocksReferences, ProposedEffect
    <3>2. CASE s.op # "create"
      BY <1>1, <1>4, <2>2, <3>2 DEF FewerLinks
    <3> QED
      BY <3>1, <3>2
  <2> HIDE DEF B, M
  <2>5. Children(M, a) = Children(L, a) /\ b \notin Children(L, a)
    BY <1>2, <1>3, <2>2, <2>4 DEF Children, Items
  <2>6. Dependents(M, a) = Dependents(L, a)
    BY <1>2, <1>3, <2>2, <2>4 DEF Dependents, Items
  <2>7. \A c \in Children(L, a) : M[c] = L[c]
    BY <1>2, <2>5 DEF Children, Items
  <2>8. \A d \in L[a].deps : d \in Items(M) /\ M[d] = L[d]
    BY <1>2, <1>3, <2>1, <2>3 DEF ValidLedger, DependenciesResolve, Items
  <2>9. LockIds(r, M) = LockIds(r, L)
    BY <1>6, <2>1, <2>5, <2>6 DEF LockIds, LockIdsForTransition
  <2>10. Preconditions(r, L) /\ a \in Items(M)
    BY <1>3, <2>1
  <2>11. TransitionPreconditions(M, a, r.to)
    <3>1. TransitionPreconditions(L, a, r.to)
      BY <1>6, <2>10 DEF Preconditions
    <3> HIDE DEF a
    <3> QED
      BY <2>1, <2>5, <2>7, <2>8, <3>1 DEF TransitionPreconditions
  <2>12. TransitionBlockers(M, a, r.to) = {}
    <3>1. TransitionBlockers(L, a, r.to) = {}
      BY <1>6, <2>10 DEF Preconditions
    <3> HIDE DEF a
    <3> QED
      BY <2>5, <2>6, <2>7, <3>1 DEF TransitionBlockers
  <2>13. Preconditions(r, M)
    BY <1>6, <2>10, <2>11, <2>12 DEF Preconditions
  <2>14. Transitioned(M, a, r.to) = Transitioned(L, a, r.to)
    <3>1. {<<c, M[c].status>> : c \in Children(M, a)} = {<<c, L[c].status>> : c \in Children(L, a)}
      BY <2>5, <2>7
    <3> HIDE DEF a
    <3> QED
      BY <2>1, <3>1 DEF Transitioned
  <2>15. Proposed(r, M) = Proposed(r, L)
    BY <1>6, <2>14 DEF Proposed
  <2> QED
    BY <2>9, <2>13, <2>15 DEF M
<1>7. CASE r.op \in {"patch", "parent-migrate"}
  <2>1. a \in Items(L) /\ M[a] = L[a] /\ a \in Items(M)
    BY <1>1, <1>2, <1>3, <1>7 DEF Preconditions
  <2> HIDE DEF b, B, M
  <2>2. LockIds(r, M) = LockIds(r, L)
    BY <1>7 DEF LockIds
  <2>3. Preconditions(r, M)
    BY <1>7, <2>1 DEF Preconditions, Covered
  <2>4. Proposed(r, M) = Proposed(r, L)
    BY <1>7, <2>1 DEF Proposed
  <2> QED
    BY <2>2, <2>3, <2>4 DEF M
<1> QED
  BY <1>5, <1>6, <1>7, RequestShape

\* The candidate of a command stays valid when a disjoint command comes first.
LEMMA DisjointStayValid ==
  ASSUME NEW L, WellTyped(L),
         NEW r \in Requests, Covered(r), Accepts(r, L),
         NEW s \in Requests, Covered(s), Accepts(s, L),
         LockIds(r, L) \cap LockIds(s, L) = {}
  PROVE  ValidLedger([Candidate(s, L) EXCEPT ![r.id] = Proposed(r, L)])
<1> DEFINE A == Proposed(r, L)
           B == Proposed(s, L)
           M1 == Candidate(r, L)
           M2 == Candidate(s, L)
           M == [M2 EXCEPT ![r.id] = A]
<1>1. /\ Preconditions(r, L) /\ Preconditions(s, L)
      /\ ValidLedger(L) /\ ValidLedger(M1) /\ ValidLedger(M2)
  BY DEF Accepts
<1>2. r.id \in ItemId /\ s.id \in ItemId /\ r.id # s.id
  BY RequestShape DEF LockIds, LockIdsForCreate, LockIdsForTransition
<1>3. A \in Item /\ B \in Item
  BY <1>1, ProposedEffect
<1>4. M1 = [L EXCEPT ![r.id] = A] /\ M2 = [L EXCEPT ![s.id] = B]
  BY DEF Candidate
<1>5. M = [M1 EXCEPT ![s.id] = B]
  <2> HIDE DEF A, B
  <2> QED
    BY <1>2, <1>4 DEF WellTyped
<1>6. s.id \in Items(L) => Changes(L, r.id, A, s.id, B, M1, M2, M)
  <2> HIDE DEF A, B, M1, M2
  <2> QED
    BY <1>1, <1>2, <1>3, <1>4 DEF Changes
<1>7. r.id \in Items(L) => Changes(L, s.id, B, r.id, A, M2, M1, M)
  <2> HIDE DEF A, B, M1, M2, M
  <2> QED
    BY <1>1, <1>2, <1>3, <1>4, <1>5 DEF Changes
<1>8. CASE s.op # "create"
  <2>1. s.id \in Items(L) /\ FewerLinks(L[s.id], B)
    BY <1>1, <1>8, ProposedEffect
  <2>2. CASE r.op \in {"create", "transition"} \/ s.op = "transition"
    <3>1. Unlinked(L, r.id, A, s.id, B)
      BY <1>1, <1>8, <2>2, DisjointAreUnlinked
    <3> HIDE DEF A, B, M1, M2, M
    <3>2. ValidLedger(M)
      BY <1>6, <2>1, <3>1, UnlinkedChanges
    <3> QED
      BY <3>2 DEF A, M2, M
  <2>3. CASE ~ (r.op \in {"create", "transition"} \/ s.op = "transition")
    <3>1. r.op \in {"patch", "parent-migrate"} /\ s.op \in {"patch", "parent-migrate"}
      BY <1>8, <2>3, RequestShape
    <3>2. /\ r.id \in Items(L) /\ FewerLinks(L[r.id], A)
          /\ A.status = L[r.id].status /\ A.rollup = L[r.id].rollup
          /\ B.status = L[s.id].status /\ B.rollup = L[s.id].rollup
      BY <1>1, <3>1, ProposedEffect
    <3> HIDE DEF A, B, M1, M2, M
    <3>3. ValidLedger(M)
      BY <1>6, <2>1, <3>2, FewerLinksOfTwo
    <3> QED
      BY <3>3 DEF A, M2, M
  <2> QED
    BY <2>2, <2>3
<1>9. CASE s.op = "create"
  <2>1. r.op # "create"
    BY <1>9 DEF LockIds, LockIdsForCreate
  <2>2. r.id \in Items(L) /\ FewerLinks(L[r.id], A)
    BY <1>1, <2>1, ProposedEffect
  <2>3. Unlinked(L, s.id, B, r.id, A)
    BY <1>1, <1>9, <2>1, DisjointAreUnlinked
  <2> HIDE DEF A, B, M1, M2, M
  <2>4. ValidLedger(M)
    BY <1>7, <2>2, <2>3, UnlinkedChanges
  <2> QED
    BY <2>4 DEF A, M2, M
<1> QED
  BY <1>8, <1>9

\* So what a command decided stands, whatever disjoint command is published first.
LEMMA DisjointCommute ==
  ASSUME NEW L, WellTyped(L),
         NEW r \in Requests, Covered(r), Accepts(r, L),
         NEW s \in Requests, Covered(s), Accepts(s, L),
         LockIds(r, L) \cap LockIds(s, L) = {}
  PROVE  /\ LockIds(r, Candidate(s, L)) = LockIds(r, L)
         /\ Accepts(r, Candidate(s, L))
         /\ Proposed(r, Candidate(s, L)) = Proposed(r, L)
<1>1. /\ ValidLedger(L) /\ ValidLedger(Candidate(s, L))
      /\ Preconditions(r, L) /\ Preconditions(s, L)
  BY DEF Accepts
<1>2. /\ LockIds(r, Candidate(s, L)) = LockIds(r, L)
      /\ Preconditions(r, Candidate(s, L))
      /\ Proposed(r, Candidate(s, L)) = Proposed(r, L)
  BY <1>1, DisjointSeeTheSame
<1>3. Candidate(r, Candidate(s, L)) = [Candidate(s, L) EXCEPT ![r.id] = Proposed(r, L)]
  <2>1. Candidate(r, Candidate(s, L))
          = [Candidate(s, L) EXCEPT ![r.id] = Proposed(r, Candidate(s, L))]
    BY DEF Candidate
  <2> QED
    BY <1>2, <2>1
<1>4. ValidLedger(Candidate(r, Candidate(s, L)))
  <2>1. ValidLedger([Candidate(s, L) EXCEPT ![r.id] = Proposed(r, L)])
    BY DisjointStayValid
  <2> QED
    BY <1>3, <2>1, Zenon
<1> QED
  BY <1>1, <1>2, <1>4 DEF Accepts

-----------------------------------------------------------------------------
(* Commands that cover what they decide about.                             *)

CoveredOnly == \A r \in Requests : Covered(r)

\* What a command decided still holds when it comes to publish it: it holds every
\* lock its decision calls for now, its preconditions hold, and its proposal is
\* what it would propose again.
StillDecided(p) ==
  pc[p] = "publish" =>
    /\ LockIds(request[p], ledger) \subseteq Held(p)
    /\ Accepts(request[p], ledger)
    /\ proposal[p] = Proposed(request[p], ledger)

LedgerInv ==
  /\ IInv
  /\ WellTyped(ledger)
  /\ ValidLedger(ledger)
  /\ \A p \in Process : StillDecided(p)

LEMMA InitLedgerInv == Init => LedgerInv
<1> SUFFICES ASSUME Init PROVE LedgerInv
  OBVIOUS
<1>1. WellTyped(ledger) /\ ValidLedger(ledger)
  BY MutationAssumption DEF Init, WellTyped
<1>2. \A p \in Process : pc[p] = "idle"
  BY DEF Init
<1> QED
  BY <1>1, <1>2, InitInv DEF LedgerInv, StillDecided

\* Only Publish writes the ledger, and only Decide leads to it.
LEMMA QuietStep ==
  ASSUME IInv, NEW q \in Process, Start(q) \/ Step(q) \/ Crash(q), ~ Publish(q)
  PROVE  ledger' = ledger /\ (pc'[q] = "publish" => Decide(q))
<1>1. pc \in [Process -> Label]
  BY DEF IInv, Shapes
<1>2. CASE Start(q)
  BY <1>1, <1>2 DEF Start, Goto
<1>3. CASE Read(q)
  BY <1>1, <1>3 DEF Read, Goto
<1>4. CASE RefuseUnlocked(q)
  BY <1>1, <1>4 DEF RefuseUnlocked, Goto
<1>5. CASE AcquireLock(q)
  BY <1>1, <1>5 DEF AcquireLock, Goto
<1>6. CASE LockHeld(q)
  BY <1>1, <1>6 DEF LockHeld, Goto
<1>7. CASE ClosureChanged(q)
  BY <1>1, <1>7 DEF ClosureChanged, Goto, Locked
<1>8. CASE RefuseLocked(q)
  BY <1>1, <1>8 DEF RefuseLocked, Goto, Locked
<1>9. CASE PublishFails(q)
  BY <1>1, <1>9 DEF PublishFails, Goto
<1>10. CASE Verify(q)
  BY <1>1, <1>10 DEF Verify, Goto
<1>11. CASE ReleaseLock(q)
  BY <1>1, <1>11 DEF ReleaseLock, Goto
<1>12. CASE Retry(q)
  BY <1>1, <1>12 DEF Retry, Goto
<1>13. CASE Answer(q)
  BY <1>1, <1>13 DEF Answer, Goto, Forget
<1>14. CASE Decide(q)
  BY <1>14 DEF Decide
<1>15. CASE Crash(q)
  BY <1>1, <1>15 DEF Crash, Forget, Goto
<1> QED
  BY <1>2, <1>3, <1>4, <1>5, <1>6, <1>7, <1>8,
     <1>9, <1>10, <1>11, <1>12, <1>13, <1>14, <1>15
  DEF Step

\* What Decide decided holds at once.
LEMMA DecidedStands ==
  ASSUME IInv, NEW q \in Process, Decide(q)
  PROVE  StillDecided(q)'
<1>1. /\ wanted[q] \subseteq Held(q)
      /\ LockIds(request[q], ledger) = wanted[q]
      /\ Accepts(request[q], ledger)
      /\ proposal' = [proposal EXCEPT ![q] = Proposed(request[q], ledger)]
      /\ UNCHANGED <<ledger, lock, request>>
  BY DEF Decide, Locked, Authorized
<1>2. proposal'[q] = Proposed(request[q], ledger)
  BY <1>1 DEF IInv, Shapes
<1>3. Held(q)' = Held(q) /\ request'[q] = request[q]
  BY <1>1 DEF Held
<1> QED
  BY <1>1, <1>2, <1>3 DEF StillDecided

\* A publication is the atomic command of its request.
LEMMA PublishApplies ==
  ASSUME LedgerInv, NEW q \in Process, Publish(q)
  PROVE  /\ request[q] \in Requests
         /\ Accepts(request[q], ledger)
         /\ ledger' = Candidate(request[q], ledger)
<1>1. pc[q] = "publish" /\ ledger' = [ledger EXCEPT ![request[q].id] = proposal[q]]
  BY DEF Publish
<1>2. request[q] \in Requests
  BY <1>1 DEF LedgerInv, IInv, ProcessInv, Asked
<1>3. Accepts(request[q], ledger) /\ proposal[q] = Proposed(request[q], ledger)
  BY <1>1 DEF LedgerInv, StillDecided
<1> QED
  BY <1>1, <1>2, <1>3 DEF Candidate

\* Another process stays ready: q changed nothing it looks at.
LEMMA OthersStand ==
  ASSUME CoveredOnly, LedgerInv, NEW q \in Process, Start(q) \/ Step(q) \/ Crash(q),
         NEW p \in Process \ {q}
  PROVE  StillDecided(p)'
<1>1. SUFFICES ASSUME pc'[p] = "publish"
      PROVE  /\ LockIds(request'[p], ledger') \subseteq Held(p)'
             /\ Accepts(request'[p], ledger')
             /\ proposal'[p] = Proposed(request'[p], ledger')
  BY DEF StillDecided
<1>2. Framed(q)
  BY StepIsFramed DEF LedgerInv
<1>3. /\ pc[p] = "publish" /\ request'[p] = request[p] /\ proposal'[p] = proposal[p]
      /\ Held(p)' = Held(p)
  BY <1>1, <1>2 DEF Framed, Held
<1>4. /\ LockIds(request[p], ledger) \subseteq Held(p)
      /\ Accepts(request[p], ledger)
      /\ proposal[p] = Proposed(request[p], ledger)
  BY <1>3 DEF LedgerInv, StillDecided
<1>5. CASE ~ Publish(q)
  <2>1. ledger' = ledger
    BY <1>5, QuietStep DEF LedgerInv
  <2> QED
    BY <1>3, <1>4, <2>1
<1>6. CASE Publish(q)
  <2>1. /\ request[q] \in Requests /\ request[p] \in Requests
        /\ Accepts(request[q], ledger)
        /\ ledger' = Candidate(request[q], ledger)
    BY <1>3, <1>6, PublishApplies DEF LedgerInv, IInv, ProcessInv, Asked
  <2>2. LockIds(request[q], ledger) \subseteq Held(q)
    BY <1>6 DEF LedgerInv, StillDecided, Publish
  <2>3. Held(p) \cap Held(q) = {}
    BY DEF Held
  <2>4. LockIds(request[p], ledger) \cap LockIds(request[q], ledger) = {}
    BY <1>4, <2>2, <2>3
  <2>5. WellTyped(ledger) /\ Covered(request[p]) /\ Covered(request[q])
    BY <2>1 DEF LedgerInv, CoveredOnly
  <2>6. /\ LockIds(request[p], Candidate(request[q], ledger)) = LockIds(request[p], ledger)
        /\ Accepts(request[p], Candidate(request[q], ledger))
        /\ Proposed(request[p], Candidate(request[q], ledger)) = Proposed(request[p], ledger)
    BY <1>4, <2>1, <2>4, <2>5, DisjointCommute
  <2> QED
    BY <1>3, <1>4, <2>1, <2>6
<1> QED
  BY <1>5, <1>6

LEMMA StepLedgerInv ==
  ASSUME CoveredOnly, LedgerInv, [Next]_vars
  PROVE  LedgerInv'
<1>1. IInv'
  BY StepInv DEF LedgerInv
<1>2. ASSUME NEW q \in Process, Start(q) \/ Step(q) \/ Crash(q) PROVE LedgerInv'
  <2>1. WellTyped(ledger)' /\ ValidLedger(ledger)'
    <3>1. CASE Publish(q)
      <4>1. /\ request[q] \in Requests /\ Covered(request[q])
            /\ Accepts(request[q], ledger)
            /\ ledger' = Candidate(request[q], ledger)
        BY <3>1, PublishApplies DEF CoveredOnly
      <4>2. Preconditions(request[q], ledger) /\ ValidLedger(Candidate(request[q], ledger))
        BY <4>1 DEF Accepts
      <4>3. WellTyped(Candidate(request[q], ledger))
        BY <4>1, <4>2, CandidateIsTyped DEF LedgerInv
      <4> QED
        BY <4>1, <4>2, <4>3
    <3>2. CASE ~ Publish(q)
      <4>1. ledger' = ledger
        BY <1>2, <3>2, QuietStep DEF LedgerInv
      <4> QED
        BY <4>1 DEF LedgerInv
    <3> QED
      BY <3>1, <3>2
  <2>2. \A p \in Process \ {q} : StillDecided(p)'
    BY <1>2, OthersStand
  <2>3. StillDecided(q)'
    <3>1. CASE Publish(q)
      <4>1. pc' = [pc EXCEPT ![q] = "verify"] /\ pc \in [Process -> Label]
        BY <3>1 DEF Publish, Goto, LedgerInv, IInv, Shapes
      <4> QED
        BY <4>1 DEF StillDecided
    <3>2. CASE ~ Publish(q)
      <4>1. pc'[q] = "publish" => Decide(q)
        BY <1>2, <3>2, QuietStep DEF LedgerInv
      <4>2. Decide(q) => StillDecided(q)'
        BY DecidedStands DEF LedgerInv
      <4> QED
        BY <4>1, <4>2 DEF StillDecided
    <3> QED
      BY <3>1, <3>2
  <2> QED
    BY <1>1, <2>1, <2>2, <2>3 DEF LedgerInv
<1>3. CASE UNCHANGED vars
  <2>1. /\ ledger' = ledger
        /\ \A p \in Process : StillDecided(p)' = StillDecided(p)
    BY <1>3 DEF vars, StillDecided, Held
  <2> QED
    BY <1>1, <2>1 DEF LedgerInv
<1> QED
  BY <1>2, <1>3 DEF Next

LEMMA LedgerInvariance ==
  ASSUME CoveredOnly
  PROVE  Spec => []LedgerInv
<1>1. LedgerInv /\ [Next]_vars => LedgerInv'
  BY StepLedgerInv
<1> QED
  BY InitLedgerInv, <1>1, PTL DEF Spec

\* If no patch or migration adds a reference, no interleaving of commands, with
\* any deaths, publishes a ledger that validation rejects: each candidate was
\* validated against a ledger others were about to change, but only where it does
\* not refer.
THEOREM LedgersStayValid ==
  ASSUME CoveredOnly
  PROVE  Spec => []LedgerStaysValid
<1>1. LedgerInv => LedgerStaysValid
  BY DEF LedgerInv, LedgerStaysValid
<1> QED
  BY LedgerInvariance, <1>1, PTL

\* Under the same proviso the commands, with their two reads, locks, retries and
\* deaths, do nothing that atomic commands would not do.
THEOREM CommandsAreAtomic ==
  ASSUME CoveredOnly
  PROVE  Spec => ImplementsAtomic
<1>1. Init => AtomicInit
  BY MutationAssumption DEF Init, AtomicInit
<1>2. LedgerInv /\ [Next]_vars => [AtomicNext]_ledger
  <2> SUFFICES ASSUME LedgerInv, Next, ledger' # ledger
               PROVE  AtomicNext
    BY DEF vars
  <2>1. PICK q \in Process : Start(q) \/ Step(q) \/ Crash(q)
    BY DEF Next
  <2>2. Publish(q)
    BY <2>1, QuietStep DEF LedgerInv
  <2>3. /\ request[q] \in Requests
        /\ Accepts(request[q], ledger)
        /\ ledger' = Candidate(request[q], ledger)
    BY <2>2, PublishApplies
  <2>4. Apply(request[q])
    BY <2>3 DEF Apply, Accepts
  <2> QED
    BY <2>3, <2>4 DEF AtomicNext
<1> QED
  BY LedgerInvariance, <1>1, <1>2, PTL DEF Spec, ImplementsAtomic, AtomicSpec

-----------------------------------------------------------------------------
(* The dated ledger.                                                       *)

DatedInv == dated \in DatedLedgers /\ ValidDated(dated)

\* What a write does to the item: it is new, as of its date, or it keeps its creation
\* and its place, its dates do not go back, and a date that it gets is that of the
\* write.  Only a patch changes its dependencies, and that does not complete it.
WriteEffect(old, new) ==
  \/ /\ old = NoItem
     /\ new.created = new.updated
     /\ new.status # "done"
  \/ /\ old # NoItem
     /\ new.created = old.created
     /\ new.parent = old.parent
     /\ old.status # "done" /\ new.status = "done" => new.deps = old.deps
     /\ new.left \in {old.left, Never} \/ (old.left = Never /\ new.left = new.updated)
     /\ new.accepted = old.accepted \/ (old.accepted = Never /\ new.accepted = new.updated)

\* A step leaves the ledger alone, or writes one item of it.
Written(i) ==
  /\ dated'[i] \in DatedItem
  /\ dated' = [dated EXCEPT ![i] = dated'[i]]
  /\ ValidDated(dated')
  /\ WriteEffect(dated[i], dated'[i])

LEMMA ItemIsTyped ==
  ASSUME dated \in DatedLedgers, NEW i \in ItemId, dated[i] # NoItem
  PROVE  dated[i] \in DatedItem
BY DEF DatedLedgers

LEMMA WriteStep ==
  ASSUME DatedInv, [ProjectionsNext]_projectionVars
  PROVE  dated' = dated \/ \E i \in ItemId : Written(i)
<1>t. dated \in DatedLedgers /\ ValidDated(dated)
  BY DEF DatedInv
<1> USE ProjectionsAssumption, LifecycleAssumption
<1>1. ASSUME NEW i \in ItemId, NEW date \in Dates, NEW parent \in ItemId \cup {NoParent},
             NEW deps \in SomeDeps, Create(i, parent, deps, date)
      PROVE  Written(i)
  <2> DEFINE item ==
        [number |-> NextItemNumber(dated), status |-> "triage", deps |-> deps,
         parent |-> parent, rollup |-> {}, created |-> date, updated |-> date,
         accepted |-> Never, left |-> Never, snoozed |-> Never]
  <2>1. dated[i] = NoItem /\ dated' = [dated EXCEPT ![i] = item] /\ ValidDated(dated')
    BY <1>1 DEF Create, Write
  <2>2. item \in DatedItem
    <3>1. NextItemNumber(dated) \in Nat /\ date \in Nat /\ deps \in SUBSET ItemId
      <4>1. \A n \in Items(dated) : dated[n].number \in Nat
        BY <1>t DEF Items, DatedLedgers, DatedItem
      <4> QED
        BY <4>1, NextNumber DEF SomeDeps
    <3> QED
      BY <3>1 DEF DatedItem, Status, Never
  <2>3. dated'[i] = item
    BY <1>t, <2>1 DEF DatedLedgers
  <2>4. WriteEffect(dated[i], item)
    BY <2>1 DEF WriteEffect
  <2> HIDE DEF item
  <2> QED
    BY <2>1, <2>2, <2>3, <2>4 DEF Written
<1>2. ASSUME NEW i \in ItemId, NEW date \in Dates, NEW deps \in SomeDeps, Patch(i, deps, date)
      PROVE  Written(i)
  <2> DEFINE item == [dated[i] EXCEPT !.deps = deps, !.updated = date]
  <2>1. dated[i] \in DatedItem /\ dated[i] # NoItem
    BY <1>t, <1>2, ItemIsTyped DEF Patch, Touchable
  <2>2. dated' = [dated EXCEPT ![i] = item] /\ ValidDated(dated')
    BY <1>2 DEF Patch, Write
  <2>3. item \in DatedItem
    <3>1. date \in Nat /\ deps \in SUBSET ItemId
      BY DEF SomeDeps
    <3> QED
      BY <2>1, <3>1 DEF DatedItem
  <2>4. dated'[i] = item
    BY <1>t, <2>2 DEF DatedLedgers
  <2>5. WriteEffect(dated[i], item)
    BY <2>1 DEF WriteEffect, DatedItem
  <2> HIDE DEF item
  <2> QED
    BY <2>2, <2>3, <2>4, <2>5 DEF Written
<1>3. ASSUME NEW i \in ItemId, NEW date \in Dates, NEW to \in Status, Transition(i, to, date)
      PROVE  Written(i)
  <2> DEFINE item ==
        [Transitioned(dated, i, to) EXCEPT
           !.updated = date,
           !.left = TerminalDate(i, to, date),
           !.accepted = IF dated[i].status = "triage" /\ to = "backlog" /\ @ = Never
                        THEN date ELSE @]
  <2>1. dated[i] \in DatedItem /\ dated[i] # NoItem
    BY <1>t, <1>3, ItemIsTyped DEF Transition, Touchable
  <2>2. dated' = [dated EXCEPT ![i] = item] /\ ValidDated(dated')
    BY <1>3 DEF Transition, Write
  <2>3. {<<c, dated[c].status>> : c \in Children(dated, i)} \in SUBSET (ItemId \X Status)
    BY <1>t DEF Children, Items, DatedLedgers, DatedItem
  <2>4. /\ Transitioned(dated, i, to) \in DatedItem
        /\ \A f \in {"created", "updated", "accepted", "left"} :
             Transitioned(dated, i, to)[f] = dated[i][f]
        /\ Transitioned(dated, i, to).parent = dated[i].parent
        /\ Transitioned(dated, i, to).deps = dated[i].deps
        /\ Transitioned(dated, i, to).status = to
    BY <2>1, <2>3 DEF DatedItem, Transitioned
  <2>5. item \in DatedItem
    BY <2>4 DEF DatedItem, TerminalDate, Never
  <2>6. dated'[i] = item
    BY <1>t, <2>2 DEF DatedLedgers
  <2>7. <<dated[i].status, to>> \in Edges(Kind[i])
    BY <1>3 DEF Transition, TransitionPreconditions
  <2>8. to \in {"done", "killed", "archived", "deferred"} => dated[i].left = Never
    <3>1. to \in {"done", "killed", "archived", "deferred"} =>
            dated[i].status \notin {"done", "killed", "archived", "deferred"}
      BY <2>7 DEF Edges
    <3>2. TerminalDatesMatch(dated) /\ i \in Items(dated)
      BY <1>t, <2>1 DEF ValidDated, Items
    <3> QED
      BY <3>1, <3>2 DEF TerminalDatesMatch
  <2>9. WriteEffect(dated[i], item)
    BY <2>1, <2>4, <2>8 DEF WriteEffect, DatedItem, TerminalDate
  <2> HIDE DEF item
  <2> QED
    BY <2>2, <2>5, <2>6, <2>9 DEF Written
<1>4. ASSUME NEW i \in ItemId, NEW date \in Dates, NEW until \in Until \cup {Never},
             Snooze(i, until, date)
      PROVE  Written(i)
  <2> DEFINE item == [dated[i] EXCEPT !.snoozed = until, !.updated = date]
  <2>1. dated[i] \in DatedItem /\ dated[i] # NoItem
    BY <1>t, <1>4, ItemIsTyped DEF Snooze, Touchable
  <2>2. dated' = [dated EXCEPT ![i] = item] /\ ValidDated(dated')
    BY <1>4 DEF Snooze, Write
  <2>3. item \in DatedItem
    <3>1. until \in Nat /\ date \in Nat
      BY DEF Never
    <3> QED
      BY <2>1, <3>1 DEF DatedItem
  <2>4. dated'[i] = item
    BY <1>t, <2>2 DEF DatedLedgers
  <2>5. WriteEffect(dated[i], item)
    BY <2>1 DEF WriteEffect, DatedItem
  <2> HIDE DEF item
  <2> QED
    BY <2>2, <2>3, <2>4, <2>5 DEF Written
<1>5. ASSUME NEW q \in Query, NEW size \in PageSize,
             NEW resume \in {NoCursor, reader.traversal.cursor}, Ask(q, size, resume)
      PROVE  dated' = dated
  BY <1>5 DEF Ask
<1>6. LoadFile \/ AnswerPage => dated' = dated
  BY DEF LoadFile, AnswerPage
<1> QED
  BY <1>1, <1>2, <1>3, <1>4, <1>5, <1>6 DEF ProjectionsNext, projectionVars

LEMMA DatedInvariance == ProjectionsSpec => []DatedInv
<1>1. ProjectionsInit => DatedInv
  BY ProjectionsAssumption DEF ProjectionsInit, DatedInv
<1>2. DatedInv /\ [ProjectionsNext]_projectionVars => DatedInv'
  <2> SUFFICES ASSUME DatedInv, [ProjectionsNext]_projectionVars PROVE DatedInv'
    OBVIOUS
  <2>1. CASE dated' = dated
    BY <2>1 DEF DatedInv, ValidDated, ValidLedger, TerminalDatesMatch, DatesOrdered
  <2>2. ASSUME NEW i \in ItemId, Written(i) PROVE DatedInv'
    BY <2>2 DEF Written, DatedInv, DatedLedgers
  <2> QED
    BY <2>1, <2>2, WriteStep
<1> QED
  BY <1>1, <1>2, PTL DEF ProjectionsSpec

-----------------------------------------------------------------------------
(* The past.                                                               *)

\* Two ledgers of whose items the same had arrived, were accepted and were over on a
\* date show the same point.
LEMMA SamePoint ==
  ASSUME NEW L, NEW M, NEW date,
         \A j \in ItemId :
           LET ArrivedL == L[j] # NoItem /\ L[j].created <= date
               ArrivedM == M[j] # NoItem /\ M[j].created <= date
           IN  /\ ArrivedL <=> ArrivedM
               /\ ArrivedL =>
                    /\ L[j].left # Never /\ L[j].left <= date
                         <=> M[j].left # Never /\ M[j].left <= date
                    /\ L[j].accepted # Never /\ L[j].accepted <= date
                         <=> M[j].accepted # Never /\ M[j].accepted <= date
  PROVE  PointOf(L, date) = PointOf(M, date)
<1> DEFINE Arrived(X) == {j \in Items(X) : X[j].created <= date}
           Gone(X) == {j \in Arrived(X) : X[j].left # Never /\ X[j].left <= date}
           Taken(X) == {j \in Arrived(X) \ Gone(X) :
                          X[j].accepted # Never /\ X[j].accepted <= date}
<1>1. Arrived(L) = Arrived(M)
  BY DEF Items
<1>2. Gone(L) = Gone(M)
  BY DEF Items
<1>3. Taken(L) = Taken(M)
  BY <1>1, <1>2 DEF Items
<1>4. \A X : PointOf(X, date) =
        [triage |-> Cardinality(Arrived(X) \ (Gone(X) \cup Taken(X))),
         accepted |-> Cardinality(Taken(X)), terminal |-> Cardinality(Gone(X))]
  BY DEF PointOf
<1> HIDE DEF Arrived, Gone, Taken
<1> QED
  BY <1>1, <1>2, <1>3, <1>4

\* What a report replays of the days before a change stays as it was, unless the
\* change takes an item back into the backlog: buildCumulativeFlow counts by the dates
\* of creation, first acceptance and end, and a change sets no other date than its own.
THEOREM ThePastStands == ProjectionsSpec => PastPointsStand
<1> DEFINE Stands ==
      \A i \in ItemId : dated'[i] # dated[i] =>
        \/ dated[i] # NoItem /\ dated[i].left # Never /\ dated'[i].left = Never
        \/ \A date \in Dates : date < dated'[i].updated =>
             PointOf(dated', date) = PointOf(dated, date)
<1>1. ASSUME DatedInv, [ProjectionsNext]_projectionVars PROVE Stands
  <2> SUFFICES ASSUME NEW i \in ItemId, dated'[i] # dated[i],
                      ~ (dated[i] # NoItem /\ dated[i].left # Never /\ dated'[i].left = Never),
                      NEW date \in Dates, date < dated'[i].updated
               PROVE  PointOf(dated', date) = PointOf(dated, date)
    OBVIOUS
  <2>1. dated \in DatedLedgers
    BY <1>1 DEF DatedInv
  <2>2. PICK k \in ItemId : Written(k)
    BY <1>1, WriteStep
  <2>3. k = i
    BY <2>1, <2>2 DEF Written, DatedLedgers
  <2>4. /\ dated'[i] \in DatedItem
        /\ \A j \in ItemId \ {i} : dated'[j] = dated[j]
        /\ WriteEffect(dated[i], dated'[i])
    BY <2>1, <2>2, <2>3 DEF Written, DatedLedgers
  <2>5. dated'[i] # NoItem /\ date \in Nat
    BY <2>4, ProjectionsAssumption
  <2>6. dated[i] # NoItem => dated[i] \in DatedItem
    BY <2>1, ItemIsTyped
  <2>7. CASE dated[i] = NoItem
    <3>1. ~ dated'[i].created <= date
      BY <2>4, <2>5, <2>7 DEF WriteEffect, DatedItem
    <3> QED
      BY <2>4, <2>7, <3>1, SamePoint
  <2>8. CASE dated[i] # NoItem
    <3>1. /\ dated'[i].created = dated[i].created
          /\ dated'[i].left = dated[i].left
               \/ (dated[i].left = Never /\ dated'[i].left = dated'[i].updated)
          /\ dated'[i].accepted = dated[i].accepted
               \/ (dated[i].accepted = Never /\ dated'[i].accepted = dated'[i].updated)
      BY <2>4, <2>8 DEF WriteEffect
    <3>2. dated'[i].updated \in Nat /\ ~ dated'[i].updated <= date
      BY <2>4, <2>5 DEF DatedItem
    <3> QED
      BY <2>4, <2>5, <2>8, <3>1, <3>2, SamePoint
  <2> QED
    BY <2>7, <2>8
<1> QED
  BY <1>1, DatedInvariance, PTL DEF ProjectionsSpec, PastPointsStand
-----------------------------------------------------------------------------
(* Impact.                                                                 *)

\* M is L with item i done and otherwise as far as readiness goes the same.
Completes(L, M, i) ==
  /\ L[i] # NoItem /\ M[i] # NoItem
  /\ M[i].status = "done"
  /\ M[i].deps = L[i].deps
  /\ M[i].parent = L[i].parent
  /\ \A j \in ItemId \ {i} : M[j] = L[j]

LEMMA SameParents ==
  ASSUME NEW L, NEW M, NEW i \in ItemId, Completes(L, M, i)
  PROVE  Items(M) = Items(L) /\ Parents(M) = Parents(L)
<1>1. Items(M) = Items(L)
  BY DEF Completes, Items
<1>2. \A j \in Items(L) : M[j].parent = L[j].parent
  BY DEF Completes, Items
<1> QED
  BY <1>1, <1>2 DEF Parents

\* Readiness of the other items depends on no more of it.
LEMMA SameReadiness ==
  ASSUME NEW L, NEW M, NEW N, NEW i \in ItemId, Completes(L, M, i), Completes(L, N, i),
         NEW j \in ItemId \ {i}, NEW asOf, Ready(M, j, asOf)
  PROVE  Ready(N, j, asOf)
<1>1. Items(M) = Items(L) /\ Parents(M) = Parents(L) /\ Items(N) = Items(L)
        /\ Parents(N) = Parents(L)
  BY SameParents
<1>2. M[j] = N[j] /\ (\A k \in ItemId : M[k].status = N[k].status)
  BY DEF Completes
<1>3. ~ Ineligible(N, j, asOf)
  BY <1>2 DEF Ready, Ineligible
<1>4. UnsatisfiedDependencies(N, j) = {}
  <2>1. UnsatisfiedDependencies(M, j) = {}
    BY DEF Ready
  <2>2. ASSUME NEW d \in N[j].deps, d \notin Items(N) \/ N[d].status # "done" PROVE FALSE
    BY <1>1, <1>2, <2>1, <2>2 DEF UnsatisfiedDependencies, Items
  <2> QED
    BY <2>2 DEF UnsatisfiedDependencies
<1>5. AncestorReasons(N, j) = {}
  <2>1. AncestorReasons(M, j) = {}
    BY DEF Ready
  <2>2. ASSUME NEW a \in Ancestors(Parents(L), j), a \notin Items(N) \/ N[a].status # "backlog"
        PROVE  FALSE
    BY <1>1, <1>2, <2>1, <2>2 DEF AncestorReasons, Items
  <2> QED
    BY <1>1, <2>2 DEF AncestorReasons
<1> QED
  BY <1>3, <1>4, <1>5 DEF Ready

\* What becomes ready by it waited for it.
LEMMA ReleasedIsDependent ==
  ASSUME NEW L, NEW M, NEW i \in ItemId, Completes(L, M, i),
         NEW j \in ItemId, NEW asOf, Ready(M, j, asOf), ~ Ready(L, j, asOf)
  PROVE  j # i /\ i \in L[j].deps
<1>1. j # i
  BY DEF Ready, Ineligible, Completes
<1>2. Items(M) = Items(L) /\ Parents(M) = Parents(L) /\ M[j] = L[j]
  BY <1>1, SameParents DEF Completes
<1>3. ~ Ineligible(L, j, asOf)
  BY <1>2 DEF Ready, Ineligible
<1>4. AncestorReasons(L, j) = {}
  <2>1. AncestorReasons(M, j) = {}
    BY DEF Ready
  <2>2. ASSUME NEW a \in Ancestors(Parents(L), j), a \notin Items(L) \/ L[a].status # "backlog"
        PROVE  a \notin Items(M) \/ M[a].status # "backlog"
    BY <1>2, <2>2 DEF Completes, Items
  <2> QED
    BY <1>2, <2>1, <2>2 DEF AncestorReasons
<1>5. PICK d \in L[j].deps : d \notin Items(L) \/ L[d].status # "done"
  BY <1>3, <1>4 DEF Ready, UnsatisfiedDependencies
<1>6. UnsatisfiedDependencies(M, j) = {}
  BY DEF Ready
<1>7. d \in Items(M) /\ M[d].status = "done"
  BY <1>2, <1>5, <1>6 DEF UnsatisfiedDependencies
<1>8. d = i
  BY <1>2, <1>5, <1>7 DEF Completes, Items
<1> QED
  BY <1>1, <1>5, <1>8

LEMMA DependentIsAffected ==
  ASSUME NEW L, NEW retained, NEW i, NEW j \in retained \ {i}, i \in L[j].deps
  PROVE  j \in Affected(L, retained, i)
BY DEF Affected

LEMMA ImpactOfCompletion ==
  ASSUME NEW L, NEW M, NEW i \in ItemId, Completes(L, M, i), Completes(L, IfDone(L, i), i),
         NEW retained \in SUBSET ItemId, NEW asOf
  PROVE  ReadyIfDone(L, retained, i, asOf) =
           {j \in retained : ~ Ready(L, j, asOf) /\ Ready(M, j, asOf)}
<1>1. ASSUME NEW j \in Affected(L, retained, i), Ready(IfDone(L, i), j, asOf)
      PROVE  j \in retained /\ Ready(M, j, asOf)
  <2>1. j \in retained \ {i}
    BY DEF Affected
  <2> QED
    BY <1>1, <2>1, SameReadiness
<1>2. ASSUME NEW j \in retained, ~ Ready(L, j, asOf), Ready(M, j, asOf)
      PROVE  j \in Affected(L, retained, i) /\ Ready(IfDone(L, i), j, asOf)
  <2>1. j # i /\ i \in L[j].deps
    BY <1>2, ReleasedIsDependent
  <2> QED
    BY <1>2, <2>1, SameReadiness, DependentIsAffected
<1> QED
  BY <1>1, <1>2 DEF ReadyIfDone

\* readyIfDoneIds names, of the items that the report retains, those that become ready
\* when the item is done: what becomes ready waited for it, and so it is affected.
THEOREM ImpactIsWhatCompletionReleases == ProjectionsSpec => CompletionReleasesItsImpact
<1> DEFINE Released ==
      \A i \in Items(dated) : dated[i].status # "done" /\ dated'[i].status = "done" =>
        \A retained \in SUBSET Open(dated) : \A asOf \in Dates : i \in retained =>
          ReadyIfDone(dated, retained, i, asOf) =
            {j \in retained : ~ Ready(dated, j, asOf) /\ Ready(dated', j, asOf)}
<1>1. ASSUME DatedInv, [ProjectionsNext]_projectionVars PROVE Released
  <2> SUFFICES ASSUME NEW i \in Items(dated),
                      dated[i].status # "done", dated'[i].status = "done",
                      NEW retained \in SUBSET Open(dated), NEW asOf \in Dates
               PROVE  ReadyIfDone(dated, retained, i, asOf) =
                        {j \in retained : ~ Ready(dated, j, asOf) /\ Ready(dated', j, asOf)}
    OBVIOUS
  <2>1. dated \in DatedLedgers /\ i \in ItemId /\ dated[i] # NoItem /\ retained \in SUBSET ItemId
    BY <1>1 DEF DatedInv, Items, Open
  <2>2. PICK k \in ItemId : Written(k)
    BY <1>1, WriteStep
  <2>3. k = i
    BY <2>1, <2>2 DEF Written, DatedLedgers
  <2>4. /\ dated'[i] \in DatedItem
        /\ \A j \in ItemId \ {i} : dated'[j] = dated[j]
        /\ WriteEffect(dated[i], dated'[i])
    BY <2>1, <2>2, <2>3 DEF Written, DatedLedgers
  <2>5. Completes(dated, dated', i)
    BY <2>1, <2>4, ProjectionsAssumption DEF Completes, WriteEffect
  <2>6. Completes(dated, IfDone(dated, i), i)
    <3>1. [dated[i] EXCEPT !.status = "done"] \in DatedItem
      BY <2>1, ItemIsTyped DEF DatedItem, Status
    <3>2. /\ IfDone(dated, i)[i] = [dated[i] EXCEPT !.status = "done"]
          /\ \A j \in ItemId \ {i} : IfDone(dated, i)[j] = dated[j]
      BY <2>1 DEF IfDone, DatedLedgers
    <3>3. dated[i] \in DatedItem
      BY <2>1, ItemIsTyped
    <3> QED
      BY <2>1, <3>1, <3>2, <3>3, ProjectionsAssumption DEF Completes, DatedItem
  <2> QED
    BY <2>1, <2>5, <2>6, ImpactOfCompletion
<1> QED
  BY <1>1, DatedInvariance, PTL DEF ProjectionsSpec, CompletionReleasesItsImpact

-----------------------------------------------------------------------------
(* Lists.                                                                  *)

\* A sequence of SetToSeqs is one, and has all of the set.
LEMMA EnumerationOfSet ==
  ASSUME NEW S, IsFiniteSet(S), NEW s \in SetToSeqs(S)
  PROVE  /\ s \in Seq(S)
         /\ Len(s) = Cardinality(S)
         /\ ToSet(s) = S
<1> DEFINE N == Cardinality(S)
<1>1. N \in Nat
  BY FS_CardinalityType
<1>2. s \in [1..N -> S] /\ \A m, n \in 1..N : m # n => s[m] # s[n]
  BY DEF SetToSeqs
<1> HIDE DEF N
<1>3. s \in Seq(S) /\ Len(s) = N /\ DOMAIN s = 1..N
  BY <1>1, <1>2
<1>4. s \in Injection(1..N, S)
  BY <1>2, Fun_IsInj
<1>5. Cardinality(1..N) = N
  BY <1>1, FS_Interval
<1>6. s \in Surjection(1..N, S)
  BY <1>4, <1>5, FS_Injection DEF N
<1>7. \A x \in S : \E n \in 1..N : s[n] = x
  BY <1>6 DEF Surjection
<1>8. ToSet(s) = S
  BY <1>2, <1>3, <1>7 DEF ToSet
<1> QED
  BY <1>3, <1>8 DEF N

OrdersTotally(R, S) ==
  /\ \A x \in S : <<x, x>> \notin R
  /\ \A x, y, z \in S : <<x, y>> \in R /\ <<y, z>> \in R => <<x, z>> \in R
  /\ \A x, y \in S : x = y \/ <<x, y>> \in R \/ <<y, x>> \in R

\* A finite set with a total order has a sequence in that order: an element comes as
\* far down as there are elements before it.
LEMMA OrderedEnumeration ==
  ASSUME NEW S, IsFiniteSet(S), NEW R, OrdersTotally(R, S)
  PROVE  \E s \in SetToSeqs(S) : \A m, n \in 1..Len(s) : m < n => <<s[m], s[n]>> \in R
<1> DEFINE N == Cardinality(S)
           Below(x) == {y \in S : <<y, x>> \in R}
           place == [x \in S |-> Cardinality(Below(x)) + 1]
<1>1. N \in Nat
  BY FS_CardinalityType
<1>2. \A x \in S : Below(x) \subseteq S \ {x}
  BY DEF OrdersTotally
<1>3. ASSUME NEW x \in S, NEW y \in S, <<x, y>> \in R
      PROVE  Below(x) \cup {x} \subseteq Below(y)
  BY <1>3 DEF OrdersTotally
<1> HIDE DEF N, Below
<1>4. ASSUME NEW x \in S
      PROVE  /\ IsFiniteSet(Below(x))
             /\ Cardinality(Below(x)) \in Nat
             /\ Cardinality(Below(x)) < N
  <2>1. IsFiniteSet(S \ {x}) /\ Cardinality(S \ {x}) = N - 1
    BY FS_RemoveElement DEF N
  <2>2. IsFiniteSet(Below(x)) /\ Cardinality(Below(x)) <= Cardinality(S \ {x})
    BY <1>2, <2>1, FS_Subset
  <2>3. Cardinality(Below(x)) \in Nat
    BY <2>2, FS_CardinalityType
  <2> QED
    BY <1>1, <2>1, <2>2, <2>3
<1>5. \A x \in S : place[x] \in 1..N /\ place[x] = Cardinality(Below(x)) + 1
  BY <1>1, <1>4
<1>6. ASSUME NEW x \in S, NEW y \in S, <<x, y>> \in R
      PROVE  place[x] < place[y]
  <2>1. Cardinality(Below(x) \cup {x}) = Cardinality(Below(x)) + 1
    <3>1. x \notin Below(x)
      BY <1>2
    <3> QED
      BY <1>4, <3>1, FS_AddElement
  <2>2. Cardinality(Below(x) \cup {x}) <= Cardinality(Below(y))
    BY <1>3, <1>4, <1>6, FS_Subset
  <2> QED
    BY <1>4, <1>5, <2>1, <2>2
<1>7. place \in [S -> 1..N]
  BY <1>5
<1> HIDE DEF place
<1>8. \A x, y \in S : place[x] = place[y] => x = y
  <2> SUFFICES ASSUME NEW x \in S, NEW y \in S, place[x] = place[y], x # y PROVE FALSE
    OBVIOUS
  <2>1. place[x] < place[y] \/ place[y] < place[x]
    BY <1>6 DEF OrdersTotally
  <2>2. place[x] \in Int /\ place[y] \in Int
    BY <1>1, <1>5
  <2> QED
    BY <2>1, <2>2
<1>9. place \in Surjection(S, 1..N)
  <2>1. IsFiniteSet(1..N) /\ Cardinality(1..N) = Cardinality(S)
    BY <1>1, FS_Interval DEF N
  <2>2. place \in Injection(S, 1..N)
    BY <1>7, <1>8, Fun_IsInj
  <2> QED
    BY <2>1, <2>2, FS_Injection
<1>10. \A n \in 1..N : \E x \in S : place[x] = n
  BY <1>9, Fun_SurjectionProperties
<1> DEFINE s == [n \in 1..N |-> CHOOSE x \in S : place[x] = n]
<1>11. \A n \in 1..N : s[n] \in S /\ place[s[n]] = n
  BY <1>10
<1>12. s \in [1..N -> S]
  BY <1>11
<1> HIDE DEF s
<1>13. \A m, n \in 1..N : m # n => s[m] # s[n]
  BY <1>11
<1>14. s \in SetToSeqs(S)
  BY <1>12, <1>13 DEF SetToSeqs, N
<1>15. Len(s) = N
  BY <1>14, EnumerationOfSet DEF N
<1>16. ASSUME NEW m \in 1..N, NEW n \in 1..N, m < n PROVE <<s[m], s[n]>> \in R
  <2>1. s[m] \in S /\ s[n] \in S /\ s[m] # s[n]
    BY <1>11, <1>13, <1>16
  <2>2. <<s[n], s[m]>> \notin R
    <3> SUFFICES ASSUME <<s[n], s[m]>> \in R PROVE FALSE
      OBVIOUS
    <3>1. n < m
      BY <1>6, <1>11, <2>1
    <3> QED
      BY <1>16, <3>1
  <2> QED
    BY <2>1, <2>2 DEF OrdersTotally
<1> QED
  BY <1>14, <1>15, <1>16

\* The order of a query is a total one.
LEMMA QueryOrder ==
  ASSUME NEW L \in DatedLedgers, NEW q, ValidQuery(q)
  PROVE  /\ \A i \in Items(L) : ~ Before(L, q, i, i)
         /\ \A i, j, k \in Items(L) : Before(L, q, i, j) /\ Before(L, q, j, k) => Before(L, q, i, k)
         /\ \A i, j \in Items(L) : i = j \/ Before(L, q, i, j) \/ Before(L, q, j, i)
<1> DEFINE key == [i \in Items(L) |-> L[i][q.field]]
<1>1. q.field \in {"number", "created", "updated"} /\ q.descending \in BOOLEAN
  BY DEF ValidQuery
<1>2. \A i \in Items(L) : L[i] \in DatedItem /\ i \in Nat
  BY LifecycleAssumption DEF Items, DatedLedgers
<1>3. key \in [Items(L) -> Nat]
  BY <1>1, <1>2 DEF DatedItem
<1>4. ASSUME NEW i \in Items(L), NEW j \in Items(L)
      PROVE  Before(L, q, i, j) <=>
               IF key[i] = key[j] THEN i < j
               ELSE IF q.descending THEN key[j] < key[i] ELSE key[i] < key[j]
  <2>1. key[i] \in Nat /\ key[j] \in Nat
    BY <1>3
  <2>2. Before(L, q, i, j) <=>
          IF key[i] = key[j] THEN i < j ELSE (key[i] < key[j]) = ~ q.descending
    BY DEF Before
  <2> HIDE DEF key
  <2>3. CASE q.descending
    <3>1. ((key[i] < key[j]) = ~ q.descending) <=> ~ (key[i] < key[j])
      BY <1>1, <2>3
    <3> QED
      BY <2>1, <2>2, <2>3, <3>1
  <2>4. CASE ~ q.descending
    <3>1. ((key[i] < key[j]) = ~ q.descending) <=> key[i] < key[j]
      BY <1>1, <2>4
    <3> QED
      BY <2>1, <2>2, <2>4, <3>1
  <2> QED
    BY <2>3, <2>4
<1> HIDE DEF key
<1>5. \A i \in Items(L) : i \in Nat /\ key[i] \in Nat
  BY <1>2, <1>3
<1>6. \A i \in Items(L) : ~ Before(L, q, i, i)
  BY <1>4, <1>5
<1>7. \A i, j, k \in Items(L) : Before(L, q, i, j) /\ Before(L, q, j, k) => Before(L, q, i, k)
  BY <1>4, <1>5
<1>8. \A i, j \in Items(L) : i = j \/ Before(L, q, i, j) \/ Before(L, q, j, i)
  BY <1>4, <1>5
<1> QED
  BY <1>6, <1>7, <1>8

\* What a list of a query has to be.
IsListOf(s, L, q) ==
  /\ ToSet(s) = {i \in Items(L) : MatchesFilters(L, i, q)}
  /\ \A m, n \in 1..Len(s) : m < n => Before(L, q, s[m], s[n])

LEMMA MatchedIsTheList ==
  ASSUME NEW L \in DatedLedgers, NEW q, ValidQuery(q)
  PROVE  Matched(L, q) \in Seq(ItemId) /\ IsListOf(Matched(L, q), L, q)
<1> DEFINE S == {i \in Items(L) : MatchesFilters(L, i, q)}
           R == {p \in S \X S : Before(L, q, p[1], p[2])}
           Ordered(s) == \A m, n \in 1..Len(s) : m < n => Before(L, q, s[m], s[n])
<1>1. S \subseteq ItemId /\ IsFiniteSet(S)
  BY FS_Subset, LifecycleAssumption DEF Items
<1>2. \A x, y \in S : <<x, y>> \in R <=> Before(L, q, x, y)
  OBVIOUS
<1>3. OrdersTotally(R, S)
  <2>1. S \subseteq Items(L)
    OBVIOUS
  <2> HIDE DEF S, R
  <2> QED
    BY <1>2, <2>1, QueryOrder DEF OrdersTotally
<1>4. PICK t \in SetToSeqs(S) : \A m, n \in 1..Len(t) : m < n => <<t[m], t[n]>> \in R
  <2> HIDE DEF S, R
  <2> QED
    BY <1>1, <1>3, OrderedEnumeration
<1>5. Ordered(t)
  BY <1>4
<1>6. Matched(L, q) = CHOOSE s \in SetToSeqs(S) : Ordered(s)
  BY DEF Matched
<1> HIDE DEF S, Ordered
<1>7. Matched(L, q) \in SetToSeqs(S) /\ Ordered(Matched(L, q))
  BY <1>5, <1>6
<1>8. Matched(L, q) \in Seq(S) /\ ToSet(Matched(L, q)) = S
  BY <1>1, <1>7, EnumerationOfSet
<1>9. Matched(L, q) \in Seq(ItemId)
  BY <1>1, <1>8, SeqMonotonic
<1> QED
  BY <1>7, <1>8, <1>9 DEF S, Ordered, IsListOf

-----------------------------------------------------------------------------
(* Pages.                                                                  *)

\* The rows so far are the first of the list, up to the place where the cursor goes on;
\* when the traversal is complete they are all of it.
Traversed(t) ==
  /\ t = [query |-> t.query, rows |-> t.rows, snapshot |-> t.snapshot, cursor |-> t.cursor,
          complete |-> t.complete]
  /\ t.complete \/ t.cursor # NoCursor => ValidQuery(t.query) /\ t.snapshot \in DatedLedgers
  /\ t.complete => t.rows = Matched(t.snapshot, t.query)
  /\ t.cursor # NoCursor =>
       /\ t.cursor = [offset |-> t.cursor.offset, query |-> QueryDigest(t.query),
                      snapshot |-> t.snapshot]
       /\ t.cursor.offset \in 1..Len(Matched(t.snapshot, t.query))
       /\ t.rows = SubSeq(Matched(t.snapshot, t.query), 1, t.cursor.offset)

\* What a reader that is loading has so far, and what it was asked.
Loading(r) ==
  /\ r.listing \subseteq ItemId
  /\ r.loaded \in DatedLedgers
  /\ ValidQuery(r.query)
  /\ r.size \in Nat \ {0}
  /\ r.resume \in {NoCursor, r.traversal.cursor}

ReaderInv ==
  /\ reader = [at |-> reader.at, listing |-> reader.listing, loaded |-> reader.loaded,
               query |-> reader.query, size |-> reader.size, resume |-> reader.resume,
               traversal |-> reader.traversal]
  /\ Traversed(reader.traversal)
  /\ reader.at = "loading" => Loading(reader)

LEMMA NothingTraversed == Traversed(NoTraversal)
BY DEF Traversed, NoTraversal, NoCursor

LEMMA NewReaderInv == ASSUME reader = NewReader PROVE ReaderInv
BY NothingTraversed DEF NewReader, ReaderInv

\* A query is known by its digest.
LEMMA DigestTellsQuery ==
  ASSUME NEW q, NEW r, ValidQuery(q), ValidQuery(r), QueryDigest(q) = QueryDigest(r)
  PROVE  q = r
BY DEF ValidQuery, QueryDigest

\* The page lists what is between offset and next, and its cursor goes on at next.
PageUpTo(page, L, q, offset, next) ==
  /\ page.items = SubSeq(Matched(L, q), offset + 1, next)
  /\ IF next < Len(Matched(L, q))
     THEN next > 0 /\ page.cursor = [offset |-> next, query |-> QueryDigest(q), snapshot |-> L]
     ELSE page.cursor = NoCursor

LEMMA PageIsNext ==
  ASSUME NEW L \in DatedLedgers, NEW q, ValidQuery(q), NEW size \in Nat \ {0},
         NEW offset \in 0..Len(Matched(L, q))
  PROVE  \E next \in offset..Len(Matched(L, q)) :
           PageUpTo(Page(L, q, size, offset), L, q, offset, next)
<1> DEFINE matched == Matched(L, q)
           end == IF offset + size < Len(matched) THEN offset + size ELSE Len(matched)
           items == SubSeq(matched, offset + 1, end)
           next == offset + Len(items)
<1>1. matched \in Seq(ItemId) /\ Len(matched) \in Nat
  BY MatchedIsTheList, LenProperties
<1>2. Page(L, q, size, offset) =
        [items |-> items,
         cursor |-> IF next < Len(matched)
                    THEN [offset |-> next, query |-> QueryDigest(q), snapshot |-> L]
                    ELSE NoCursor]
  BY DEF Page
<1> HIDE DEF matched
<1>3. offset \in 0..Len(matched)
  BY DEF matched
<1>4. end \in offset..Len(matched) /\ end \in Int
  BY <1>1, <1>3
<1>5. Len(items) = end - offset
  <2>1. \A i \in (offset + 1)..end : matched[i] \in ItemId
    BY <1>1, <1>3, <1>4, ElementOfSeq
  <2>2. offset + 1 \in Int
    BY <1>3
  <2> HIDE DEF end
  <2>3. Len(items) = IF offset + 1 <= end THEN end - (offset + 1) + 1 ELSE 0
    BY <1>4, <2>1, <2>2, SubSeqProperties
  <2> QED
    BY <1>3, <1>4, <2>3
<1>6. next = end
  <2> HIDE DEF items, end
  <2> QED
    BY <1>3, <1>4, <1>5
<1>7. end < Len(matched) => end > 0
  BY <1>1, <1>3
<1> HIDE DEF end
<1>8. items = SubSeq(matched, offset + 1, end)
  OBVIOUS
<1> HIDE DEF items, next
<1>9. /\ Page(L, q, size, offset).items = items
      /\ Page(L, q, size, offset).cursor =
           IF next < Len(matched)
           THEN [offset |-> next, query |-> QueryDigest(q), snapshot |-> L]
           ELSE NoCursor
  BY <1>2
<1> QED
  BY <1>4, <1>6, <1>7, <1>8, <1>9 DEF matched, PageUpTo

\* A page that is asked for as the traversal stands takes it on.
LEMMA PageGoesOn ==
  ASSUME NEW L \in DatedLedgers, NEW q, ValidQuery(q), NEW size \in Nat \ {0},
         NEW offset \in 0..Len(Matched(L, q))
  PROVE  Traversed([query |-> q,
                    rows |-> SubSeq(Matched(L, q), 1, offset)
                               \o Page(L, q, size, offset).items,
                    snapshot |-> L,
                    cursor |-> Page(L, q, size, offset).cursor,
                    complete |-> Page(L, q, size, offset).cursor = NoCursor])
<1> DEFINE matched == Matched(L, q)
           page == Page(L, q, size, offset)
           rows == SubSeq(matched, 1, offset) \o page.items
           t == [query |-> q, rows |-> rows, snapshot |-> L, cursor |-> page.cursor,
                 complete |-> page.cursor = NoCursor]
<1>1. matched \in Seq(ItemId) /\ Len(matched) \in Nat
  BY MatchedIsTheList, LenProperties
<1>2. PICK next \in offset..Len(matched) : PageUpTo(page, L, q, offset, next)
  BY PageIsNext
<1> HIDE DEF matched, page
<1>3. offset \in 0..Len(matched) /\ next \in Nat /\ next <= Len(matched)
  BY <1>1, <1>2 DEF matched
<1>4. rows = SubSeq(matched, 1, next)
  <2>1. 1 \in 1..(Len(matched) + 1) /\ offset \in (1 - 1)..Len(matched)
          /\ next \in offset..Len(matched)
    BY <1>1, <1>2, <1>3
  <2>2. page.items = SubSeq(matched, offset + 1, next)
    BY <1>2 DEF PageUpTo, matched
  <2> QED
    BY <1>1, <2>1, <2>2, ConcatAdjacentSubSeq
<1> HIDE DEF rows
<1>5. CASE next < Len(matched)
  <2>1. page.cursor = [offset |-> next, query |-> QueryDigest(q), snapshot |-> L] /\ next > 0
    BY <1>2, <1>5 DEF PageUpTo, matched
  <2>2. page.cursor.offset = next
    BY <2>1
  <2>3. page.cursor # NoCursor
    BY <2>1, <2>2 DEF NoCursor
  <2>4. next \in 1..Len(matched)
    BY <1>1, <1>3, <2>1
  <2> QED
    BY <1>4, <2>1, <2>2, <2>3, <2>4 DEF Traversed, matched, page, rows
<1>6. CASE ~ next < Len(matched)
  <2>1. page.cursor = NoCursor /\ next = Len(matched)
    BY <1>1, <1>2, <1>3, <1>6 DEF PageUpTo, matched
  <2>2. rows = matched
    BY <1>1, <1>4, <2>1, SubSeqFull
  <2> QED
    BY <2>1, <2>2 DEF Traversed, matched, page, rows
<1> QED
  BY <1>5, <1>6

LEMMA AnswerStep == ASSUME ReaderInv, AnswerPage PROVE ReaderInv'
<1> DEFINE L == reader.loaded
           q == reader.query
           offset == reader.resume.offset
           begin == IF reader.resume = NoCursor
                    THEN [NoTraversal EXCEPT !.query = q, !.snapshot = L]
                    ELSE reader.traversal
           page == Page(L, q, reader.size, offset)
           refused == ~ ValidDated(L) \/ CursorMismatch(reader.resume, q, L)
           next == IF refused THEN NoTraversal
                   ELSE [begin EXCEPT !.rows = @ \o page.items, !.cursor = page.cursor,
                                      !.complete = page.cursor = NoCursor]
<1>1. Loading(reader) /\ Traversed(reader.traversal)
  BY DEF ReaderInv, AnswerPage
<1>2. reader' = [NewReader EXCEPT !.traversal = next]
  BY DEF AnswerPage
<1>3. ASSUME ~ refused
      PROVE  /\ begin = [query |-> q, rows |-> SubSeq(Matched(L, q), 1, offset),
                         snapshot |-> L, cursor |-> begin.cursor, complete |-> begin.complete]
             /\ offset \in 0..Len(Matched(L, q))
  <2>1. CASE reader.resume = NoCursor
    <3>1. offset = 0 /\ begin = [NoTraversal EXCEPT !.query = q, !.snapshot = L]
      BY <2>1 DEF NoCursor
    <3>2. Len(Matched(L, q)) \in Nat
      BY <1>1, MatchedIsTheList, LenProperties DEF Loading
    <3>3. SubSeq(Matched(L, q), 1, 0) = <<>>
      BY SubSeqEmpty
    <3> HIDE DEF begin, L, q, offset
    <3>4. begin = [query |-> q, rows |-> <<>>, snapshot |-> L, cursor |-> NoCursor,
                   complete |-> FALSE]
      BY <3>1 DEF NoTraversal
    <3>5. SubSeq(Matched(L, q), 1, offset) = <<>> /\ offset \in 0..Len(Matched(L, q))
      BY <3>1, <3>2, <3>3
    <3>6. begin.cursor = NoCursor /\ begin.complete = FALSE
      BY <3>4
    <3> QED
      BY <3>4, <3>5, <3>6
  <2>2. CASE reader.resume # NoCursor
    <3> DEFINE t == reader.traversal
    <3>1. reader.resume = t.cursor /\ t.cursor # NoCursor /\ begin = t
      BY <1>1, <2>2 DEF Loading
    <3>2. /\ ValidQuery(t.query)
          /\ t.cursor = [offset |-> t.cursor.offset, query |-> QueryDigest(t.query),
                         snapshot |-> t.snapshot]
          /\ t.cursor.offset \in 1..Len(Matched(t.snapshot, t.query))
          /\ t.rows = SubSeq(Matched(t.snapshot, t.query), 1, t.cursor.offset)
          /\ t = [query |-> t.query, rows |-> t.rows, snapshot |-> t.snapshot,
                  cursor |-> t.cursor, complete |-> t.complete]
      BY <1>1, <3>1 DEF Traversed
    <3>3. t.cursor.snapshot = L /\ t.cursor.query = QueryDigest(q)
      BY <1>3, <3>1 DEF CursorMismatch
    <3>4. t.snapshot = L /\ QueryDigest(t.query) = QueryDigest(q)
      BY <3>2, <3>3
    <3>5. t.query = q
      BY <1>1, <3>2, <3>4, DigestTellsQuery DEF Loading
    <3>6. offset = t.cursor.offset /\ Len(Matched(L, q)) \in Nat
      BY <1>1, <3>1, MatchedIsTheList, LenProperties DEF Loading
    <3>7. t.rows = SubSeq(Matched(L, q), 1, offset) /\ offset \in 1..Len(Matched(L, q))
      BY <3>2, <3>4, <3>5, <3>6
    <3> HIDE DEF t, L, q, begin, offset
    <3>8. begin = [query |-> q, rows |-> SubSeq(Matched(L, q), 1, offset),
                   snapshot |-> L, cursor |-> begin.cursor, complete |-> begin.complete]
      BY <3>1, <3>2, <3>4, <3>5, <3>7
    <3> QED
      BY <3>6, <3>7, <3>8
  <2> QED
    BY <2>1, <2>2
<1>4. Traversed(next)
  <2>1. CASE refused
    BY <2>1, NothingTraversed
  <2>2. CASE ~ refused
    <3>1. next = [query |-> q,
                  rows |-> SubSeq(Matched(L, q), 1, offset) \o page.items,
                  snapshot |-> L, cursor |-> page.cursor,
                  complete |-> page.cursor = NoCursor]
      <4> DEFINE first == SubSeq(Matched(L, q), 1, offset)
                 more == first \o page.items
                 last == page.cursor = NoCursor
      <4>1. PICK c, d : begin = [query |-> q, rows |-> first, snapshot |-> L,
                                 cursor |-> c, complete |-> d]
        BY <1>3, <2>2
      <4>2. begin.rows = first
        <5> HIDE DEF begin, L, q, first
        <5> QED
          BY <4>1
      <4>3. next = [begin EXCEPT !.rows = more, !.cursor = page.cursor, !.complete = last]
        <5> HIDE DEF begin, page, L, q, offset, refused, first
        <5> QED
          BY <2>2, <4>2
      <4> HIDE DEF begin, page, L, q, first, more, last, next
      <4>4. next = [query |-> q, rows |-> more, snapshot |-> L, cursor |-> page.cursor,
                    complete |-> last]
        BY <4>1, <4>3
      <4> QED
        BY <4>4 DEF more, last, first
    <3>2. L \in DatedLedgers /\ ValidQuery(q) /\ reader.size \in Nat \ {0}
      BY <1>1 DEF Loading
    <3>3. offset \in 0..Len(Matched(L, q))
      BY <1>3, <2>2
    <3> HIDE DEF next, L, q, offset, refused
    <3> QED
      BY <3>1, <3>2, <3>3, PageGoesOn
  <2> QED
    BY <2>1, <2>2
<1> HIDE DEF next
<1>5. reader' = [at |-> "idle", listing |-> {}, loaded |-> [i \in ItemId |-> NoItem],
                 query |-> Never, size |-> 0, resume |-> NoCursor, traversal |-> next]
  BY <1>2 DEF NewReader
<1> QED
  BY <1>4, <1>5 DEF ReaderInv

LEMMA AskStep ==
  ASSUME ReaderInv, NEW q, NEW size \in PageSize, NEW resume, Ask(q, size, resume)
  PROVE  ReaderInv'
<1> DEFINE t == IF resume = NoCursor THEN NoTraversal ELSE reader.traversal
<1>1. reader' = [at |-> "loading", listing |-> Items(dated), loaded |-> [i \in ItemId |-> NoItem],
                 query |-> q, size |-> size, resume |-> resume, traversal |-> t]
  BY DEF Ask, ReaderInv
<1>2. Traversed(t)
  BY NothingTraversed DEF ReaderInv
<1>3. resume \in {NoCursor, t.cursor}
  BY DEF Ask
<1>4. ValidQuery(q) /\ size \in Nat \ {0} /\ Items(dated) \subseteq ItemId
  BY ProjectionsAssumption DEF Ask, Items
<1>5. [i \in ItemId |-> NoItem] \in DatedLedgers
  BY DEF DatedLedgers
<1> HIDE DEF t
<1> QED
  BY <1>1, <1>2, <1>3, <1>4, <1>5 DEF ReaderInv, Loading

LEMMA LoadStep == ASSUME DatedInv, ReaderInv, LoadFile PROVE ReaderInv'
<1>1. Loading(reader) /\ Traversed(reader.traversal) /\ reader.at = "loading"
  BY DEF ReaderInv, LoadFile
<1> DEFINE i == CHOOSE n \in reader.listing : \A m \in reader.listing : n <= m
<1>2. reader' = [reader EXCEPT !.listing = @ \ {i}, !.loaded[i] = dated[i]]
  BY DEF LoadFile
<1> HIDE DEF i
<1>3. reader' = [at |-> "loading", listing |-> reader.listing \ {i},
                 loaded |-> [reader.loaded EXCEPT ![i] = dated[i]],
                 query |-> reader.query, size |-> reader.size, resume |-> reader.resume,
                 traversal |-> reader.traversal]
  BY <1>1, <1>2 DEF ReaderInv
<1>4. [reader.loaded EXCEPT ![i] = dated[i]] \in DatedLedgers
  BY <1>1 DEF Loading, DatedInv, DatedLedgers
<1> QED
  BY <1>1, <1>3, <1>4 DEF ReaderInv, Loading

LEMMA ReaderStep ==
  ASSUME DatedInv, ReaderInv, [ProjectionsNext]_projectionVars
  PROVE  ReaderInv'
<1>1. CASE UNCHANGED reader
  BY <1>1 DEF ReaderInv, Traversed, Loading
<1>2. ASSUME NEW q \in Query, NEW size \in PageSize,
             NEW resume \in {NoCursor, reader.traversal.cursor}, Ask(q, size, resume)
      PROVE  ReaderInv'
  BY <1>2, AskStep
<1>3. CASE LoadFile
  BY <1>3, LoadStep
<1>4. CASE AnswerPage
  BY <1>4, AnswerStep
<1> QED
  BY <1>1, <1>2, <1>3, <1>4
     DEF ProjectionsNext, projectionVars, Create, Patch, Transition, Snooze, Write

\* Whoever follows the cursors of `list` to the end has listed one ledger, whole and in
\* order, whatever was written and asked in between.
THEOREM EveryTraversalIsTheList == ProjectionsSpec => []PagesAreTheList
<1>1. ProjectionsInit => ReaderInv
  BY NewReaderInv DEF ProjectionsInit
<1>2. DatedInv /\ ReaderInv /\ [ProjectionsNext]_projectionVars => ReaderInv'
  BY ReaderStep
<1>3. ReaderInv => PagesAreTheList
  <2> SUFFICES ASSUME ReaderInv, reader.traversal.complete
               PROVE  IsListOf(reader.traversal.rows, reader.traversal.snapshot,
                               reader.traversal.query)
    BY DEF PagesAreTheList, IsListOf
  <2>1. Traversed(reader.traversal)
    BY DEF ReaderInv
  <2> QED
    BY <2>1, MatchedIsTheList DEF Traversed
<1> QED
  BY <1>1, <1>2, <1>3, DatedInvariance, PTL DEF ProjectionsSpec
=============================================================================
