------------------------- MODULE LedgerRepairProofs -------------------------
(***************************************************************************)
(* number-repair, for any items, numbers, repairs, callers, crashes and    *)
(* edits: what somebody wrote while a repair lay unfinished survives it;   *)
(* a final is appended only over a repaired ledger; "unchanged" is said    *)
(* only of a call that changed nothing, but for edits under the lock; and  *)
(* a repair has one intent, however many callers it has, before its        *)
(* finals.  (That it has one final is false: LedgerRepair_two_callers.)    *)
(*                                                                         *)
(* The lock is what makes them true: whoever replaces items or appends is  *)
(* the only one to do so, and what it has seen under the lock is what is   *)
(* there, but for edits that take no lock (`fresh`).  The second invariant *)
(* adds what a call has done: it wrote nothing before its intent, what it  *)
(* is done with holds the staged bytes, and those were valid.              *)
(***************************************************************************)
EXTENDS LedgerRepair, FiniteSetTheorems, TLAPS

\* The steps inside the namespace lock.
Inside == {"reread", "stage", "intent", "replace", "final", "recover", "redo"}

IsOver(f, S) == f = [x \in S |-> f[x]]

IsCall(c) ==
  c = [at |-> c.at, todo |-> c.todo, seen |-> c.seen, wrote |-> c.wrote, state |-> c.state]

Shaped ==
  /\ IsOver(items, Item) /\ IsOver(asked, Repair) /\ IsOver(proc, Proc)
  /\ \A p \in Proc : proc[p] = Idle \/ IsCall(proc[p])
  /\ \E S : journal \in Seq(S)

\* Nobody has taken r up.
Unrecorded(r) == Intents(r) = {}

\* What p has seen under the lock of an item, and has still to replace.
SeenIsThere(p) ==
  \A i \in Item \ fresh :
    /\ proc[p].at \in {"stage", "intent"} => items[i] = asked[RepairOf[p]].snapshot[i]
    /\ proc[p].at = "replace" /\ i \in proc[p].todo =>
         items[i] = Intent(RepairOf[p]).expected[i]
    /\ proc[p].at = "redo" /\ i \in proc[p].todo => items[i] = proc[p].seen[i]

Sound(p) ==
  /\ proc[p].at \in Inside => lock = p
  /\ proc[p].at # "idle" => asked[RepairOf[p]] # None
  /\ proc[p].at \in {"stage", "intent"} => Unrecorded(RepairOf[p])
  /\ SeenIsThere(p)

OneIntent == \A r \in Repair : \A n, m \in Intents(r) : n = m

IInv == Shaped /\ OneIntent /\ \A p \in Proc : Sound(p)

\* A call that replaces or recovers has a recorded intent.
UnderWay(p) ==
  proc[p].at \in {"recover-lock", "recover", "redo", "replace", "final"} =>
    Intents(RepairOf[p]) # {}

FinalsFollow == \A r \in Repair : \A k \in Finals(r) : \E n \in Intents(r) : n < k

JInv == FinalsFollow /\ \A p \in Proc : UnderWay(p)

-----------------------------------------------------------------------------
(* The journal.                                                            *)

\* An append adds one entry at the end.
LEMMA Appended ==
  ASSUME NEW S, journal \in Seq(S), NEW e, journal' = Append(journal, e)
  PROVE  /\ journal' \in Seq(S \cup {e})
         /\ Len(journal) \in Nat /\ Len(journal') = Len(journal) + 1
         /\ \A n \in 1..Len(journal) : journal'[n] = journal[n]
         /\ journal'[Len(journal) + 1] = e
<1>1. journal \in Seq(S \cup {e}) /\ e \in S \cup {e}
  OBVIOUS
<1> QED
  BY <1>1

LEMMA IntentAppended ==
  ASSUME Shaped, NEW e, e.type = "intent", journal' = Append(journal, e), NEW r \in Repair
  PROVE  /\ (\E S : journal \in Seq(S))'
         /\ Finals(r)' = Finals(r)
         /\ e.repair # r => Intents(r)' = Intents(r)
         /\ e.repair = r => Intents(r)' = Intents(r) \cup {Len(journal) + 1}
<1>1. PICK S : journal \in Seq(S)
  BY DEF Shaped
<1>2. /\ journal' \in Seq(S \cup {e})
      /\ Len(journal) \in Nat /\ Len(journal') = Len(journal) + 1
      /\ \A n \in 1..Len(journal) : journal'[n] = journal[n]
      /\ journal'[Len(journal) + 1] = e
  BY <1>1, Appended
<1>3. 1..Len(journal') = 1..Len(journal) \cup {Len(journal) + 1}
  BY <1>2
<1> QED
  BY <1>2, <1>3 DEF Intents, Finals

LEMMA FinalAppended ==
  ASSUME Shaped, NEW e, e.type = "final", journal' = Append(journal, e), NEW r \in Repair
  PROVE  /\ (\E S : journal \in Seq(S))'
         /\ Intents(r)' = Intents(r)
         /\ e.repair # r => Finals(r)' = Finals(r)
         /\ e.repair = r => Finals(r)' = Finals(r) \cup {Len(journal) + 1}
<1>1. PICK S : journal \in Seq(S)
  BY DEF Shaped
<1>2. /\ journal' \in Seq(S \cup {e})
      /\ Len(journal) \in Nat /\ Len(journal') = Len(journal) + 1
      /\ \A n \in 1..Len(journal) : journal'[n] = journal[n]
      /\ journal'[Len(journal) + 1] = e
  BY <1>1, Appended
<1>3. 1..Len(journal') = 1..Len(journal) \cup {Len(journal) + 1}
  BY <1>2
<1> QED
  BY <1>2, <1>3 DEF Intents, Finals

\* The first intent that is recorded is the intent of its repair.
LEMMA IntentIsTheEntry ==
  ASSUME NEW r \in Repair, Shaped, Unrecorded(r),
         NEW e, e.type = "intent", e.repair = r, journal' = Append(journal, e)
  PROVE  Intent(r)' = e
<1>1. PICK S : journal \in Seq(S)
  BY DEF Shaped
<1>2. Len(journal) \in Nat /\ journal'[Len(journal) + 1] = e
  BY <1>1, Appended
<1>3. Intents(r)' = {Len(journal) + 1}
  BY IntentAppended DEF Unrecorded
<1>4. Min({Len(journal) + 1}) = Len(journal) + 1
  BY <1>2 DEF Min
<1> QED
  BY <1>2, <1>3, <1>4 DEF Intent

-----------------------------------------------------------------------------
(* Processes.                                                              *)

\* A step of one process disturbs no other: whoever is inside keeps the lock, and
\* nobody else touches what it has seen.
LEMMA OthersKeep ==
  ASSUME NEW q \in Proc, Sound(q),
         proc'[q] = proc[q], asked' = asked,
         proc[q].at \in Inside => lock' = q /\ items' = items /\ journal' = journal /\ fresh' = fresh
  PROVE  Sound(q)'
<1>1. CASE proc[q].at \in Inside
  <2>1. UNCHANGED <<items, journal, fresh, asked, proc[q]>> /\ lock' = q
    BY <1>1
  <2>2. Intents(RepairOf[q])' = Intents(RepairOf[q]) /\ Intent(RepairOf[q])' = Intent(RepairOf[q])
    BY <2>1 DEF Intents, Intent
  <2> QED
    BY <2>1, <2>2 DEF Sound, SeenIsThere, Unrecorded
<1>2. CASE proc[q].at \notin Inside
  BY <1>2 DEF Sound, SeenIsThere, Inside
<1> QED
  BY <1>1, <1>2

\* The step of a process that holds the lock, or does not need it.
LEMMA StepIsSound ==
  ASSUME IInv, NEW p \in Proc, NEW c, IsCall(c) \/ c = Idle,
         proc' = [proc EXCEPT ![p] = c], asked' = asked, Sound(p)',
         IsOver(items, Item)', (\E S : journal \in Seq(S))', OneIntent',
         \/ UNCHANGED <<items, journal, fresh, lock>>
         \/ lock = p /\ lock' \in {p, None}
         \/ lock = None
  PROVE  IInv'
<1>1. Shaped'
  <2>1. IsOver(proc, Proc)' /\ \A q \in Proc : q # p => proc'[q] = proc[q]
    BY DEF IInv, Shaped, IsOver
  <2>2. proc'[p] = c
    BY DEF IInv, Shaped, IsOver
  <2>3. \A q \in Proc : (proc[q] = Idle \/ IsCall(proc[q]))'
    BY <2>1, <2>2 DEF IInv, Shaped, IsCall, Idle
  <2> QED
    BY <2>1, <2>3 DEF IInv, Shaped, IsOver
<1>2. ASSUME NEW q \in Proc, q # p PROVE Sound(q)'
  <2>1. Sound(q) /\ proc'[q] = proc[q]
    BY <1>2 DEF IInv, Shaped, IsOver
  <2>2. proc[q].at \in Inside => lock = q
    BY <2>1 DEF Sound
  <2>3. proc[q].at \in Inside => lock' = q /\ items' = items /\ journal' = journal /\ fresh' = fresh
    BY <1>2, <2>2, RepairAssumption
  <2> QED
    BY <2>1, <2>3, OthersKeep
<1> QED
  BY <1>1, <1>2 DEF IInv

\* A call takes note that it wrote, and what else it remembers stays.
LEMMA Noted ==
  ASSUME NEW call, IsCall(call), NEW x
  PROVE  LET c == [call EXCEPT !.wrote = x] IN
           IsCall(c) /\ c.at = call.at /\ c.todo = call.todo /\ c.seen = call.seen
  BY DEF IsCall

\* Where a call goes, what else it remembers stays.
LEMMA Moved ==
  ASSUME IInv, NEW p \in Proc, proc[p].at # "idle", NEW at
  PROVE  /\ IsCall([proc[p] EXCEPT !.at = at])
         /\ [proc[p] EXCEPT !.at = at].at = at
         /\ [proc[p] EXCEPT !.at = at].todo = proc[p].todo
         /\ [proc[p] EXCEPT !.at = at].seen = proc[p].seen
<1>1. IsCall(proc[p])
  BY DEF IInv, Shaped, Idle
<1> QED
  BY <1>1 DEF IsCall

\* An answer is set down, what else a call remembers stays.
LEMMA Ended ==
  ASSUME NEW call, IsCall(call), NEW state
  PROVE  /\ IsCall([call EXCEPT !.at = "done", !.state = state])
         /\ [call EXCEPT !.at = "done", !.state = state].at = "done"
<1> DEFINE c == [call EXCEPT !.at = "done"]
<1>1. IsCall(c) /\ c.at = "done"
  BY DEF IsCall
<1> HIDE DEF c
<1>2. IsCall([c EXCEPT !.state = state]) /\ [c EXCEPT !.state = state].at = "done"
  BY <1>1 DEF IsCall
<1>3. [call EXCEPT !.at = "done", !.state = state] = [c EXCEPT !.state = state]
  BY DEF c
<1> QED
  BY <1>2, <1>3

\* A step that only goes on, or ends, inside or outside.
LEMMA StepOnly ==
  ASSUME IInv, NEW p \in Proc, NEW c, IsCall(c) \/ c = Idle,
         proc' = [proc EXCEPT ![p] = c],
         c.at \in {"idle", "check", "lock", "recover-lock", "reread", "recover", "final", "done"},
         UNCHANGED <<items, journal, asked>>,
         c.at # "idle" => asked[RepairOf[p]] # None,
         c.at \in Inside => lock' = p,
         \/ UNCHANGED <<fresh, lock>>
         \/ lock = p /\ lock' \in {p, None}
         \/ lock = None
  PROVE  IInv'
<1>1. proc'[p] = c
  BY DEF IInv, Shaped, IsOver
<1>2. Sound(p)'
  BY <1>1 DEF Sound, SeenIsThere
<1>3. OneIntent' /\ IsOver(items, Item)' /\ (\E S : journal \in Seq(S))'
  BY DEF IInv, OneIntent, Intents, Shaped, IsOver
<1> QED
  BY <1>2, <1>3, StepIsSound

LEMMA EndSound ==
  ASSUME IInv, NEW p \in Proc, proc[p].at # "idle", NEW state, Answer(p, state),
         UNCHANGED <<items, journal, asked, fresh>>, lock' = lock \/ (lock = p /\ lock' = None)
  PROVE  IInv'
<1> DEFINE c == [proc[p] EXCEPT !.at = "done", !.state = state]
<1>1. IsCall(proc[p]) /\ asked[RepairOf[p]] # None
  BY DEF IInv, Shaped, Idle, Sound
<1>2. IsCall(c) /\ c.at = "done"
  BY <1>1, Ended
<1>3. proc' = [proc EXCEPT ![p] = c]
  BY DEF Answer
<1> QED
  BY <1>1, <1>2, <1>3, StepOnly DEF Inside

LEMMA LeaveSound ==
  ASSUME IInv, NEW p \in Proc, proc[p].at \in Inside, NEW state, Leave(p, state),
         UNCHANGED <<items, journal, asked, fresh>>
  PROVE  IInv'
<1>1. lock = p /\ proc[p].at # "idle"
  BY DEF IInv, Sound, Inside
<1> QED
  BY <1>1, EndSound DEF Leave

LEMMA GoSound ==
  ASSUME IInv, NEW p \in Proc, proc[p].at # "idle",
         NEW at \in {"lock", "reread", "recover", "final"}, Goto(p, at),
         UNCHANGED <<items, journal, asked>>,
         at \in Inside => lock' = p,
         \/ UNCHANGED <<fresh, lock>>
         \/ lock = p /\ lock' \in {p, None}
         \/ lock = None
  PROVE  IInv'
<1> DEFINE c == [proc[p] EXCEPT !.at = at]
<1>1. IsCall(c) /\ c.at = at /\ asked[RepairOf[p]] # None
  BY Moved DEF IInv, Sound
<1>2. proc' = [proc EXCEPT ![p] = c]
  BY DEF Goto
<1> QED
  BY <1>1, <1>2, StepOnly

-----------------------------------------------------------------------------
(* One step after the other.                                               *)

LEMMA InitSound == Init => IInv
<1> SUFFICES ASSUME Init PROVE IInv
  OBVIOUS
<1>1. Shaped
  <2>1. journal \in Seq({})
    BY DEF Init
  <2> QED
    BY <2>1 DEF Init, Shaped, IsOver
<1>2. OneIntent
  BY DEF Init, OneIntent, Intents
<1>3. \A p \in Proc : Sound(p)
  BY DEF Init, Sound, SeenIsThere, Idle, Inside
<1> QED
  BY <1>1, <1>2, <1>3 DEF IInv

\* A request that is made, an edit and a death.
LEMMA AskSound ==
  ASSUME IInv, NEW r \in Repair, Ask(r)
  PROVE  IInv'
<1>1. /\ UNCHANGED <<items, staging, journal, lock, proc, fresh>>
      /\ asked[r] = None
      /\ \E x : asked' = [asked EXCEPT ![r] = [snapshot |-> items, to |-> x]]
  BY DEF Ask
<1>2. /\ IsOver(asked, Repair)'
      /\ \A q \in Repair : q # r => asked'[q] = asked[q]
      /\ \E x : asked'[r] = [snapshot |-> items, to |-> x]
  BY <1>1 DEF IInv, Shaped, IsOver
<1>3. Shaped' /\ OneIntent'
  BY <1>1, <1>2 DEF IInv, Shaped, IsOver, OneIntent, Intents, IsCall
<1>4. ASSUME NEW p \in Proc PROVE Sound(p)'
  <2>1. Sound(p) /\ RepairOf[p] \in Repair
    BY RepairAssumption DEF IInv
  <2>2. CASE RepairOf[p] = r
    <3>1. proc[p].at = "idle"
      BY <1>1, <2>1, <2>2 DEF Sound
    <3> QED
      BY <1>1, <3>1 DEF Sound, SeenIsThere, Inside
  <2>3. CASE RepairOf[p] # r
    <3>1. asked'[RepairOf[p]] = asked[RepairOf[p]]
      BY <1>2, <2>1, <2>3
    <3> QED
      BY <1>1, <2>1, <3>1 DEF Sound, SeenIsThere, Unrecorded, Intents, Intent
  <2> QED
    BY <2>2, <2>3
<1> QED
  BY <1>3, <1>4 DEF IInv

LEMMA EditSound ==
  ASSUME IInv, NEW i \in Item, NEW bytes, Edit(i, bytes)
  PROVE  IInv'
<1>1. /\ items' = [items EXCEPT ![i] = bytes] /\ fresh' = fresh \cup {i}
      /\ UNCHANGED <<asked, journal, lock, proc>>
  BY DEF Edit
<1>2. Shaped' /\ OneIntent'
  BY <1>1 DEF IInv, Shaped, IsOver, OneIntent, Intents, IsCall
<1>3. \A k \in Item \ fresh' : k \in Item \ fresh /\ items'[k] = items[k]
  BY <1>1 DEF IInv, Shaped, IsOver
<1>4. ASSUME NEW p \in Proc PROVE Sound(p)'
  BY <1>1, <1>3 DEF IInv, Sound, SeenIsThere, Unrecorded, Intents, Intent
<1> QED
  BY <1>2, <1>4 DEF IInv

LEMMA CrashSound ==
  ASSUME IInv, NEW p \in Proc, Crash(p)
  PROVE  IInv'
<1>1. /\ proc' = [proc EXCEPT ![p] = Idle] /\ Idle.at = "idle"
      /\ UNCHANGED <<items, asked, journal, fresh>>
      /\ lock' = lock \/ (lock = p /\ lock' = None)
  BY DEF Crash, Idle
<1> QED
  BY <1>1, StepOnly DEF Inside

\* The steps outside the lock, and into it.
LEMMA OutsideSound ==
  ASSUME IInv, NEW p \in Proc, Begin(p) \/ Check(p) \/ Enter(p) \/ Return(p)
  PROVE  IInv'
<1>1. CASE Begin(p)
  <2>1. PICK c : /\ proc' = [proc EXCEPT ![p] = c] /\ IsCall(c)
                 /\ c.at \in {"done", "check", "recover-lock"}
    <3> DEFINE call == [at |-> "check", todo |-> {}, seen |-> None, wrote |-> FALSE, state |-> None]
    <3> DEFINE recovery == [call EXCEPT !.at = "recover-lock"]
    <3>1. IsCall(call) /\ call.at = "check"
      BY DEF IsCall
    <3> HIDE DEF call
    <3>2. IsCall(recovery) /\ recovery.at = "recover-lock"
      BY <3>1 DEF IsCall
    <3>3. \A state : /\ IsCall([call EXCEPT !.at = "done", !.state = state])
                     /\ [call EXCEPT !.at = "done", !.state = state].at = "done"
      BY <3>1, Ended
    <3>4. \/ proc' = [proc EXCEPT ![p] = call]
          \/ proc' = [proc EXCEPT ![p] = recovery]
          \/ \E state : proc' = [proc EXCEPT ![p] = [call EXCEPT !.at = "done", !.state = state]]
      BY <1>1 DEF Begin, call
    <3>5. CASE proc' = [proc EXCEPT ![p] = call]
      BY <3>1, <3>5
    <3>6. CASE proc' = [proc EXCEPT ![p] = recovery]
      <4> HIDE DEF recovery
      <4> QED
        BY <3>2, <3>6
    <3>7. ASSUME NEW state, proc' = [proc EXCEPT ![p] = [call EXCEPT !.at = "done", !.state = state]]
          PROVE  \E c : /\ proc' = [proc EXCEPT ![p] = c] /\ IsCall(c) /\ c.at = "done"
      <4> DEFINE c == [call EXCEPT !.at = "done", !.state = state]
      <4>1. proc' = [proc EXCEPT ![p] = c] /\ IsCall(c) /\ c.at = "done"
        BY <3>3, <3>7
      <4> HIDE DEF c
      <4> QED
        BY <4>1
    <3> QED
      BY <3>4, <3>5, <3>6, <3>7
  <2>2. UNCHANGED <<items, asked, journal, lock, fresh>> /\ asked[RepairOf[p]] # None
    BY <1>1 DEF Begin
  <2> QED
    BY <2>1, <2>2, StepOnly DEF Inside
<1>2. CASE Check(p)
  <2>1. /\ UNCHANGED <<items, asked, journal, lock, fresh>> /\ proc[p].at = "check"
        /\ Goto(p, "lock") \/ Answer(p, "unchanged")
    BY <1>2 DEF Check
  <2> QED
    BY <2>1, GoSound, EndSound DEF Inside
<1>3. CASE Enter(p)
  <2>1. /\ UNCHANGED <<items, asked, journal>> /\ proc[p].at # "idle"
        /\ \/ lock = None /\ lock' = p /\ (Goto(p, "reread") \/ Goto(p, "recover"))
           \/ Answer(p, "lock-held") /\ UNCHANGED <<lock, fresh>>
    BY <1>3 DEF Enter
  <2> QED
    BY <2>1, GoSound, EndSound
<1>4. CASE Return(p)
  <2>1. /\ proc' = [proc EXCEPT ![p] = Idle] /\ Idle.at = "idle"
        /\ UNCHANGED <<items, asked, journal, lock, fresh>>
    BY <1>4 DEF Return, Idle
  <2> QED
    BY <2>1, StepOnly DEF Inside
<1> QED
  BY <1>1, <1>2, <1>3, <1>4

\* What SnapshotRevision does not tell apart holds the same bytes.
LEMMA SameSnapshot ==
  ASSUME NEW L, NEW M, SnapshotRevision(L) = SnapshotRevision(M), NEW i \in Item
  PROVE  L[i] = M[i]
<1>1. CASE L[i] # Gone
  <2>1. <<i, L[i]>> \in SnapshotRevision(M)
    BY <1>1 DEF SnapshotRevision, Present
  <2> QED
    BY <2>1 DEF SnapshotRevision
<1>2. CASE M[i] # Gone
  <2>1. <<i, M[i]>> \in SnapshotRevision(L)
    BY <1>2 DEF SnapshotRevision, Present
  <2> QED
    BY <2>1 DEF SnapshotRevision
<1> QED
  BY <1>1, <1>2

\* Under the lock, and before the intent, the ledger is the one asked about.
LEMMA StagingSound ==
  ASSUME IInv, NEW p \in Proc, proc[p].at \in {"reread", "stage"}, NEW at \in {"stage", "intent"},
         Goto(p, at), UNCHANGED <<items, journal, asked, fresh, lock>>,
         Unrecorded(RepairOf[p]),
         \A i \in Item \ fresh : items[i] = asked[RepairOf[p]].snapshot[i]
  PROVE  IInv'
<1> DEFINE c == [proc[p] EXCEPT !.at = at]
<1>1. IsCall(c) /\ c.at = at /\ asked[RepairOf[p]] # None /\ lock = p
  BY Moved DEF IInv, Sound, Inside
<1>2. proc' = [proc EXCEPT ![p] = c]
  BY DEF Goto
<1>3. proc'[p] = c
  BY <1>2 DEF IInv, Shaped, IsOver
<1> HIDE DEF c
<1>4. Sound(p)'
  BY <1>1, <1>3 DEF Sound, SeenIsThere, Unrecorded, Intents
<1>5. OneIntent' /\ IsOver(items, Item)' /\ (\E S : journal \in Seq(S))'
  BY DEF IInv, OneIntent, Intents, Shaped, IsOver
<1> QED
  BY <1>1, <1>2, <1>4, <1>5, StepIsSound

LEMMA RereadSound ==
  ASSUME IInv, NEW p \in Proc, Reread(p)
  PROVE  IInv'
<1> DEFINE r == RepairOf[p]
<1>1. proc[p].at = "reread" /\ lock = p /\ UNCHANGED <<items, asked, staging, journal, fresh>>
  BY DEF Reread, IInv, Sound, Inside
<1>2. CASE ~ Readable \/ Finals(r) # {}
  <2>1. \E state : Leave(p, state)
    BY <1>2 DEF Reread
  <2> QED
    BY <1>1, <2>1, LeaveSound DEF Inside
<1>3. CASE Readable /\ Finals(r) = {} /\ Intents(r) # {}
  BY <1>1, <1>3, GoSound DEF Reread, Inside
<1>4. CASE Readable /\ Intents(r) = {} /\ Finals(r) = {}
  <2>1. \/ Leave(p, "unchanged")
        \/ /\ SnapshotRevision(items) = SnapshotRevision(asked[r].snapshot)
           /\ Goto(p, "stage") /\ UNCHANGED lock
    BY <1>4 DEF Reread
  <2>2. CASE Leave(p, "unchanged")
    BY <1>1, <2>2, LeaveSound DEF Inside
  <2>3. CASE /\ SnapshotRevision(items) = SnapshotRevision(asked[r].snapshot)
             /\ Goto(p, "stage") /\ UNCHANGED lock
    <3>1. \A i \in Item : items[i] = asked[r].snapshot[i]
      BY <2>3, SameSnapshot
    <3> QED
      BY <1>1, <1>4, <2>3, <3>1, StagingSound DEF Unrecorded
  <2> QED
    BY <2>1, <2>2, <2>3
<1> QED
  BY <1>2, <1>3, <1>4

LEMMA StageSound ==
  ASSUME IInv, NEW p \in Proc, Stage(p)
  PROVE  IInv'
<1>1. /\ proc[p].at = "stage" /\ UNCHANGED <<items, asked, journal, fresh>>
      /\ Leave(p, "error") \/ (Goto(p, "intent") /\ UNCHANGED lock)
  BY DEF Stage
<1>2. CASE Leave(p, "error")
  BY <1>1, <1>2, LeaveSound DEF Inside
<1>3. CASE Goto(p, "intent") /\ UNCHANGED lock
  <2>1. Unrecorded(RepairOf[p]) /\ \A i \in Item \ fresh : items[i] = asked[RepairOf[p]].snapshot[i]
    BY <1>1 DEF IInv, Sound, SeenIsThere
  <2> QED
    BY <1>1, <1>3, <2>1, StagingSound
<1> QED
  BY <1>1, <1>2, <1>3

\* The intent expects what is there.
LEMMA AppendIntentSound ==
  ASSUME IInv, NEW p \in Proc, AppendIntent(p)
  PROVE  IInv'
<1> DEFINE r == RepairOf[p]
           e == [type |-> "intent", repair |-> r, expected |-> asked[r].snapshot,
                 candidate |-> staging[r]]
           c == [proc[p] EXCEPT !.at = "replace", !.todo = DOMAIN staging[r]]
<1>1. /\ proc[p].at = "intent" /\ journal' = Append(journal, e)
      /\ proc' = [proc EXCEPT ![p] = c]
      /\ UNCHANGED <<items, asked, lock, fresh>>
  BY DEF AppendIntent
<1>2. /\ r \in Repair /\ lock = p /\ Unrecorded(r) /\ asked[r] # None
      /\ \A i \in Item \ fresh : items[i] = asked[r].snapshot[i]
      /\ IsCall(proc[p]) /\ Shaped
  BY <1>1, RepairAssumption DEF IInv, Sound, SeenIsThere, Inside, Shaped, Idle
<1>3. IsCall(c) /\ c.at = "replace"
  <2> DEFINE b == [proc[p] EXCEPT !.at = "replace"]
  <2>1. IsCall(b) /\ b.at = "replace"
    BY <1>2 DEF IsCall
  <2> HIDE DEF b
  <2>2. IsCall([b EXCEPT !.todo = DOMAIN staging[r]]) /\ [b EXCEPT !.todo = DOMAIN staging[r]].at = "replace"
    BY <2>1 DEF IsCall
  <2>3. c = [b EXCEPT !.todo = DOMAIN staging[r]]
    BY DEF b
  <2> QED
    BY <2>2, <2>3
<1>4. proc'[p] = c
  BY <1>1 DEF IInv, Shaped, IsOver
<1>5. e.type = "intent" /\ e.repair = r /\ e.expected = asked[r].snapshot
  OBVIOUS
<1> HIDE DEF c, e
<1>6. /\ (\E S : journal \in Seq(S))'
      /\ \A q \in Repair : q # r => Intents(q)' = Intents(q)
      /\ Intents(r)' = Intents(r) \cup {Len(journal) + 1}
  BY <1>1, <1>2, <1>5, IntentAppended
<1>7. Intent(r)' = e
  BY <1>1, <1>2, <1>5, IntentIsTheEntry
<1>8. OneIntent'
  <2>1. ASSUME NEW q \in Repair PROVE (\A n, m \in Intents(q) : n = m)'
    <3>1. CASE q = r
      BY <1>2, <1>6, <3>1 DEF Unrecorded
    <3>2. CASE q # r
      <4>1. Intents(q)' = Intents(q) /\ \A n, m \in Intents(q) : n = m
        BY <1>6, <3>2 DEF IInv, OneIntent
      <4> QED
        BY <4>1
    <3> QED
      BY <3>1, <3>2
  <2> QED
    BY <2>1 DEF OneIntent
<1>9. Sound(p)'
  BY <1>1, <1>2, <1>3, <1>4, <1>5, <1>7 DEF Sound, SeenIsThere
<1>10. IsOver(items, Item)'
  BY <1>1, <1>2 DEF Shaped, IsOver
<1> QED
  BY <1>1, <1>2, <1>3, <1>6, <1>8, <1>9, <1>10, StepIsSound

\* An item less to replace, and no other touched.
LEMMA ItemDone ==
  ASSUME IInv, NEW p \in Proc, proc[p].at \in {"replace", "redo"}, NEW i \in Item,
         NEW c, IsCall(c), c.at = proc[p].at, c.seen = proc[p].seen, c.todo = proc[p].todo \ {i},
         proc' = [proc EXCEPT ![p] = c],
         IsOver(items, Item)', \A k \in Item : k # i => items'[k] = items[k],
         UNCHANGED <<lock, asked, journal, fresh>>
  PROVE  IInv'
<1>1. proc'[p] = c
  BY DEF IInv, Shaped, IsOver
<1>2. lock = p /\ Sound(p)
  BY DEF IInv, Sound, Inside
<1>3. SeenIsThere(p)'
  <2> SUFFICES ASSUME NEW k \in Item \ fresh
               PROVE  /\ c.at = "replace" /\ k \in c.todo =>
                           items'[k] = Intent(RepairOf[p]).expected[k]
                      /\ c.at = "redo" /\ k \in c.todo => items'[k] = c.seen[k]
    BY <1>1 DEF SeenIsThere, Intent, Intents
  <2> QED
    BY <1>2 DEF Sound, SeenIsThere
<1>4. Sound(p)'
  BY <1>1, <1>2, <1>3 DEF Sound, Unrecorded, Intents
<1>5. OneIntent' /\ (\E S : journal \in Seq(S))'
  BY DEF IInv, OneIntent, Intents, Shaped
<1> QED
  BY <1>2, <1>4, <1>5, StepIsSound

LEMMA WriteSound ==
  ASSUME IInv, NEW p \in Proc, proc[p].at \in {"replace", "redo"}, NEW i \in Item, Write(p, i),
         UNCHANGED <<asked, journal, fresh>>
  PROVE  IInv'
<1>1. CASE items[i] = Gone
  BY <1>1, LeaveSound DEF Write, Inside
<1>2. CASE items[i] # Gone
  <2> DEFINE c == [proc[p] EXCEPT !.todo = @ \ {i}, !.wrote = TRUE]
  <2>1. /\ proc' = [proc EXCEPT ![p] = c] /\ UNCHANGED lock
        /\ items' = [items EXCEPT ![i] = Staged(RepairOf[p])[i]]
    BY <1>2 DEF Write
  <2>2. IsCall(proc[p])
    BY DEF IInv, Shaped, Idle
  <2>3. IsCall(c) /\ c.at = proc[p].at /\ c.seen = proc[p].seen /\ c.todo = proc[p].todo \ {i}
    <3> DEFINE less == proc[p].todo \ {i}
               b == [proc[p] EXCEPT !.todo = less]
    <3> HIDE DEF less
    <3>1. IsCall(b) /\ b.at = proc[p].at /\ b.seen = proc[p].seen /\ b.todo = less
      BY <2>2 DEF IsCall
    <3> HIDE DEF b
    <3> DEFINE d == [b EXCEPT !.wrote = TRUE]
    <3>2. IsCall(d) /\ d.at = b.at /\ d.seen = b.seen /\ d.todo = b.todo
      BY <3>1, Noted
    <3>3. c = d
      BY DEF b, less
    <3> QED
      BY <3>1, <3>2, <3>3 DEF less
  <2>4. IsOver(items, Item)' /\ \A k \in Item : k # i => items'[k] = items[k]
    BY <2>1 DEF IInv, Shaped, IsOver
  <2> QED
    BY <2>1, <2>3, <2>4, ItemDone
<1> QED
  BY <1>1, <1>2

LEMMA ReplaceSound ==
  ASSUME IInv, NEW p \in Proc, (\E i \in Item : Replace(p, i)) \/ Validate(p)
  PROVE  IInv'
<1>1. ASSUME NEW i \in Item, Replace(p, i) PROVE IInv'
  BY <1>1, WriteSound DEF Replace
<1>2. CASE Validate(p)
  <2>1. /\ proc[p].at = "replace" /\ UNCHANGED <<items, asked, journal, fresh>>
        /\ (Goto(p, "final") /\ UNCHANGED lock) \/ Leave(p, "unchanged")
    BY <1>2 DEF Validate
  <2>2. lock = p
    BY <2>1 DEF IInv, Sound, Inside
  <2> QED
    BY <2>1, <2>2, LeaveSound, GoSound DEF Inside
<1> QED
  BY <1>1, <1>2

LEMMA AppendFinalSound ==
  ASSUME IInv, NEW p \in Proc, AppendFinal(p)
  PROVE  IInv'
<1> DEFINE e == [type |-> "final", repair |-> RepairOf[p]]
           c == [proc[p] EXCEPT !.at = "done", !.state = "committed"]
<1>0. CASE ~ Readable
  <2>1. /\ proc[p].at = "final" /\ Leave(p, "error")
        /\ UNCHANGED <<items, journal, asked, fresh>>
    BY <1>0 DEF AppendFinal
  <2> QED
    BY <2>1, LeaveSound DEF Inside
<1> SUFFICES ASSUME Readable PROVE IInv'
  BY <1>0
<1>1. /\ proc[p].at = "final" /\ journal' = Append(journal, e)
      /\ proc' = [proc EXCEPT ![p] = c] /\ lock' = None
      /\ UNCHANGED <<items, asked, fresh>>
  BY DEF AppendFinal, Leave, Answer
<1>2. lock = p /\ IsCall(proc[p]) /\ asked[RepairOf[p]] # None /\ Shaped
  BY <1>1 DEF IInv, Sound, Inside, Shaped, Idle
<1>3. IsCall(c) /\ c.at = "done"
  BY <1>2, Ended
<1>4. proc'[p] = c
  BY <1>1 DEF IInv, Shaped, IsOver
<1>5. e.type = "final" /\ e.repair = RepairOf[p]
  OBVIOUS
<1> HIDE DEF c, e
<1>6. (\E S : journal \in Seq(S))' /\ \A q \in Repair : Intents(q)' = Intents(q)
  <2>1. \A q \in Repair : (\E S : journal \in Seq(S))' /\ Intents(q)' = Intents(q)
    BY <1>1, <1>2, <1>5, FinalAppended
  <2>2. RepairOf[p] \in Repair
    BY RepairAssumption
  <2> QED
    BY <2>1, <2>2
<1>7. OneIntent' /\ IsOver(items, Item)'
  BY <1>1, <1>6 DEF IInv, OneIntent, Shaped, IsOver
<1>8. Sound(p)'
  BY <1>1, <1>2, <1>3, <1>4 DEF Sound, SeenIsThere, Inside
<1> QED
  BY <1>1, <1>2, <1>3, <1>6, <1>7, <1>8, StepIsSound

\* What recovery decides by is what it has just loaded.
LEMMA RecoverSound ==
  ASSUME IInv, NEW p \in Proc, Recover(p)
  PROVE  IInv'
<1>1. proc[p].at = "recover" /\ UNCHANGED <<items, asked, journal, fresh>>
  BY DEF Recover
<1>2. CASE Leave(p, "unknown")
  BY <1>1, <1>2, LeaveSound DEF Inside
<1>3. CASE ~ Leave(p, "unknown")
  <2> DEFINE todo == DOMAIN Intent(RepairOf[p]).candidate
             c == [proc[p] EXCEPT !.at = "redo", !.seen = items, !.todo = todo]
             a == [proc[p] EXCEPT !.at = "redo"]
             b == [a EXCEPT !.seen = items]
             d == [b EXCEPT !.todo = todo]
  <2>1. proc' = [proc EXCEPT ![p] = c] /\ UNCHANGED lock
    BY <1>3 DEF Recover
  <2>2. lock = p /\ IsCall(proc[p]) /\ asked[RepairOf[p]] # None
    BY <1>1 DEF IInv, Sound, Inside, Shaped, Idle
  <2>3. c = d
    OBVIOUS
  <2> HIDE DEF todo
  <2>4. IsCall(a) /\ a.at = "redo"
    BY <2>2 DEF IsCall
  <2> HIDE DEF a
  <2>5. IsCall(b) /\ b.at = "redo" /\ b.seen = items
    BY <2>4 DEF IsCall
  <2> HIDE DEF b
  <2>6. IsCall(d) /\ d.at = "redo" /\ d.seen = items
    BY <2>5 DEF IsCall
  <2> HIDE DEF c, d
  <2>7. proc'[p] = c
    BY <2>1 DEF IInv, Shaped, IsOver
  <2>8. Sound(p)'
    BY <1>1, <2>1, <2>2, <2>3, <2>6, <2>7 DEF Sound, SeenIsThere
  <2>9. OneIntent' /\ IsOver(items, Item)' /\ (\E S : journal \in Seq(S))'
    BY <1>1 DEF IInv, OneIntent, Intents, Shaped, IsOver
  <2> QED
    BY <1>1, <2>1, <2>2, <2>3, <2>6, <2>8, <2>9, StepIsSound
<1> QED
  BY <1>2, <1>3

LEMMA RedoSound ==
  ASSUME IInv, NEW p \in Proc, (\E i \in Item : Redo(p, i)) \/ Revalidate(p)
  PROVE  IInv'
<1>1. ASSUME NEW i \in Item, Redo(p, i) PROVE IInv'
  <2> DEFINE c == [proc[p] EXCEPT !.todo = proc[p].todo \ {i}]
  <2>1. proc[p].at = "redo" /\ UNCHANGED <<asked, journal, fresh>>
    BY <1>1 DEF Redo
  <2>2. CASE proc[p].seen[i] = Intent(RepairOf[p]).candidate[i]
    <3>1. proc' = [proc EXCEPT ![p] = c] /\ UNCHANGED <<items, lock>>
      BY <1>1, <2>2 DEF Redo
    <3>2. IsCall(proc[p])
      BY <2>1 DEF IInv, Shaped, Idle
    <3>3. IsCall(c) /\ c.at = proc[p].at /\ c.seen = proc[p].seen /\ c.todo = proc[p].todo \ {i}
      BY <3>2 DEF IsCall
    <3>4. IsOver(items, Item)' /\ \A k \in Item : k # i => items'[k] = items[k]
      BY <3>1 DEF IInv, Shaped, IsOver
    <3> QED
      BY <2>1, <3>1, <3>3, <3>4, ItemDone
  <2>3. CASE /\ proc[p].seen[i] # Intent(RepairOf[p]).candidate[i]
             /\ proc[p].seen[i] = Intent(RepairOf[p]).expected[i]
    <3>1. Write(p, i)
      BY <1>1, <2>3 DEF Redo
    <3> QED
      BY <2>1, <3>1, WriteSound
  <2>4. CASE /\ proc[p].seen[i] # Intent(RepairOf[p]).candidate[i]
             /\ proc[p].seen[i] # Intent(RepairOf[p]).expected[i]
    <3>1. Leave(p, "unknown") /\ UNCHANGED items
      BY <1>1, <2>4 DEF Redo
    <3> QED
      BY <2>1, <3>1, LeaveSound DEF Inside
  <2> QED
    BY <2>2, <2>3, <2>4
<1>2. CASE Revalidate(p)
  <2>1. /\ proc[p].at = "redo" /\ UNCHANGED <<items, asked, journal, fresh>>
        /\ (Goto(p, "final") /\ UNCHANGED lock) \/ Leave(p, "unknown")
    BY <1>2 DEF Revalidate
  <2>2. lock = p
    BY <2>1 DEF IInv, Sound, Inside
  <2> QED
    BY <2>1, <2>2, LeaveSound, GoSound DEF Inside
<1> QED
  BY <1>1, <1>2

LEMMA NextSound == IInv /\ [Next]_vars => IInv'
<1> SUFFICES ASSUME IInv, [Next]_vars PROVE IInv'
  OBVIOUS
<1>1. CASE UNCHANGED vars
  <2>1. UNCHANGED <<items, asked, journal, lock, proc, fresh>>
    BY <1>1 DEF vars
  <2>2. Shaped' /\ OneIntent'
    BY <2>1 DEF IInv, Shaped, IsOver, IsCall, OneIntent, Intents
  <2>3. ASSUME NEW p \in Proc PROVE Sound(p)'
    <3>1. Sound(p) /\ (proc[p].at \in Inside => lock' = p)
      BY <2>1 DEF IInv, Sound
    <3> QED
      BY <2>1, <3>1, OthersKeep
  <2> QED
    BY <2>2, <2>3 DEF IInv
<1>2. ASSUME NEW r \in Repair, Ask(r) PROVE IInv'
  BY <1>2, AskSound
<1>3. ASSUME NEW p \in Proc, Work(p) PROVE IInv'
  BY <1>3, OutsideSound, RereadSound, StageSound, AppendIntentSound, ReplaceSound,
     AppendFinalSound, RecoverSound, RedoSound DEF Work
<1>4. ASSUME NEW p \in Proc, Crash(p) PROVE IInv'
  BY <1>4, CrashSound
<1>5. ASSUME NEW i \in Item, NEW bytes, Edit(i, bytes) PROVE IInv'
  BY <1>5, EditSound
<1> QED
  BY <1>1, <1>2, <1>3, <1>4, <1>5 DEF Next

LEMMA Invariance == Spec => []IInv
  BY InitSound, NextSound, PTL DEF Spec

-----------------------------------------------------------------------------
(* Edits are kept.                                                         *)

\* Only the process that steps moves, and where it goes is what the step says.
LEMMA Moves ==
  ASSUME IInv, NEW p \in Proc, Work(p) \/ Crash(p)
  PROVE  \A q \in Proc : q # p => proc'[q] = proc[q]
<1> USE DEF IInv, Shaped, IsOver
<1>1. CASE Begin(p) \/ Check(p) \/ Enter(p) \/ Reread(p) \/ Return(p) \/ Crash(p)
  <2>1. \E c : proc' = [proc EXCEPT ![p] = c]
    BY <1>1 DEF Begin, Check, Enter, Reread, Return, Crash, Goto, Leave, Answer
  <2> QED
    BY <2>1
<1>2. CASE Stage(p) \/ AppendIntent(p) \/ Validate(p) \/ AppendFinal(p) \/ Recover(p) \/ Revalidate(p)
  <2>1. \E c : proc' = [proc EXCEPT ![p] = c]
    BY <1>2 DEF Stage, AppendIntent, Validate, AppendFinal, Recover, Revalidate, Goto, Leave, Answer
  <2> QED
    BY <2>1
<1>3. ASSUME NEW i \in Item, Replace(p, i) \/ Redo(p, i)
      PROVE  \A q \in Proc : q # p => proc'[q] = proc[q]
  <2>1. \E c : proc' = [proc EXCEPT ![p] = c]
    BY <1>3 DEF Replace, Redo, Write, Leave, Answer
  <2> QED
    BY <2>1
<1> QED
  BY <1>1, <1>2, <1>3 DEF Work

LEMMA Went ==
  ASSUME IInv, NEW p \in Proc, proc[p].at # "idle"
  PROVE  /\ \A at : Goto(p, at) => proc'[p].at = at
         /\ \A state : Answer(p, state) => proc'[p].at = "done"
         /\ \A state : Leave(p, state) => proc'[p].at = "done"
<1>1. IsCall(proc[p])
  BY DEF IInv, Shaped, Idle
<1>2. ASSUME NEW at, Goto(p, at) PROVE proc'[p].at = at
  <2>1. proc'[p] = [proc[p] EXCEPT !.at = at]
    BY <1>2 DEF Goto, IInv, Shaped, IsOver
  <2> QED
    BY <2>1, Moved
<1>3. ASSUME NEW state, Answer(p, state) PROVE proc'[p].at = "done"
  <2>1. proc'[p] = [proc[p] EXCEPT !.at = "done", !.state = state]
    BY <1>3 DEF Answer, IInv, Shaped, IsOver
  <2>2. [proc[p] EXCEPT !.at = "done", !.state = state].at = "done"
    BY <1>1, Ended, Zenon
  <2> QED
    BY <2>1, <2>2
<1> QED
  BY <1>2, <1>3 DEF Leave

\* A write leaves the call, or takes one item off.
LEMMA WriteTakesOne ==
  ASSUME IInv, NEW p \in Proc, proc[p].at \in {"replace", "redo"}, NEW k \in Item, Write(p, k),
         NEW i \in Item, i \in proc[p].todo, i \notin proc'[p].todo, proc'[p].at = proc[p].at
  PROVE  i = k
<1>1. CASE items[k] = Gone
  BY <1>1, Went DEF Write
<1>2. CASE items[k] # Gone
  <2> DEFINE less == proc[p].todo \ {k}
             b == [proc[p] EXCEPT !.todo = less]
             d == [b EXCEPT !.wrote = TRUE]
  <2>1. IsCall(proc[p])
    BY DEF IInv, Shaped, Idle
  <2>2. proc'[p] = d
    BY <1>2 DEF Write, IInv, Shaped, IsOver
  <2> HIDE DEF less
  <2>3. IsCall(b) /\ b.todo = less
    BY <2>1 DEF IsCall
  <2> HIDE DEF b
  <2>4. d.todo = less
    BY <2>3, Noted
  <2> QED
    BY <2>2, <2>4 DEF less
<1> QED
  BY <1>1, <1>2

\* What somebody wrote while a repair lay unfinished survives it: a replacement
\* finds what the intent expected (numberRepair and recoverNumberRepair).
THEOREM EditsSurviveRepair == Spec => EditsAreKept
<1> DEFINE Kept(p, i) ==
      proc[p].at \in {"replace", "redo"} /\ i \in proc[p].todo
        /\ proc'[p].at = proc[p].at /\ i \notin proc'[p].todo /\ i \notin fresh =>
          \/ items'[i] = items[i]
          \/ items[i] = Intent(RepairOf[p]).expected[i]
<1>1. ASSUME IInv, Next, NEW p \in Proc, NEW i \in Item PROVE Kept(p, i)
  <2> SUFFICES ASSUME proc[p].at \in {"replace", "redo"}, i \in proc[p].todo,
                      proc'[p].at = proc[p].at, i \notin proc'[p].todo, i \notin fresh
               PROVE  \/ items'[i] = items[i]
                      \/ items[i] = Intent(RepairOf[p]).expected[i]
    OBVIOUS
  <2>1. proc'[p] # proc[p]
    OBVIOUS
  <2>2. Work(p) \/ Crash(p)
    <3>1. ASSUME NEW r \in Repair, Ask(r) PROVE FALSE
      BY <2>1, <3>1 DEF Ask
    <3>2. ASSUME NEW k \in Item, NEW bytes, Edit(k, bytes) PROVE FALSE
      BY <2>1, <3>2 DEF Edit
    <3>3. PICK q \in Proc : Work(q) \/ Crash(q)
      BY <1>1, <3>1, <3>2 DEF Next
    <3>4. q = p
      BY <1>1, <2>1, <3>3, Moves
    <3> QED
      BY <3>3, <3>4
  <2>3. SeenIsThere(p)
    BY <1>1 DEF IInv, Sound
  <2>4. CASE Crash(p)
    BY <1>1, <2>4 DEF Crash, IInv, Shaped, IsOver, Idle
  <2>5. ASSUME NEW k \in Item, Replace(p, k) PROVE items[i] = Intent(RepairOf[p]).expected[i]
    <3>1. proc[p].at = "replace" /\ Write(p, k)
      BY <2>5 DEF Replace
    <3> QED
      BY <1>1, <2>3, <3>1, WriteTakesOne DEF SeenIsThere
  <2>6. ASSUME NEW k \in Item, Redo(p, k)
        PROVE  items'[i] = items[i] \/ items[i] = Intent(RepairOf[p]).expected[i]
    <3>1. proc[p].at = "redo"
      BY <2>6 DEF Redo
    <3>2. CASE proc[p].seen[k] = Intent(RepairOf[p]).candidate[k]
      BY <2>6, <3>2 DEF Redo
    <3>3. CASE /\ proc[p].seen[k] # Intent(RepairOf[p]).candidate[k]
               /\ proc[p].seen[k] = Intent(RepairOf[p]).expected[k]
      <4>1. Write(p, k)
        BY <2>6, <3>3 DEF Redo
      <4>2. i = k
        BY <1>1, <3>1, <4>1, WriteTakesOne
      <4> QED
        BY <2>3, <3>1, <3>3, <4>2 DEF SeenIsThere
    <3>4. CASE /\ proc[p].seen[k] # Intent(RepairOf[p]).candidate[k]
               /\ proc[p].seen[k] # Intent(RepairOf[p]).expected[k]
      <4>1. UNCHANGED items
        BY <2>6, <3>4 DEF Redo
      <4> QED
        BY <4>1
    <3> QED
      BY <3>2, <3>3, <3>4
  <2>7. CASE Validate(p) \/ Revalidate(p)
    BY <2>7 DEF Validate, Revalidate
  <2>8. CASE \/ Begin(p) \/ Check(p) \/ Enter(p) \/ Reread(p) \/ Stage(p) \/ AppendIntent(p)
             \/ AppendFinal(p) \/ Recover(p) \/ Return(p)
    BY <2>8 DEF Begin, Check, Enter, Reread, Stage, AppendIntent, AppendFinal, Recover, Return, Idle
  <2> QED
    BY <2>2, <2>4, <2>5, <2>6, <2>7, <2>8 DEF Work
<1>2. IInv /\ [Next]_vars => [\A p \in Proc, i \in Item : Kept(p, i)]_vars
  BY <1>1
<1> QED
  BY <1>2, Invariance, PTL DEF Spec, EditsAreKept

-----------------------------------------------------------------------------
(* One intent, and the finals after it.                                    *)

\* Without an append, only where the stepping process goes has to be looked at.
LEMMA NothingAppended ==
  ASSUME JInv, UNCHANGED journal, NEW p \in Proc,
         \A q \in Proc : q # p => proc'[q] = proc[q],
         proc'[p].at \in {"recover-lock", "recover", "redo", "replace", "final"} =>
           Intents(RepairOf[p]) # {}
  PROVE  JInv'
<1>1. \A r : Intents(r)' = Intents(r) /\ Finals(r)' = Finals(r)
  BY DEF Intents, Finals
<1>2. FinalsFollow'
  BY <1>1 DEF JInv, FinalsFollow
<1>3. \A q \in Proc : UnderWay(q)'
  BY <1>1 DEF JInv, UnderWay
<1> QED
  BY <1>2, <1>3 DEF JInv

LEMMA IntentRecords ==
  ASSUME IInv, JInv, NEW p \in Proc, AppendIntent(p)
  PROVE  JInv'
<1> DEFINE r == RepairOf[p]
           e == [type |-> "intent", repair |-> r, expected |-> asked[r].snapshot,
                 candidate |-> staging[r]]
<1>1. /\ journal' = Append(journal, e) /\ r \in Repair
      /\ Shaped /\ e.type = "intent" /\ e.repair = r
  BY RepairAssumption DEF AppendIntent, IInv
<1> HIDE DEF e
<1>2. \A q \in Repair : /\ Finals(q)' = Finals(q)
                        /\ q # r => Intents(q)' = Intents(q)
                        /\ q = r => Intents(q)' = Intents(q) \cup {Len(journal) + 1}
  BY <1>1, IntentAppended
<1>3. FinalsFollow'
  BY <1>2 DEF JInv, FinalsFollow
<1>4. UnderWay(p)'
  BY <1>1, <1>2 DEF UnderWay
<1>5. ASSUME NEW q \in Proc, q # p PROVE UnderWay(q)'
  <2>1. RepairOf[q] \in Repair
    BY RepairAssumption
  <2>2. proc'[q] = proc[q]
    BY <1>5, Moves DEF Work
  <2> QED
    BY <1>2, <2>1, <2>2 DEF JInv, UnderWay
<1> QED
  BY <1>3, <1>4, <1>5 DEF JInv

LEMMA FinalFollows ==
  ASSUME IInv, JInv, NEW p \in Proc, AppendFinal(p)
  PROVE  JInv'
<1> DEFINE r == RepairOf[p]
           e == [type |-> "final", repair |-> r]
<1>1. /\ proc[p].at = "final" /\ r \in Repair /\ Shaped /\ Intents(r) # {}
      /\ e.type = "final" /\ e.repair = r
  BY RepairAssumption DEF AppendFinal, IInv, JInv, UnderWay
<1>2. \A q \in Proc : q # p => proc'[q] = proc[q]
  BY Moves DEF Work
<1>3. (\E state : Leave(p, state)) /\ (journal' = Append(journal, e) \/ UNCHANGED journal)
  BY DEF AppendFinal
<1>4. proc'[p].at = "done"
  BY <1>1, <1>3, Went
<1> HIDE DEF e
<1>5. CASE UNCHANGED journal
  BY <1>2, <1>4, <1>5, NothingAppended
<1>6. CASE journal' = Append(journal, e)
  <2>1. \A q \in Repair : /\ Intents(q)' = Intents(q)
                          /\ q # r => Finals(q)' = Finals(q)
                          /\ q = r => Finals(q)' = Finals(q) \cup {Len(journal) + 1}
    BY <1>1, <1>6, FinalAppended
  <2>2. \A n \in Intents(r) : n < Len(journal) + 1
    <3>1. PICK S : journal \in Seq(S)
      BY <1>1 DEF Shaped
    <3> QED
      BY <3>1 DEF Intents
  <2>3. FinalsFollow'
    BY <1>1, <2>1, <2>2 DEF JInv, FinalsFollow
  <2>4. ASSUME NEW q \in Proc PROVE UnderWay(q)'
    <3>1. RepairOf[q] \in Repair
      BY RepairAssumption
    <3> QED
      BY <1>2, <1>4, <2>1, <3>1 DEF JInv, UnderWay
  <2> QED
    BY <2>3, <2>4 DEF JInv
<1> QED
  BY <1>3, <1>5, <1>6

\* Where the other steps lead, a repair that is under way is recorded.
LEMMA StaysRecorded ==
  ASSUME IInv, JInv, NEW p \in Proc, Work(p) \/ Crash(p),
         ~ AppendIntent(p), ~ AppendFinal(p)
  PROVE  JInv'
<1> DEFINE Open == Intents(RepairOf[p]) # {}
           Goes == proc'[p].at \in {"recover-lock", "recover", "redo", "replace", "final"} => Open
<1>1. \A q \in Proc : q # p => proc'[q] = proc[q]
  BY Moves
<1>2. CASE Begin(p)
  <2>1. UNCHANGED journal
    BY <1>2 DEF Begin
  <2>2. Goes
    <3> DEFINE call == [at |-> "check", todo |-> {}, seen |-> None, wrote |-> FALSE, state |-> None]
    <3>1. IsCall(call) /\ call.at = "check"
      BY DEF IsCall
    <3>2. \A state : [call EXCEPT !.at = "done", !.state = state].at = "done"
      BY <3>1, Ended
    <3>3. SUFFICES ASSUME ~ Open PROVE proc'[p].at \in {"check", "done"}
      OBVIOUS
    <3> HIDE DEF call
    <3>4. proc'[p] = call \/ \E state : proc'[p] = [call EXCEPT !.at = "done", !.state = state]
      BY <1>2, <3>3 DEF Begin, call, IInv, Shaped, IsOver
    <3> QED
      BY <3>1, <3>2, <3>4
  <2> QED
    BY <1>1, <2>1, <2>2, NothingAppended
<1>3. CASE Return(p) \/ Crash(p)
  <2>1. UNCHANGED journal /\ proc'[p].at = "idle"
    BY <1>3 DEF Return, Crash, Idle, IInv, Shaped, IsOver
  <2> QED
    BY <1>1, <2>1, NothingAppended
<1>4. CASE Check(p)
  <2>1. UNCHANGED journal /\ proc[p].at # "idle" /\ (Goto(p, "lock") \/ Answer(p, "unchanged"))
    BY <1>4 DEF Check
  <2>2. proc'[p].at \in {"lock", "done"}
    BY <2>1, Went
  <2> QED
    BY <1>1, <2>1, <2>2, NothingAppended
<1>5. CASE Enter(p)
  <2>1. /\ UNCHANGED journal /\ proc[p].at # "idle"
        /\ \/ Goto(p, "reread") \/ Answer(p, "lock-held")
           \/ Goto(p, "recover") /\ proc[p].at = "recover-lock"
    BY <1>5 DEF Enter
  <2>2. proc'[p].at \in {"reread", "done"} \/ proc[p].at = "recover-lock"
    BY <2>1, Went
  <2>3. Goes
    BY <2>2 DEF JInv, UnderWay
  <2> QED
    BY <1>1, <2>1, <2>3, NothingAppended
<1>6. CASE Reread(p)
  <2>1. /\ UNCHANGED journal /\ proc[p].at # "idle"
        /\ ~ Open => Goto(p, "stage") \/ \E state : Leave(p, state)
    BY <1>6 DEF Reread
  <2>2. ~ Open => proc'[p].at \in {"done", "stage"}
    BY <2>1, Went
  <2>3. Goes
    BY <2>2
  <2> QED
    BY <1>1, <2>1, <2>3, NothingAppended
<1>7. CASE Stage(p)
  <2>1. UNCHANGED journal /\ proc[p].at # "idle" /\ (Leave(p, "error") \/ Goto(p, "intent"))
    BY <1>7 DEF Stage
  <2>2. proc'[p].at \in {"intent", "done"}
    BY <2>1, Went
  <2> QED
    BY <1>1, <2>1, <2>2, NothingAppended
<1>8. ASSUME NEW i \in Item, Replace(p, i) \/ Redo(p, i) PROVE JInv'
  <2>1. UNCHANGED journal /\ proc[p].at \in {"replace", "redo"}
    BY <1>8 DEF Replace, Redo
  <2> QED
    BY <1>1, <2>1, NothingAppended DEF JInv, UnderWay
<1>9. CASE Validate(p) \/ Recover(p) \/ Revalidate(p)
  <2>1. UNCHANGED journal /\ proc[p].at \in {"replace", "recover", "redo"}
    BY <1>9 DEF Validate, Recover, Revalidate
  <2> QED
    BY <1>1, <2>1, NothingAppended DEF JInv, UnderWay
<1> QED
  BY <1>2, <1>3, <1>4, <1>5, <1>6, <1>7, <1>8, <1>9 DEF Work

\* A repair that several callers ask for, and repeat, is published under one intent,
\* and its finals come after it: the journal is read again under the lock before
\* anything is staged.  What a call decided before the lock does no more harm than a
\* second final.
OneIntentEach ==
  \A r \in Repair : /\ Cardinality(Intents(r)) <= 1
                    /\ \A k \in Finals(r) : \E n \in Intents(r) : n < k

THEOREM RepairsHaveOneIntent == Spec => []OneIntentEach
<1>1. Init => JInv
  BY DEF Init, JInv, FinalsFollow, UnderWay, Finals, Intents, Idle
<1>2. IInv /\ JInv /\ [Next]_vars => JInv'
  <2> SUFFICES ASSUME IInv, JInv, [Next]_vars PROVE JInv'
    OBVIOUS
  <2>1. CASE UNCHANGED <<journal, proc>>
    BY <2>1 DEF JInv, FinalsFollow, UnderWay, Intents, Finals
  <2>2. CASE UNCHANGED vars
    BY <2>1, <2>2 DEF vars
  <2>3. ASSUME NEW r \in Repair, Ask(r) PROVE JInv'
    BY <2>1, <2>3 DEF Ask
  <2>4. ASSUME NEW i \in Item, NEW bytes, Edit(i, bytes) PROVE JInv'
    BY <2>1, <2>4 DEF Edit
  <2>5. ASSUME NEW p \in Proc, Work(p) \/ Crash(p) PROVE JInv'
    BY <2>5, IntentRecords, FinalFollows, StaysRecorded
  <2> QED
    BY <2>2, <2>3, <2>4, <2>5 DEF Next
<1>3. IInv /\ JInv => OneIntentEach
  <2> SUFFICES ASSUME IInv, JInv, NEW r \in Repair PROVE Cardinality(Intents(r)) <= 1
    BY DEF OneIntentEach, JInv, FinalsFollow
  <2>1. CASE Intents(r) = {}
    BY <2>1, FS_EmptySet
  <2>2. CASE Intents(r) # {}
    <3>1. PICK n : n \in Intents(r)
      BY <2>2
    <3>2. Intents(r) = {n}
      BY <3>1 DEF IInv, OneIntent
    <3> QED
      BY <3>2, FS_Singleton
  <2> QED
    BY <2>1, <2>2
<1> QED
  BY <1>1, <1>2, <1>3, Invariance, PTL DEF Spec

-----------------------------------------------------------------------------
(* A repair ends with what it staged, or says that it did not.             *)

\* A repair asks for items, and what it recorded is what it staged.
Recorded ==
  \A r \in Repair :
    /\ asked[r] # None => DOMAIN asked[r].to \subseteq Item
    /\ Intents(r) # {} => staging[r] = Intent(r).candidate /\ DOMAIN staging[r] \subseteq Item

\* Until its intent a call has written nothing, and what it will leave is valid;
\* what it has done with holds what it staged, but for edits under the lock.
AsStaged(p) ==
  LET r == RepairOf[p]
      change == Candidates(asked[r].snapshot, asked[r].to)
  IN  /\ proc[p].at \in {"check", "lock", "reread", "stage", "intent"} => proc[p].wrote = FALSE
      /\ proc[p].at \in {"recover-lock", "recover", "redo", "replace", "final"} => Intents(r) # {}
      /\ proc[p].at = "stage" /\ fresh = {} => Valid(Successor(items, change))
      /\ proc[p].at = "intent" => staging[r] = change
      /\ proc[p].at \in {"intent", "replace"} /\ fresh = {} => Valid(Successor(items, staging[r]))
      /\ proc[p].at = "replace" => proc[p].todo \subseteq DOMAIN staging[r]
      /\ proc[p].at \in {"replace", "redo", "final"} =>
           \A i \in DOMAIN staging[r] \ fresh :
             \/ items[i] = staging[r][i]
             \/ proc[p].at # "final" /\ i \in proc[p].todo
      /\ proc[p].at = "final" /\ fresh = {} => Valid(items)

RInv == IsOver(staging, Repair) /\ Recorded /\ \A p \in Proc : AsStaged(p)

\* Where a call goes or ends, it keeps what it has to do and whether it wrote.
LEMMA Keeps ==
  ASSUME IInv, NEW p \in Proc, proc[p].at # "idle"
  PROVE  /\ \A at : Goto(p, at) => /\ proc'[p].at = at /\ proc'[p].todo = proc[p].todo
                                   /\ proc'[p].wrote = proc[p].wrote
         /\ \A state : Answer(p, state) => /\ proc'[p].at = "done" /\ proc'[p].state = state
                                           /\ proc'[p].wrote = proc[p].wrote
<1>1. IsCall(proc[p])
  BY DEF IInv, Shaped, Idle
<1>2. ASSUME NEW at, Goto(p, at)
      PROVE  /\ proc'[p].at = at /\ proc'[p].todo = proc[p].todo
             /\ proc'[p].wrote = proc[p].wrote
  <2>1. proc'[p] = [proc[p] EXCEPT !.at = at]
    BY <1>2 DEF Goto, IInv, Shaped, IsOver
  <2> QED
    BY <1>1, <2>1 DEF IsCall
<1>3. ASSUME NEW state, Answer(p, state)
      PROVE  /\ proc'[p].at = "done" /\ proc'[p].state = state
             /\ proc'[p].wrote = proc[p].wrote
  <2> DEFINE b == [proc[p] EXCEPT !.at = "done"]
             d == [b EXCEPT !.state = state]
  <2>1. proc'[p] = d
    BY <1>3 DEF Answer, IInv, Shaped, IsOver
  <2>2. IsCall(b) /\ b.at = "done" /\ b.wrote = proc[p].wrote
    BY <1>1 DEF IsCall
  <2> HIDE DEF b
  <2>3. d.at = "done" /\ d.state = state /\ d.wrote = proc[p].wrote
    BY <2>2 DEF IsCall
  <2> QED
    BY <2>1, <2>3
<1> QED
  BY <1>2, <1>3

\* A step of one call leaves what the others did as it is.
LEMMA OneRepairs ==
  ASSUME IInv, RInv, NEW p \in Proc, Work(p) \/ Crash(p), asked' = asked,
         IsOver(staging, Repair)', Recorded', AsStaged(p)',
         \A r \in Repair : Intents(r) # {} => Intents(r)' # {},
         \/ UNCHANGED <<items, staging, fresh>>
         \/ lock = p
         \/ lock = None
  PROVE  RInv'
<1> SUFFICES ASSUME NEW q \in Proc, q # p PROVE AsStaged(q)'
  BY DEF RInv
<1>1. proc'[q] = proc[q]
  BY Moves
<1>2. AsStaged(q) /\ Sound(q) /\ RepairOf[q] \in Repair
  BY RepairAssumption DEF RInv, IInv
<1>3. Intents(RepairOf[q]) # {} => Intents(RepairOf[q])' # {}
  BY <1>2
<1>4. CASE proc[q].at \in Inside
  <2>1. items' = items /\ staging' = staging /\ fresh' = fresh
    BY <1>2, <1>4, RepairAssumption DEF Sound
  <2> QED
    BY <1>1, <1>2, <1>3, <2>1 DEF AsStaged
<1>5. CASE proc[q].at \notin Inside
  BY <1>1, <1>2, <1>3, <1>5 DEF AsStaged, Inside
<1> QED
  BY <1>4, <1>5

\* Without an append, and without a staging, the records are what they were.
LEMMA RecordsKept ==
  ASSUME RInv, UNCHANGED <<asked, staging, journal>>
  PROVE  /\ IsOver(staging, Repair)' /\ Recorded'
         /\ \A r : Intents(r)' = Intents(r)
         /\ \A r \in Repair : Intents(r) # {} => Intents(r)' # {}
<1>1. \A r : Intents(r)' = Intents(r) /\ Intent(r)' = Intent(r)
  BY DEF Intents, Intent
<1>2. staging' = staging /\ asked' = asked
  OBVIOUS
<1>3. Recorded'
  BY <1>1, <1>2 DEF RInv, Recorded
<1> QED
  BY <1>1, <1>2, <1>3 DEF RInv, IsOver

\* A step to where nothing is staged or replaced yet, or out of the call.
LEMMA EarlyRepairs ==
  ASSUME IInv, RInv, NEW p \in Proc, Work(p) \/ Crash(p),
         UNCHANGED <<items, asked, staging, journal>>,
         UNCHANGED fresh \/ lock = p \/ lock = None,
         proc'[p].at \in {"idle", "check", "lock", "recover-lock", "reread", "recover", "done"},
         proc'[p].at \in {"check", "lock", "reread"} => proc'[p].wrote = FALSE,
         proc'[p].at \in {"recover-lock", "recover"} => Intents(RepairOf[p]) # {}
  PROVE  RInv'
<1>1. Intents(RepairOf[p])' = Intents(RepairOf[p])
  BY RecordsKept
<1>2. AsStaged(p)'
  BY <1>1 DEF AsStaged
<1>3. UNCHANGED <<items, staging, fresh>> \/ lock = p \/ lock = None
  OBVIOUS
<1>4. asked' = asked
  OBVIOUS
<1> QED
  BY <1>2, <1>3, <1>4, RecordsKept, OneRepairs

LEMMA BeginRepairs ==
  ASSUME IInv, RInv, NEW p \in Proc, Begin(p)
  PROVE  RInv'
<1> DEFINE call == [at |-> "check", todo |-> {}, seen |-> None, wrote |-> FALSE, state |-> None]
           recovery == [call EXCEPT !.at = "recover-lock"]
           answer(state) == [call EXCEPT !.at = "done", !.state = state]
<1>1. IsCall(call) /\ call.at = "check" /\ call.wrote = FALSE
  BY DEF IsCall
<1>2. \/ proc'[p] = call
      \/ proc'[p] = recovery /\ Intents(RepairOf[p]) # {}
      \/ \E state : proc'[p] = answer(state)
  BY DEF Begin, IInv, Shaped, IsOver
<1> HIDE DEF call
<1>3. recovery.at = "recover-lock"
  BY <1>1 DEF IsCall
<1>4. \A state : answer(state).at = "done"
  BY <1>1, Ended
<1> HIDE DEF recovery, answer
<1>5. /\ proc'[p].at \in {"check", "recover-lock", "done"}
      /\ proc'[p].at = "check" => proc'[p].wrote = FALSE
      /\ proc'[p].at = "recover-lock" => Intents(RepairOf[p]) # {}
  BY <1>1, <1>2, <1>3, <1>4
<1>6. UNCHANGED <<items, asked, staging, journal>> /\ UNCHANGED fresh
  BY DEF Begin
<1> QED
  BY <1>5, <1>6, EarlyRepairs DEF Work

LEMMA OutsideRepairs ==
  ASSUME IInv, RInv, NEW p \in Proc, Check(p) \/ Enter(p) \/ Return(p) \/ Crash(p)
  PROVE  RInv'
<1>0. AsStaged(p)
  BY DEF RInv
<1>1. CASE Check(p)
  <2>1. /\ proc[p].at = "check" /\ (Goto(p, "lock") \/ Answer(p, "unchanged"))
        /\ UNCHANGED <<items, asked, staging, journal>> /\ UNCHANGED fresh
    BY <1>1 DEF Check
  <2>2. proc'[p].at \in {"lock", "done"} /\ proc'[p].wrote = FALSE
    BY <1>0, <2>1, Keeps DEF AsStaged
  <2> QED
    BY <1>1, <2>1, <2>2, EarlyRepairs DEF Work
<1>2. CASE Enter(p)
  <2>1. /\ proc[p].at \in {"lock", "recover-lock"}
        /\ \/ proc[p].at = "lock" /\ Goto(p, "reread")
           \/ proc[p].at = "recover-lock" /\ Goto(p, "recover")
           \/ Answer(p, "lock-held")
        /\ UNCHANGED <<items, asked, staging, journal>> /\ (UNCHANGED fresh \/ lock = None)
    BY <1>2 DEF Enter
  <2>2. /\ proc'[p].at \in {"reread", "recover", "done"}
        /\ proc'[p].at = "reread" => proc[p].at = "lock"
        /\ proc'[p].at = "recover" => proc[p].at = "recover-lock"
        /\ proc'[p].wrote = proc[p].wrote
    BY <2>1, Keeps
  <2>3. /\ proc'[p].at = "reread" => proc'[p].wrote = FALSE
        /\ proc'[p].at = "recover" => Intents(RepairOf[p]) # {}
    BY <1>0, <2>2 DEF AsStaged
  <2> QED
    BY <1>2, <2>1, <2>2, <2>3, EarlyRepairs DEF Work
<1>3. CASE Return(p) \/ Crash(p)
  <2>1. /\ proc'[p].at = "idle"
        /\ UNCHANGED <<items, asked, staging, journal>> /\ UNCHANGED fresh
    BY <1>3 DEF Return, Crash, Idle, IInv, Shaped, IsOver
  <2> QED
    BY <1>3, <2>1, EarlyRepairs DEF Work
<1> QED
  BY <1>1, <1>2, <1>3

\* What the ledger asked about holds, the ledger that is loaded holds.
LEMMA SuccessorOfTheSame ==
  ASSUME NEW L, NEW M, \A i \in Item : L[i] = M[i], NEW to
  PROVE  Successor(L, Candidates(L, to)) = Successor(L, Candidates(M, to))
<1>1. \A i \in DOMAIN to : i \in Item => Candidates(L, to)[i] = Candidates(M, to)[i]
  BY DEF Candidates
<1>2. DOMAIN Candidates(L, to) = DOMAIN to /\ DOMAIN Candidates(M, to) = DOMAIN to
  BY DEF Candidates
<1> QED
  BY <1>1, <1>2 DEF Successor

\* Under the lock: what will be published is valid.
LEMMA RereadRepairs ==
  ASSUME IInv, RInv, NEW p \in Proc, Reread(p)
  PROVE  RInv'
<1> DEFINE r == RepairOf[p]
           change == Candidates(asked[r].snapshot, asked[r].to)
<1>1. /\ proc[p].at = "reread" /\ UNCHANGED <<items, asked, staging, journal>> /\ UNCHANGED fresh
      /\ lock = p /\ proc[p].wrote = FALSE
  BY DEF Reread, IInv, Sound, Inside, RInv, AsStaged
<1>2. CASE Goto(p, "stage") /\ Readable /\ Intents(r) = {} /\ Finals(r) = {}
  <2>1. /\ SnapshotRevision(items) = SnapshotRevision(asked[r].snapshot)
        /\ Valid(Successor(items, Candidates(items, asked[r].to)))
    <3>1. proc'[p].at = "stage"
      BY <1>1, <1>2, Keeps
    <3>2. CASE Leave(p, "unchanged")
      BY <1>1, <3>1, <3>2, Keeps DEF Leave
    <3> QED
      BY <1>2, <3>2 DEF Reread
  <2>2. \A i \in Item : items[i] = asked[r].snapshot[i]
    BY <2>1, SameSnapshot
  <2>3. Valid(Successor(items, change))
    BY <2>1, <2>2, SuccessorOfTheSame
  <2>4. proc'[p].at = "stage" /\ proc'[p].wrote = FALSE
    BY <1>1, <1>2, Keeps
  <2>5. AsStaged(p)'
    BY <1>1, <2>3, <2>4 DEF AsStaged
  <2>6. asked' = asked /\ UNCHANGED <<asked, staging, journal>>
    BY <1>1
  <2> QED
    BY <1>1, <2>5, <2>6, RecordsKept, OneRepairs DEF Work
<1>3. CASE ~ (Goto(p, "stage") /\ Readable /\ Intents(r) = {} /\ Finals(r) = {})
  <2>1. \/ \E state : Leave(p, state)
        \/ Goto(p, "recover") /\ Intents(r) # {}
    BY <1>3 DEF Reread
  <2>2. /\ proc'[p].at \in {"done", "recover"}
        /\ proc'[p].at = "recover" => Intents(r) # {}
    BY <1>1, <2>1, Keeps DEF Leave
  <2> QED
    BY <1>1, <2>2, EarlyRepairs DEF Work
<1> QED
  BY <1>2, <1>3

LEMMA StageRepairs ==
  ASSUME IInv, RInv, NEW p \in Proc, Stage(p)
  PROVE  RInv'
<1> DEFINE r == RepairOf[p]
           change == Candidates(asked[r].snapshot, asked[r].to)
<1>1. /\ proc[p].at = "stage" /\ UNCHANGED <<items, asked, journal>> /\ UNCHANGED fresh
      /\ lock = p /\ proc[p].wrote = FALSE /\ r \in Repair /\ Unrecorded(r)
      /\ fresh = {} => Valid(Successor(items, change))
  BY RepairAssumption DEF Stage, IInv, Sound, Inside, RInv, AsStaged
<1>2. CASE staging[r] # None
  <2>1. Leave(p, "error") /\ UNCHANGED staging
    BY <1>2 DEF Stage
  <2>2. proc'[p].at = "done"
    BY <1>1, <2>1, Keeps DEF Leave
  <2> QED
    BY <1>1, <2>1, <2>2, EarlyRepairs DEF Work
<1>3. CASE staging[r] = None
  <2>1. Goto(p, "intent") /\ staging' = [staging EXCEPT ![r] = change]
    BY <1>3 DEF Stage
  <2>2. proc'[p].at = "intent" /\ proc'[p].wrote = FALSE
    BY <1>1, <2>1, Keeps
  <2>3. /\ IsOver(staging, Repair)' /\ staging'[r] = change
        /\ \A q \in Repair : q # r => staging'[q] = staging[q]
    BY <1>1, <2>1 DEF RInv, IsOver
  <2>4. \A q : Intents(q)' = Intents(q) /\ Intent(q)' = Intent(q)
    BY <1>1 DEF Intents, Intent
  <2>5. Recorded'
    BY <1>1, <2>3, <2>4 DEF RInv, Recorded, Unrecorded
  <2>6. AsStaged(p)'
    BY <1>1, <2>2, <2>3 DEF AsStaged
  <2>7. asked' = asked
    BY <1>1
  <2> QED
    BY <1>1, <2>3, <2>4, <2>5, <2>6, <2>7, OneRepairs DEF Work
<1> QED
  BY <1>2, <1>3

\* An append leaves the intents that are recorded what they are.
LEMMA IntentsStand ==
  ASSUME IInv, NEW e, journal' = Append(journal, e), NEW q \in Repair,
         Intents(q) # {}, Intents(q)' = Intents(q)
  PROVE  Intent(q)' = Intent(q)
<1>1. PICK S : journal \in Seq(S)
  BY DEF IInv, Shaped
<1>2. Len(journal) \in Nat /\ \A n \in 1..Len(journal) : journal'[n] = journal[n]
  BY <1>1, Appended
<1>3. PICK n \in 1..Len(journal) : Intents(q) = {n}
  BY DEF IInv, OneIntent, Intents
<1>4. Min({n}) = n
  BY <1>2 DEF Min
<1> QED
  BY <1>2, <1>3, <1>4 DEF Intent

LEMMA AppendIntentRepairs ==
  ASSUME IInv, RInv, NEW p \in Proc, AppendIntent(p)
  PROVE  RInv'
<1> DEFINE r == RepairOf[p]
           e == [type |-> "intent", repair |-> r, expected |-> asked[r].snapshot,
                 candidate |-> staging[r]]
           todo == DOMAIN staging[r]
           b == [proc[p] EXCEPT !.at = "replace"]
           c == [b EXCEPT !.todo = todo]
<1>1. /\ proc[p].at = "intent" /\ journal' = Append(journal, e)
      /\ proc' = [proc EXCEPT ![p] = [proc[p] EXCEPT !.at = "replace", !.todo = DOMAIN staging[r]]]
      /\ UNCHANGED <<items, asked, staging>> /\ UNCHANGED fresh
  BY DEF AppendIntent
<1>2. /\ r \in Repair /\ lock = p /\ Unrecorded(r) /\ asked[r] # None /\ Shaped
      /\ staging[r] = Candidates(asked[r].snapshot, asked[r].to)
      /\ fresh = {} => Valid(Successor(items, staging[r]))
  BY <1>1, RepairAssumption DEF IInv, Sound, Inside, RInv, AsStaged
<1>3. proc'[p] = c
  BY <1>1 DEF IInv, Shaped, IsOver
<1>4. IsCall(proc[p])
  BY <1>1 DEF IInv, Shaped, Idle
<1> HIDE DEF todo
<1>5. IsCall(b) /\ b.at = "replace"
  BY <1>4 DEF IsCall
<1> HIDE DEF b
<1>6. c.at = "replace" /\ c.todo = todo
  BY <1>5 DEF IsCall
<1>7. e.type = "intent" /\ e.repair = r /\ e.candidate = staging[r]
  OBVIOUS
<1> HIDE DEF c, e
<1>8. /\ \A q \in Repair : q # r => Intents(q)' = Intents(q)
      /\ Intents(r)' = Intents(r) \cup {Len(journal) + 1}
  BY <1>1, <1>2, <1>7, IntentAppended
<1>9. Intent(r)' = e
  BY <1>1, <1>2, <1>7, IntentIsTheEntry
<1>10. \A q \in Repair : Intents(q) # {} => Intents(q)' # {} /\ Intent(q)' = Intent(q)
  <2> SUFFICES ASSUME NEW q \in Repair, Intents(q) # {}
               PROVE  Intents(q)' # {} /\ Intent(q)' = Intent(q)
    OBVIOUS
  <2>1. Intents(q)' = Intents(q)
    BY <1>2, <1>8 DEF Unrecorded
  <2> QED
    BY <1>1, <2>1, IntentsStand
<1>11. DOMAIN staging[r] \subseteq Item
  BY <1>2 DEF RInv, Recorded, Candidates
<1>12. Recorded' /\ IsOver(staging, Repair)'
  <2>1. ASSUME NEW q \in Repair, Intents(q)' # {}
        PROVE  staging[q] = Intent(q)'.candidate /\ DOMAIN staging[q] \subseteq Item
    <3>1. CASE q = r
      BY <1>7, <1>9, <1>11, <3>1
    <3>2. CASE q # r
      BY <1>8, <1>10, <2>1, <3>2 DEF RInv, Recorded
    <3> QED
      BY <3>1, <3>2
  <2> QED
    BY <1>1, <2>1 DEF RInv, Recorded, IsOver
<1>13. AsStaged(p)'
  BY <1>1, <1>2, <1>3, <1>6, <1>8 DEF AsStaged, todo
<1>14. asked' = asked
  BY <1>1
<1> QED
  BY <1>2, <1>10, <1>12, <1>13, <1>14, OneRepairs DEF Work

\* What a call does not replace decides what it will leave.
LEMMA SuccessorOfTheRest ==
  ASSUME NEW L, NEW M, NEW C, \A k \in Item : k \notin DOMAIN C => L[k] = M[k]
  PROVE  Successor(L, C) = Successor(M, C)
BY DEF Successor

\* An item is done with: it holds what was staged, or was edited.
LEMMA ItemRepaired ==
  ASSUME IInv, RInv, NEW p \in Proc, Work(p), proc[p].at \in {"replace", "redo"},
         NEW i \in Item, i \in proc[p].todo,
         UNCHANGED <<asked, staging, journal>>, UNCHANGED fresh,
         proc'[p].at = proc[p].at, proc'[p].todo = proc[p].todo \ {i},
         \A k \in Item : k # i => items'[k] = items[k],
         i \in fresh \/ items'[i] = staging[RepairOf[p]][i]
  PROVE  RInv'
<1> DEFINE r == RepairOf[p]
<1>1. AsStaged(p) /\ Recorded /\ r \in Repair /\ lock = p
  BY RepairAssumption DEF RInv, IInv, Sound, Inside
<1>2. /\ Intents(r) # {} /\ Intents(r)' = Intents(r) /\ DOMAIN staging[r] \subseteq Item
      /\ staging'[r] = staging[r]
  BY <1>1, RecordsKept DEF AsStaged, Recorded
<1>3. proc'[p].at = "replace" => /\ proc'[p].todo \subseteq DOMAIN staging[r]
                                 /\ Successor(items', staging[r]) = Successor(items, staging[r])
  <2> SUFFICES ASSUME proc[p].at = "replace"
               PROVE  /\ proc'[p].todo \subseteq DOMAIN staging[r]
                      /\ Successor(items', staging[r]) = Successor(items, staging[r])
    OBVIOUS
  <2>1. proc[p].todo \subseteq DOMAIN staging[r]
    BY <1>1 DEF AsStaged
  <2> QED
    BY <2>1, SuccessorOfTheRest
<1>4. \A k \in DOMAIN staging[r] \ fresh : items'[k] = staging[r][k] \/ k \in proc'[p].todo
  <2> SUFFICES ASSUME NEW k \in DOMAIN staging[r] \ fresh, k \notin proc'[p].todo
               PROVE  items'[k] = staging[r][k]
    OBVIOUS
  <2>1. CASE k = i
    BY <2>1
  <2>2. CASE k # i
    BY <1>1, <1>2, <2>2 DEF AsStaged
  <2> QED
    BY <2>1, <2>2
<1>5. AsStaged(p)'
  BY <1>1, <1>2, <1>3, <1>4 DEF AsStaged
<1>6. asked' = asked
  OBVIOUS
<1> QED
  BY <1>1, <1>5, <1>6, RecordsKept, OneRepairs

LEMMA WriteRepairs ==
  ASSUME IInv, RInv, NEW p \in Proc, Work(p), proc[p].at \in {"replace", "redo"},
         NEW i \in Item, i \in proc[p].todo, Write(p, i),
         UNCHANGED <<asked, staging, journal>>, UNCHANGED fresh
  PROVE  RInv'
<1>1. CASE items[i] = Gone
  <2>1. Leave(p, "error") /\ UNCHANGED items
    BY <1>1 DEF Write
  <2>2. proc'[p].at = "done"
    BY <2>1, Keeps DEF Leave
  <2>3. UNCHANGED <<items, asked, staging, journal>>
    BY <2>1
  <2> QED
    BY <2>2, <2>3, EarlyRepairs
<1>2. CASE items[i] # Gone
  <2> DEFINE less == proc[p].todo \ {i}
             b == [proc[p] EXCEPT !.todo = less]
             d == [b EXCEPT !.wrote = TRUE]
  <2>1. /\ proc'[p] = d
        /\ items' = [items EXCEPT ![i] = staging[RepairOf[p]][i]]
    BY <1>2 DEF Write, Staged, IInv, Shaped, IsOver
  <2>2. IsCall(proc[p])
    BY DEF IInv, Shaped, Idle
  <2> HIDE DEF less
  <2>3. IsCall(b) /\ b.at = proc[p].at /\ b.todo = less
    BY <2>2 DEF IsCall
  <2> HIDE DEF b
  <2>4. d.at = b.at /\ d.todo = b.todo
    BY <2>3, Noted
  <2>5. proc'[p].at = proc[p].at /\ proc'[p].todo = proc[p].todo \ {i}
    BY <2>1, <2>3, <2>4 DEF less
  <2>6. /\ items'[i] = staging[RepairOf[p]][i]
        /\ \A k \in Item : k # i => items'[k] = items[k]
    BY <2>1 DEF IInv, Shaped, IsOver
  <2> QED
    BY <2>5, <2>6, ItemRepaired
<1> QED
  BY <1>1, <1>2

LEMMA ReplaceRepairs ==
  ASSUME IInv, RInv, NEW p \in Proc, NEW i \in Item, Replace(p, i) \/ Redo(p, i)
  PROVE  RInv'
<1> DEFINE r == RepairOf[p]
<1>0. /\ Work(p) /\ i \in proc[p].todo /\ proc[p].at \in {"replace", "redo"}
      /\ UNCHANGED <<asked, staging, journal>> /\ UNCHANGED fresh
  BY DEF Replace, Redo, Work
<1>1. CASE Replace(p, i)
  BY <1>0, <1>1, WriteRepairs DEF Replace
<1>2. CASE Redo(p, i)
  <2>0. /\ proc[p].at = "redo" /\ SeenIsThere(p) /\ AsStaged(p) /\ r \in Repair
    BY <1>2, RepairAssumption DEF Redo, IInv, Sound, RInv
  <2>1. CASE proc[p].seen[i] = Intent(r).candidate[i]
    <3> DEFINE less == proc[p].todo \ {i}
               c == [proc[p] EXCEPT !.todo = less]
    <3>1. proc'[p] = c /\ UNCHANGED items
      BY <1>2, <2>1 DEF Redo, IInv, Shaped, IsOver
    <3>2. IsCall(proc[p])
      BY <2>0 DEF IInv, Shaped, Idle
    <3> HIDE DEF less
    <3>3. c.at = proc[p].at /\ c.todo = less
      BY <3>2 DEF IsCall
    <3>4. proc'[p].at = proc[p].at /\ proc'[p].todo = proc[p].todo \ {i}
      BY <3>1, <3>3 DEF less
    <3>5. staging[r] = Intent(r).candidate
      BY <2>0 DEF RInv, Recorded, AsStaged
    <3>6. i \in fresh \/ items'[i] = staging[r][i]
      BY <1>0, <2>0, <2>1, <3>1, <3>5 DEF SeenIsThere
    <3> QED
      BY <1>0, <3>1, <3>4, <3>6, ItemRepaired
  <2>2. CASE /\ proc[p].seen[i] # Intent(r).candidate[i]
             /\ proc[p].seen[i] = Intent(r).expected[i]
    <3>1. Write(p, i)
      BY <1>2, <2>2 DEF Redo
    <3> QED
      BY <1>0, <3>1, WriteRepairs
  <2>3. CASE /\ proc[p].seen[i] # Intent(r).candidate[i]
             /\ proc[p].seen[i] # Intent(r).expected[i]
    <3>1. Leave(p, "unknown") /\ UNCHANGED items
      BY <1>2, <2>3 DEF Redo
    <3>2. proc'[p].at = "done"
      BY <2>0, <3>1, Keeps DEF Leave
    <3>3. UNCHANGED <<items, asked, staging, journal>>
      BY <1>0, <3>1
    <3> QED
      BY <1>0, <3>2, <3>3, EarlyRepairs
  <2> QED
    BY <2>1, <2>2, <2>3
<1> QED
  BY <1>1, <1>2

\* A call goes on to its final only when it holds what it staged and is valid.
LEMMA ValidateRepairs ==
  ASSUME IInv, RInv, NEW p \in Proc, Validate(p) \/ Revalidate(p)
  PROVE  RInv'
<1> DEFINE r == RepairOf[p]
<1>1. /\ proc[p].at \in {"replace", "redo"} /\ proc[p].todo = {}
      /\ \/ Goto(p, "final") /\ Valid(items)
         \/ Leave(p, "unchanged")
         \/ Leave(p, "unknown")
      /\ UNCHANGED <<items, asked, staging, journal>> /\ UNCHANGED fresh
  BY DEF Validate, Revalidate
<1>2. /\ AsStaged(p) /\ lock = p /\ Work(p)
  BY <1>1 DEF IInv, Sound, Inside, RInv, Work
<1>3. CASE Goto(p, "final") /\ Valid(items)
  <2>1. proc'[p].at = "final"
    BY <1>1, <1>3, Keeps
  <2>2. Intents(r)' = Intents(r)
    BY <1>1, RecordsKept
  <2>3. AsStaged(p)'
    BY <1>1, <1>2, <1>3, <2>1, <2>2 DEF AsStaged
  <2>4. asked' = asked /\ UNCHANGED <<asked, staging, journal>>
    BY <1>1
  <2> QED
    BY <1>2, <2>3, <2>4, RecordsKept, OneRepairs
<1>4. CASE Leave(p, "unchanged") \/ Leave(p, "unknown")
  <2>1. proc'[p].at = "done"
    BY <1>1, <1>4, Keeps DEF Leave
  <2> QED
    BY <1>1, <1>2, <2>1, EarlyRepairs
<1> QED
  BY <1>1, <1>3, <1>4

LEMMA RecoverRepairs ==
  ASSUME IInv, RInv, NEW p \in Proc, Recover(p)
  PROVE  RInv'
<1> DEFINE r == RepairOf[p]
<1>1. /\ proc[p].at = "recover" /\ UNCHANGED <<items, asked, staging, journal>> /\ UNCHANGED fresh
      /\ Work(p)
  BY DEF Recover, Work
<1>2. /\ AsStaged(p) /\ Recorded /\ r \in Repair /\ lock = p /\ IsCall(proc[p])
  BY <1>1, RepairAssumption DEF RInv, IInv, Sound, Inside, Shaped, Idle
<1>3. CASE Staged(r) = None
  <2>1. Leave(p, "unknown")
    BY <1>3 DEF Recover
  <2>2. proc'[p].at = "done"
    BY <1>1, <2>1, Keeps DEF Leave
  <2> QED
    BY <1>1, <2>2, EarlyRepairs
<1>4. CASE Staged(r) # None
  <2> DEFINE todo == DOMAIN Intent(r).candidate
             a == [proc[p] EXCEPT !.at = "redo"]
             b == [a EXCEPT !.seen = items]
             d == [b EXCEPT !.todo = todo]
  <2>1. proc'[p] = d
    BY <1>4 DEF Recover, IInv, Shaped, IsOver
  <2> HIDE DEF todo
  <2>2. IsCall(a) /\ a.at = "redo"
    BY <1>2 DEF IsCall
  <2> HIDE DEF a
  <2>3. IsCall(b) /\ b.at = "redo"
    BY <2>2 DEF IsCall
  <2> HIDE DEF b
  <2>4. proc'[p].at = "redo" /\ proc'[p].todo = todo
    BY <2>1, <2>3 DEF IsCall
  <2>5. /\ Intents(r) # {} /\ Intents(r)' = Intents(r) /\ todo = DOMAIN staging[r]
    BY <1>1, <1>2, RecordsKept DEF AsStaged, Recorded, todo
  <2>6. AsStaged(p)'
    BY <1>1, <2>4, <2>5 DEF AsStaged
  <2>7. asked' = asked /\ UNCHANGED <<asked, staging, journal>>
    BY <1>1
  <2> QED
    BY <1>1, <1>2, <2>6, <2>7, RecordsKept, OneRepairs
<1> QED
  BY <1>3, <1>4

LEMMA AppendFinalRepairs ==
  ASSUME IInv, RInv, NEW p \in Proc, AppendFinal(p)
  PROVE  RInv'
<1> DEFINE e == [type |-> "final", repair |-> RepairOf[p]]
<1>0. CASE ~ Readable
  <2>1. /\ proc[p].at = "final" /\ Leave(p, "error") /\ lock = p
        /\ UNCHANGED <<items, asked, staging, journal>> /\ UNCHANGED fresh
    BY <1>0 DEF AppendFinal, IInv, Sound, Inside
  <2>2. proc'[p].at = "done"
    BY <2>1, Keeps DEF Leave
  <2> QED
    BY <2>1, <2>2, EarlyRepairs DEF Work
<1> SUFFICES ASSUME Readable PROVE RInv'
  BY <1>0
<1>1. /\ proc[p].at = "final" /\ journal' = Append(journal, e) /\ Leave(p, "committed")
      /\ UNCHANGED <<items, asked, staging>> /\ UNCHANGED fresh /\ e.type = "final"
      /\ lock = p /\ Shaped
  BY DEF AppendFinal, IInv, Sound, Inside
<1> HIDE DEF e
<1>2. proc'[p].at = "done"
  BY <1>1, Keeps DEF Leave
<1>3. \A q \in Repair : Intents(q)' = Intents(q)
  BY <1>1, FinalAppended
<1>4. \A q \in Repair : Intents(q) # {} => Intent(q)' = Intent(q)
  BY <1>1, <1>3, IntentsStand
<1>5. Recorded' /\ IsOver(staging, Repair)'
  BY <1>1, <1>3, <1>4 DEF RInv, Recorded, IsOver
<1>6. AsStaged(p)'
  BY <1>2 DEF AsStaged
<1>7. asked' = asked
  BY <1>1
<1> QED
  BY <1>1, <1>3, <1>5, <1>6, <1>7, OneRepairs DEF Work

\* A request names items that are to move.
LEMMA AskRepairs ==
  ASSUME IInv, RInv, NEW r \in Repair, Ask(r)
  PROVE  RInv'
<1>1. PICK to \in Requests(items) : asked' = [asked EXCEPT ![r] = [snapshot |-> items, to |-> to]]
  BY DEF Ask
<1>2. UNCHANGED <<items, staging, journal, proc, fresh>> /\ asked[r] = None
  BY DEF Ask
<1>3. DOMAIN to \subseteq Item
  <2>1. Movable(items) \subseteq Item
    BY DEF Movable, Present
  <2>2. DOMAIN Suggested(items) = Movable(items)
    BY DEF Suggested
  <2>3. DOMAIN to \subseteq Movable(items)
    <3> HIDE DEF Suggested
    <3> QED
      BY <2>2 DEF Requests
  <2> QED
    BY <2>1, <2>3
<1>4. /\ asked'[r].to = to
      /\ \A q \in Repair : q # r => asked'[q] = asked[q]
  BY <1>1 DEF IInv, Shaped, IsOver
<1>5. \A q : Intents(q)' = Intents(q) /\ Intent(q)' = Intent(q)
  BY <1>2 DEF Intents, Intent
<1>6. Recorded' /\ IsOver(staging, Repair)'
  BY <1>2, <1>3, <1>4, <1>5 DEF RInv, Recorded, IsOver
<1>7. ASSUME NEW p \in Proc PROVE AsStaged(p)'
  <2>1. AsStaged(p) /\ Sound(p) /\ RepairOf[p] \in Repair
    BY RepairAssumption DEF RInv, IInv
  <2>2. CASE RepairOf[p] = r
    <3>1. proc[p].at = "idle"
      BY <1>2, <2>1, <2>2 DEF Sound
    <3> QED
      BY <1>2, <3>1 DEF AsStaged
  <2>3. CASE RepairOf[p] # r
    <3>1. asked'[RepairOf[p]] = asked[RepairOf[p]]
      BY <1>4, <2>1, <2>3
    <3> QED
      BY <1>2, <1>5, <2>1, <3>1 DEF AsStaged
  <2> QED
    BY <2>2, <2>3
<1> QED
  BY <1>6, <1>7 DEF RInv

LEMMA EditRepairs ==
  ASSUME IInv, RInv, NEW i \in Item, NEW bytes, Edit(i, bytes)
  PROVE  RInv'
<1>1. /\ items' = [items EXCEPT ![i] = bytes] /\ fresh' = fresh \cup {i}
      /\ UNCHANGED <<asked, staging, journal>> /\ UNCHANGED proc
  BY DEF Edit
<1>2. fresh' # {} /\ \A k \in Item \ fresh' : k \notin fresh /\ items'[k] = items[k]
  BY <1>1 DEF IInv, Shaped, IsOver
<1>3. ASSUME NEW p \in Proc PROVE AsStaged(p)'
  <2>1. AsStaged(p) /\ Recorded /\ RepairOf[p] \in Repair
    BY RepairAssumption DEF RInv
  <2>2. Intents(RepairOf[p])' = Intents(RepairOf[p])
    BY <1>1, RecordsKept
  <2>3. Intents(RepairOf[p]) # {} =>
          \A k \in DOMAIN staging[RepairOf[p]] \ fresh' : k \notin fresh /\ items'[k] = items[k]
    BY <1>2, <2>1 DEF Recorded
  <2> QED
    BY <1>1, <1>2, <2>1, <2>2, <2>3 DEF AsStaged
<1> QED
  BY <1>1, <1>3, RecordsKept DEF RInv

LEMMA NextRepairs == IInv /\ RInv /\ [Next]_vars => RInv'
<1> SUFFICES ASSUME IInv, RInv, [Next]_vars PROVE RInv'
  OBVIOUS
<1>1. CASE UNCHANGED vars
  <2>1. UNCHANGED <<asked, staging, journal>> /\ UNCHANGED <<items, fresh, proc>>
    BY <1>1 DEF vars
  <2>2. \A p \in Proc : AsStaged(p)'
    BY <2>1, RecordsKept DEF RInv, AsStaged
  <2> QED
    BY <2>1, <2>2, RecordsKept DEF RInv
<1>2. ASSUME NEW r \in Repair, Ask(r) PROVE RInv'
  BY <1>2, AskRepairs
<1>3. ASSUME NEW p \in Proc, Work(p) PROVE RInv'
  BY <1>3, BeginRepairs, OutsideRepairs, RereadRepairs, StageRepairs, AppendIntentRepairs,
     ReplaceRepairs, ValidateRepairs, AppendFinalRepairs, RecoverRepairs DEF Work
<1>4. ASSUME NEW p \in Proc, Crash(p) PROVE RInv'
  BY <1>4, OutsideRepairs
<1>5. ASSUME NEW i \in Item, NEW bytes, Edit(i, bytes) PROVE RInv'
  BY <1>5, EditRepairs
<1> QED
  BY <1>1, <1>2, <1>3, <1>4, <1>5 DEF Next

LEMMA RepairInvariance == Spec => [](IInv /\ RInv)
<1>1. Init => RInv
  BY DEF Init, RInv, Recorded, AsStaged, IsOver, Intents, Idle
<1> QED
  BY <1>1, InitSound, NextSound, NextRepairs, PTL DEF Spec

\* A final is appended only when every item of the repair holds its new number and
\* no two items share one, but for what was edited under the lock; also when the
\* repair was taken up after a crash, by whichever call (recoverNumberRepair).
THEOREM FinalsAreTrue == Spec => FinalMeansRepaired
<1> DEFINE Repaired(p) ==
      proc[p].at = "final" /\ proc'[p].at = "done" =>
        /\ \A i \in DOMAIN Intent(RepairOf[p]).candidate \ fresh :
             items[i] = Intent(RepairOf[p]).candidate[i]
        /\ fresh = {} => Valid(items)
<1>1. ASSUME RInv, NEW p \in Proc PROVE Repaired(p)
  <2>1. AsStaged(p) /\ Recorded /\ RepairOf[p] \in Repair
    BY <1>1, RepairAssumption DEF RInv
  <2> QED
    BY <2>1 DEF AsStaged, Recorded
<1>2. RInv /\ [Next]_vars => [\A p \in Proc : Repaired(p)]_vars
  BY <1>1
<1> QED
  BY <1>2, RepairInvariance, PTL DEF Spec, FinalMeansRepaired

\* "unchanged" comes from a call that replaced nothing, unless somebody edited the
\* ledger under its lock: the validation that answers it after the replacements
\* cannot fail otherwise (validatePublishedNumberRepair).
THEOREM UnchangedAnswersAreTrue == Spec => UnchangedIsTrue
<1> DEFINE True(p) ==
      proc[p].at # "done" /\ proc'[p].at = "done" /\ proc'[p].state = "unchanged"
        /\ proc'[p].wrote => fresh # {}
<1>1. ASSUME IInv, RInv, Next, NEW p \in Proc PROVE True(p)
  <2> SUFFICES ASSUME proc[p].at # "done", proc'[p].at = "done", proc'[p].state = "unchanged",
                      proc'[p].wrote
               PROVE  fresh # {}
    OBVIOUS
  <2>1. proc'[p] # proc[p]
    OBVIOUS
  <2>2. Work(p) \/ Crash(p)
    <3>1. ASSUME NEW r \in Repair, Ask(r) PROVE FALSE
      BY <2>1, <3>1 DEF Ask
    <3>2. ASSUME NEW k \in Item, NEW bytes, Edit(k, bytes) PROVE FALSE
      BY <2>1, <3>2 DEF Edit
    <3>3. PICK q \in Proc : Work(q) \/ Crash(q)
      BY <1>1, <3>1, <3>2 DEF Next
    <3>4. q = p
      BY <1>1, <2>1, <3>3, Moves
    <3> QED
      BY <3>3, <3>4
  <2>3. AsStaged(p)
    BY <1>1 DEF RInv
  <2>4. CASE Begin(p)
    <3> DEFINE call == [at |-> "check", todo |-> {}, seen |-> None, wrote |-> FALSE, state |-> None]
               b == [call EXCEPT !.at = "done"]
               d(state) == [b EXCEPT !.state = state]
    <3>1. IsCall(call) /\ call.at = "check" /\ call.wrote = FALSE
      BY DEF IsCall
    <3>2. \/ proc'[p] = call \/ proc'[p] = [call EXCEPT !.at = "recover-lock"]
          \/ \E state : proc'[p] = d(state)
      BY <1>1, <2>4 DEF Begin, IInv, Shaped, IsOver
    <3> HIDE DEF call
    <3>3. [call EXCEPT !.at = "recover-lock"].at = "recover-lock"
      BY <3>1 DEF IsCall
    <3>4. IsCall(b) /\ b.wrote = FALSE
      BY <3>1 DEF IsCall
    <3> HIDE DEF b
    <3>5. \A state : d(state).wrote = FALSE
      BY <3>4 DEF IsCall
    <3> HIDE DEF d
    <3> QED
      BY <3>1, <3>2, <3>3, <3>5
  <2>5. CASE Check(p) \/ Enter(p)
    <3>1. /\ proc[p].at # "idle" /\ proc[p].at \in {"check", "lock", "recover-lock"}
          /\ \/ \E at \in {"lock", "reread", "recover"} : Goto(p, at)
             \/ proc[p].at = "check" /\ Answer(p, "unchanged")
             \/ Answer(p, "lock-held")
      BY <2>5 DEF Check, Enter
    <3>2. proc[p].at = "check" /\ proc'[p].wrote = proc[p].wrote
      BY <1>1, <3>1, Keeps
    <3> QED
      BY <2>3, <3>2 DEF AsStaged
  <2>6. CASE Reread(p) \/ Stage(p)
    <3>1. /\ proc[p].at # "idle" /\ proc[p].at \in {"reread", "stage"}
          /\ \/ \E at \in {"recover", "stage", "intent"} : Goto(p, at)
             \/ \E state : Answer(p, state)
      BY <2>6 DEF Reread, Stage, Leave
    <3>2. proc'[p].wrote = proc[p].wrote
      BY <1>1, <3>1, Keeps
    <3> QED
      BY <2>3, <3>1, <3>2 DEF AsStaged
  <2>7. CASE AppendIntent(p) \/ AppendFinal(p) \/ Recover(p)
    <3>1. CASE AppendIntent(p)
      <4> DEFINE b == [proc[p] EXCEPT !.at = "replace"]
                 d == [b EXCEPT !.todo = DOMAIN staging[RepairOf[p]]]
      <4>1. proc'[p] = d /\ proc[p].at = "intent"
        BY <1>1, <3>1 DEF AppendIntent, IInv, Shaped, IsOver
      <4>2. IsCall(proc[p])
        BY <1>1, <4>1 DEF IInv, Shaped, Idle
      <4>3. IsCall(b) /\ b.at = "replace"
        BY <4>2 DEF IsCall
      <4> HIDE DEF b
      <4>4. d.at = "replace"
        BY <4>3 DEF IsCall
      <4> QED
        BY <4>1, <4>4
    <3>2. CASE AppendFinal(p)
      BY <1>1, <3>2, Keeps DEF AppendFinal, Leave
    <3>3. CASE Recover(p)
      <4>1. CASE Staged(RepairOf[p]) = None
        BY <1>1, <3>3, <4>1, Keeps DEF Recover, Leave
      <4>2. CASE Staged(RepairOf[p]) # None
        <5> DEFINE todo == DOMAIN Intent(RepairOf[p]).candidate
                   a == [proc[p] EXCEPT !.at = "redo"]
                   b == [a EXCEPT !.seen = items]
                   d == [b EXCEPT !.todo = todo]
        <5>1. proc'[p] = d /\ proc[p].at = "recover"
          BY <1>1, <3>3, <4>2 DEF Recover, IInv, Shaped, IsOver
        <5>2. IsCall(proc[p])
          BY <1>1, <5>1 DEF IInv, Shaped, Idle
        <5> HIDE DEF todo
        <5>3. IsCall(a) /\ a.at = "redo"
          BY <5>2 DEF IsCall
        <5> HIDE DEF a
        <5>4. IsCall(b) /\ b.at = "redo"
          BY <5>3 DEF IsCall
        <5> HIDE DEF b
        <5>5. d.at = "redo"
          BY <5>4 DEF IsCall
        <5> QED
          BY <5>1, <5>5
      <4> QED
        BY <4>1, <4>2
    <3> QED
      BY <2>7, <3>1, <3>2, <3>3
  <2>8. ASSUME NEW k \in Item, Replace(p, k) \/ Redo(p, k) PROVE FALSE
    <3>1. IsCall(proc[p]) /\ proc[p].at \in {"replace", "redo"}
      BY <1>1, <2>8 DEF Replace, Redo, IInv, Shaped, Idle
    <3> DEFINE less == proc[p].todo \ {k}
               b == [proc[p] EXCEPT !.todo = less]
               d == [b EXCEPT !.wrote = TRUE]
    <3>2. \/ proc'[p] = b \/ proc'[p] = d
          \/ Answer(p, "error") \/ Answer(p, "unknown")
      <4>1. CASE Write(p, k)
        BY <1>1, <4>1 DEF Write, Leave, IInv, Shaped, IsOver
      <4>2. CASE proc' = [proc EXCEPT ![p].todo = @ \ {k}]
        BY <1>1, <4>2 DEF IInv, Shaped, IsOver
      <4>3. CASE Leave(p, "unknown")
        BY <4>3 DEF Leave
      <4>4. Write(p, k) \/ proc' = [proc EXCEPT ![p].todo = @ \ {k}] \/ Leave(p, "unknown")
        BY <2>8 DEF Replace, Redo
      <4> QED
        BY <4>1, <4>2, <4>3, <4>4
    <3> HIDE DEF less
    <3>3. IsCall(b) /\ b.at = proc[p].at
      BY <3>1 DEF IsCall
    <3> HIDE DEF b
    <3>4. d.at = b.at
      BY <3>3, Noted
    <3> HIDE DEF d
    <3>5. proc'[p] # b /\ proc'[p] # d
      BY <3>1, <3>3, <3>4
    <3>6. ~ Answer(p, "error") /\ ~ Answer(p, "unknown")
      BY <1>1, <3>1, Keeps
    <3> QED
      BY <3>2, <3>5, <3>6
  <2>9. CASE Validate(p)
    <3> SUFFICES ASSUME fresh = {} PROVE FALSE
      OBVIOUS
    <3>1. proc[p].at = "replace" /\ proc[p].todo = {}
      BY <2>9 DEF Validate
    <3>2. \A i \in DOMAIN staging[RepairOf[p]] : items[i] = staging[RepairOf[p]][i]
      BY <2>3, <3>1 DEF AsStaged
    <3>3. Successor(items, staging[RepairOf[p]]) = items
      BY <1>1, <3>2 DEF Successor, IInv, Shaped, IsOver
    <3>4. Valid(items)
      BY <2>3, <3>1, <3>3 DEF AsStaged
    <3>5. Goto(p, "final")
      BY <2>9, <3>2, <3>4 DEF Validate
    <3> QED
      BY <1>1, <3>1, <3>5, Keeps
  <2>10. CASE Revalidate(p)
    <3>1. proc[p].at = "redo" /\ (Goto(p, "final") \/ Answer(p, "unknown"))
      BY <2>10 DEF Revalidate, Leave
    <3> QED
      BY <1>1, <3>1, Keeps
  <2>11. CASE Return(p) \/ Crash(p)
    BY <1>1, <2>11 DEF Return, Crash, Idle, IInv, Shaped, IsOver
  <2> QED
    BY <2>2, <2>4, <2>5, <2>6, <2>7, <2>8, <2>9, <2>10, <2>11 DEF Work
<1>2. IInv /\ RInv /\ [Next]_vars => [\A p \in Proc : True(p)]_vars
  BY <1>1
<1> QED
  BY <1>2, RepairInvariance, PTL DEF Spec, UnchangedIsTrue
=============================================================================
