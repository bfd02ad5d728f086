----------------------------- MODULE WorkClaims -----------------------------
(***************************************************************************)
(* The claim commands of cli.js (claim-acquire, claim-renew, claim-release,*)
(* claim-read) and claim-verify, over the claim journal, for one item.     *)
(*                                                                         *)
(* Commands that write exclude each other through the namespace lock       *)
(* (module ClaimLock), so at most one is in flight.  It appends a clock    *)
(* entry, decides, appends its claim entry, answers; it may die between    *)
(* any two of these.  A read takes no lock.  The wall clock may step back. *)
(*                                                                         *)
(* The code keeps no state but the journal: every command replays it.  The *)
(* variables `floor` and `record` of LeaseService hold here what the       *)
(* journal replays to.                                                     *)
(***************************************************************************)
EXTENDS LeaseService, FiniteSets

CONSTANTS
  NoOp,         \* no command is inside the namespace lock
  MaxEntries,   \* bound: journal entries
  MaxCrashes    \* bound: commands that die

ASSUME WorkClaimsAssumption ==
  /\ Instant # {}
  /\ 0 \notin Duration
  /\ MaxEntries \in Nat /\ MaxCrashes \in Nat

VARIABLES
  journal,   \* the claim journal
  clock,     \* the wall clock
  seen,      \* seen[c]: the record client c last observed
  op,        \* the command inside the lock
  crashes

vars == <<floor, record, held, journal, clock, seen, op, crashes>>

Store == [floor |-> floor, record |-> record]

Init ==
  /\ LeaseInit
  /\ journal = <<>>
  /\ clock \in Instant
  /\ seen = [c \in Client |-> EmptyRecord]
  /\ op = NoOp
  /\ crashes = 0

Busy(c) == op # NoOp /\ op.client = c

\* One durable append; whoever replays the journal from now on sees it.
Write(e) ==
  /\ journal' = Append(journal, e)
  /\ floor' = ApplyEntry(Store, e).floor
  /\ record' = ApplyEntry(Store, e).record

ClockEntry == [type |-> "clock", floor |-> AdvanceFloor(floor, clock)]

-----------------------------------------------------------------------------

\* A client asks with the witness it last observed, however stale by now.
Request(c, cmd, dur) ==
  [cmd |-> cmd, owner |-> c, dur |-> IF cmd = "release" THEN 0 ELSE dur,
   expected |-> IF cmd = "acquire" THEN seen[c] ELSE seen[c].active]

\* Reconciliation under the lock persists the clock floor before it classifies.
Begin(c, cmd, dur) ==
  /\ op = NoOp
  /\ Len(journal) + 2 <= MaxEntries
  /\ cmd # "acquire" => seen[c].active # NoClaim /\ seen[c].active.owner = c
  /\ Write(ClockEntry)
  /\ op' = [client |-> c, req |-> Request(c, cmd, dur), physicalNow |-> clock,
            phase |-> "reconciled", verdict |-> "none"]
  /\ held' = [held EXCEPT ![c] = NoClaim]
  /\ UNCHANGED <<clock, seen, crashes>>

\* A barrier refuses to grant or extend authority, never to give it up.
\* (Which barriers there are is the business of module LedgerFence.)
Barred ==
  /\ op # NoOp
  /\ op.phase = "reconciled"
  /\ op.req.cmd # "release"
  /\ op' = NoOp
  /\ UNCHANGED <<floor, record, held, journal, clock, seen, crashes>>

\* The decision, and its claim entry: granted or refused, it is appended.
Decide ==
  /\ op # NoOp
  /\ op.phase = "reconciled"
  /\ op' = [op EXCEPT !.phase = "appended",
                      !.verdict = ClaimVerdict(record, op.req,
                                               AdvanceFloor(floor, op.physicalNow))]
  /\ Write([type |-> "claim", physicalNow |-> op.physicalNow, req |-> op.req])
  /\ UNCHANGED <<held, clock, seen, crashes>>

\* The answer carries the record as read back, and leaves the lock.
Answer ==
  /\ op # NoOp
  /\ op.phase = "appended"
  /\ seen' = [seen EXCEPT ![op.client] = record]
  /\ held' = [held EXCEPT ![op.client] =
                IF op.verdict = "granted" THEN record.active ELSE NoClaim]
  /\ op' = NoOp
  /\ UNCHANGED <<floor, record, journal, clock, crashes>>

\* The process dies: the client never learns what became of its request.
Crash ==
  /\ op # NoOp
  /\ crashes < MaxCrashes
  /\ crashes' = crashes + 1
  /\ op' = NoOp
  /\ UNCHANGED <<floor, record, held, journal, clock, seen>>

\* claim-read takes no lock and writes nothing, in the middle of anything.
Read(c) ==
  /\ ~ Busy(c)
  /\ seen' = [seen EXCEPT ![c] = record]
  /\ held' = [held EXCEPT ![c] = IF record.active # NoClaim /\ record.active.owner = c
                                 THEN record.active ELSE NoClaim]
  /\ UNCHANGED <<floor, record, journal, clock, op, crashes>>

\* Any other command of the namespace reconciles: it advances the floor.
ClaimVerify ==
  /\ op = NoOp
  /\ Len(journal) < MaxEntries
  /\ Write(ClockEntry)
  /\ UNCHANGED <<held, clock, seen, op, crashes>>

SetClock(now) ==
  /\ now # clock
  /\ clock' = now
  /\ UNCHANGED <<floor, record, held, journal, seen, op, crashes>>

Next ==
  \/ \E c \in Client, dur \in Duration, cmd \in {"acquire", "renew", "release"} :
       Begin(c, cmd, dur)
  \/ Barred \/ Decide \/ Answer \/ Crash \/ ClaimVerify
  \/ \E c \in Client : Read(c)
  \/ \E now \in Instant : SetClock(now)

Spec == Init /\ [][Next]_vars

-----------------------------------------------------------------------------
(* Properties.                                                             *)

Tuples == [owner : Client, epoch : 1..MaxEpoch, expires : Nat]
\* The journal-backed commands implement the atomic lease service, at every
\* step of every command, across crashes, stale witnesses and clock steps.
ImplementsLease == LeaseSpec

\* No claim was decided while the wall clock lagged the floor.
ClockKeptUp ==
  \A k \in 1..Len(journal) :
    journal[k].type = "claim"
      => Replay(SubSeq(journal, 1, k - 1)).floor <= journal[k].physicalNow

\* A fresh clone that rebuilds its journal from the committed log sees the same
\* claim as the repository it was cloned from, as long as no claim was decided
\* while the wall clock lagged: hydration makes committed claim history visible
\* "without inventing new authority" (work-claim-contract.md:146-152).
HydrationAgrees ==
  ClockKeptUp => Replay(Hydrated(journal)).record = record

=============================================================================
