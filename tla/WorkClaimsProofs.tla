--------------------------- MODULE WorkClaimsProofs ---------------------------
(***************************************************************************)
(* The claim store, from its lock to what clients rely on, for any         *)
(* processes, clients, instants, durations, epochs and any number of       *)
(* deaths.                                                                 *)
(*                                                                         *)
(* First the namespace lock: exclusion, and that only dead owners are      *)
(* evicted, provided no process dies between linking the recovery path and *)
(* unlinking it.  Without that proviso exclusion is false: see the run     *)
(* ClaimLock_recoverer_dies.                                               *)
(*                                                                         *)
(* Then the commands inside it: LeaseService is exclusive and its epochs   *)
(* are fences, and the claim commands over the journal implement it; so    *)
(* what is shown of the service holds of the commands.                     *)
(*                                                                         *)
(* The invariant of the service adds to its two properties that a live     *)
(* tuple a client relies on is the record's, and that no tuple anybody     *)
(* holds is newer than the record.  That of the commands says what one in  *)
(* flight has already settled: its decision time is persisted, its client  *)
(* relies on nothing, and once its entry is appended as granted, nobody    *)
(* else owns the item.                                                     *)
(***************************************************************************)
EXTENDS WorkClaims, ClaimLock, TLAPS

-----------------------------------------------------------------------------
(* The namespace lock.                                                     *)

\* The proviso of the theorems about the lock.
RecoverersSurvive == CrashInRecovery = FALSE

\* The recovery file belongs to exactly the process that is recovering.
RecoveryOwned == \A p \in Proc : recoveryFile = p <=> pc[p] \in RecoverySteps

\* So no recovery file has a dead owner, and nobody removes another's.
RecoverersLive ==
  \A p \in Proc : /\ pc[p] \in RecoverySteps => p \notin dead
                  /\ pc[p] # "removeDeadRecovery"

\* What a recoverer is about to remove is still a dead owner's lock.
EvictionSound == \A p \in Proc : pc[p] = "removeDeadLock" => lockFile \in dead

\* From its link until its own rm, a live process owns the lock file.
LockOwned ==
  \A p \in Proc \ dead :
     pc[p] \in {"inside", "readOwnLock", "removeOwnLock"} => lockFile = p

LockInv == LockTypeOK /\ RecoveryOwned /\ RecoverersLive /\ EvictionSound /\ LockOwned

-----------------------------------------------------------------------------
LEMMA InitLockInv == LockInit => LockInv
  BY ClaimLockAssumption
  DEF LockInit, LockInv, LockTypeOK, RecoveryOwned, RecoverersLive, EvictionSound, LockOwned,
      Steps, RecoverySteps

LEMMA StepLockInv ==
  ASSUME RecoverersSurvive, LockInv, [LockNext]_lockVars
  PROVE  LockInv'
  <1> USE ClaimLockAssumption DEF RecoverersSurvive, LockInv, LockTypeOK, RecoveryOwned,
        RecoverersLive, EvictionSound, LockOwned, Steps, RecoverySteps, Goto
  <1>1. ASSUME NEW p \in Proc, Start(p) PROVE LockInv'
    BY <1>1 DEF Start
  <1>2. ASSUME NEW p \in Proc, ReadRecovery(p) PROVE LockInv'
    BY <1>2 DEF ReadRecovery
  <1>3. ASSUME NEW p \in Proc, RemoveDeadRecovery(p) PROVE LockInv'
    BY <1>3 DEF RemoveDeadRecovery
  <1>4. ASSUME NEW p \in Proc, LinkLock(p) PROVE LockInv'
    BY <1>4 DEF LinkLock
  <1>5. ASSUME NEW p \in Proc, LinkRecovery(p) PROVE LockInv'
    <2>1. LockTypeOK' /\ RecoverersLive'
      BY <1>5 DEF LinkRecovery
    <2>2. RecoveryOwned' /\ LockOwned'
      BY <1>5 DEF LinkRecovery
    <2>3. EvictionSound'
      BY <1>5 DEF LinkRecovery
    <2> QED
      BY <2>1, <2>2, <2>3
  <1>6. ASSUME NEW p \in Proc, ReadLockOwner(p) PROVE LockInv'
    <2>1. LockTypeOK' /\ RecoverersLive'
      BY <1>6 DEF ReadLockOwner
    <2>2. RecoveryOwned' /\ LockOwned'
      BY <1>6 DEF ReadLockOwner
    <2>3. EvictionSound'
      BY <1>6 DEF ReadLockOwner
    <2> QED
      BY <2>1, <2>2, <2>3
  <1>7. ASSUME NEW p \in Proc, RemoveDeadLock(p) PROVE LockInv'
    <2>1. LockTypeOK' /\ RecoverersLive'
      BY <1>7 DEF RemoveDeadLock
    <2>2. RecoveryOwned' /\ LockOwned'
      BY <1>7 DEF RemoveDeadLock
    <2>3. EvictionSound'
      BY <1>7 DEF RemoveDeadLock
    <2> QED
      BY <2>1, <2>2, <2>3
  <1>8. ASSUME NEW p \in Proc, RemoveOwnRecovery(p) PROVE LockInv'
    <2>1. LockTypeOK' /\ RecoverersLive'
      BY <1>8 DEF RemoveOwnRecovery
    <2>2. RecoveryOwned' /\ LockOwned'
      BY <1>8 DEF RemoveOwnRecovery
    <2>3. EvictionSound'
      BY <1>8 DEF RemoveOwnRecovery
    <2> QED
      BY <2>1, <2>2, <2>3
  <1>9. ASSUME NEW p \in Proc, Finish(p) PROVE LockInv'
    BY <1>9 DEF Finish
  <1>10. ASSUME NEW p \in Proc, ReadOwnLock(p) PROVE LockInv'
    BY <1>10 DEF ReadOwnLock
  <1>11. ASSUME NEW p \in Proc, RemoveOwnLock(p) PROVE LockInv'
    BY <1>11 DEF RemoveOwnLock
  <1>12. ASSUME NEW p \in Proc, Die(p) PROVE LockInv'
    BY <1>12 DEF Die
  <1>13. CASE UNCHANGED lockVars
    BY <1>13 DEF lockVars
  <1>14. QED
    BY <1>1, <1>2, <1>3, <1>4, <1>5, <1>6, <1>7, <1>8, <1>9, <1>10, <1>11, <1>12,
       <1>13 DEF LockNext, LockStep

LEMMA LockInvIsInvariant == RecoverersSurvive /\ LockSpec => []LockInv
  <1>1. RecoverersSurvive /\ LockInv /\ [LockNext]_lockVars => LockInv'
    BY StepLockInv
  <1>2. SUFFICES ASSUME RecoverersSurvive PROVE LockSpec => []LockInv
    OBVIOUS
  <1>3. LockInv /\ [LockNext]_lockVars => LockInv'
    BY <1>1, <1>2
  <1>4. QED
    BY <1>3, InitLockInv, PTL DEF LockSpec

-----------------------------------------------------------------------------
\* At most one live process is inside the namespace lock, for every number of
\* processes, as long as no recoverer dies in the middle of its recovery.
THEOREM LockIsExclusive ==
  RecoverersSurvive /\ LockSpec => [](LockTypeOK /\ MutualExclusion /\ HolderKeepsItsFile)
  <1>1. LockInv => LockTypeOK /\ MutualExclusion /\ HolderKeepsItsFile
    BY DEF LockInv, LockOwned, MutualExclusion, HolderKeepsItsFile, Inside
  <1>2. QED
    BY <1>1, LockInvIsInvariant, PTL

\* Only the owner itself, or a recoverer that found the owner dead, clears the
\* lock path.
THEOREM EvictionIsJustified ==
  RecoverersSurvive /\ LockSpec => OnlyDeadOwnersAreEvicted
  <1>1. ASSUME LockInv, [LockNext]_lockVars
        PROVE  [\A p \in Proc : lockFile = p /\ lockFile' # p =>
                  p \in dead \/ pc[p] = "removeOwnLock"]_lockVars
    <2> SUFFICES ASSUME NEW p \in Proc, lockFile = p, lockFile' # p
                 PROVE  p \in dead \/ pc[p] = "removeOwnLock"
      OBVIOUS
    <2>1. CASE \E q \in Proc : RemoveDeadLock(q)
      BY <1>1, <2>1 DEF RemoveDeadLock, Goto, LockInv, EvictionSound
    <2>2. CASE \E q \in Proc : RemoveOwnLock(q)
      BY <1>1, <2>2 DEF RemoveOwnLock, Goto, LockInv, LockOwned
    <2>3. CASE \E q \in Proc : LinkLock(q)
      BY <2>3, ClaimLockAssumption DEF LinkLock
    <2>4. CASE UNCHANGED lockFile
      BY <2>4
    <2>5. QED
      BY <1>1, <2>1, <2>2, <2>3, <2>4
      DEF LockNext, LockStep, Start, ReadRecovery, RemoveDeadRecovery, LinkRecovery,
          ReadLockOwner, RemoveOwnRecovery, Finish, ReadOwnLock, Die, lockVars
  <1>2. QED
    BY <1>1, LockInvIsInvariant, PTL DEF LockSpec, OnlyDeadOwnersAreEvicted

-----------------------------------------------------------------------------
(* The lease service.                                                      *)

\* The record carries the epoch of its own lease; a client only holds its own
\* tuples, none newer than the record; and of the newest epoch, only the owner.
EpochsFollowTheRecord ==
  /\ record.active # NoClaim => record.active.epoch = record.epoch
  /\ \A c \in Client : held[c] # NoClaim =>
       /\ held[c].owner = c
       /\ held[c].epoch <= record.epoch
       /\ record.active # NoClaim /\ held[c].epoch = record.epoch
            => record.active.owner = c

LeaseInv == LeaseTypeOK /\ HolderIsActive /\ EpochsFollowTheRecord /\ EpochsAreFences

LEMMA InitLeaseInv == LeaseInit => LeaseInv
BY LeaseAssumption
   DEF LeaseInit, LeaseInv, LeaseTypeOK, HolderIsActive, EpochsFollowTheRecord, EpochsAreFences, Live

LEMMA StepLeaseInv == LeaseInv /\ [LeaseNext]_leaseVars => LeaseInv'
<1> SUFFICES ASSUME LeaseInv, [LeaseNext]_leaseVars PROVE LeaseInv'
  OBVIOUS
<1> USE LeaseAssumption DEF LeaseInv
<1>1. CASE UNCHANGED leaseVars
  BY <1>1 DEF leaseVars, LeaseTypeOK, HolderIsActive, EpochsFollowTheRecord, EpochsAreFences, Live
<1>2. ASSUME NEW now \in Instant, Observe(now) PROVE LeaseInv'
  BY <1>2 DEF Observe, LeaseTypeOK, HolderIsActive, EpochsFollowTheRecord, EpochsAreFences, Live, Tuple
<1>3. ASSUME NEW c \in Client, NEW now \in Instant, Ask(c, now) PROVE LeaseInv'
  BY <1>3 DEF Ask, LeaseTypeOK, HolderIsActive, EpochsFollowTheRecord, EpochsAreFences, Live, Tuple
<1>4. ASSUME NEW c \in Client, NEW dur \in Duration, Grant(c, dur) PROVE LeaseInv'
  BY <1>4 DEF Grant, LeaseTypeOK, HolderIsActive, EpochsFollowTheRecord, EpochsAreFences, Live, Tuple
<1>5. ASSUME NEW c \in Client, NEW dur \in Duration, Extend(c, dur) PROVE LeaseInv'
  BY <1>5 DEF Extend, LeaseTypeOK, HolderIsActive, EpochsFollowTheRecord, EpochsAreFences, Live, Tuple
<1>6. ASSUME NEW c \in Client, Relinquish(c) PROVE LeaseInv'
  BY <1>6 DEF Relinquish, LeaseTypeOK, HolderIsActive, EpochsFollowTheRecord, EpochsAreFences, Live, Tuple
<1>7. ASSUME NEW c \in Client, Learn(c) PROVE LeaseInv'
  BY <1>7 DEF Learn, LeaseTypeOK, HolderIsActive, EpochsFollowTheRecord, EpochsAreFences, Live, Tuple
<1>8. QED
  BY <1>1, <1>2, <1>3, <1>4, <1>5, <1>6, <1>7 DEF LeaseNext

LEMMA LeaseInvIsInvariant == LeaseSpec => []LeaseInv
BY InitLeaseInv, StepLeaseInv, PTL DEF LeaseSpec

\* Two clients that rely on live leases are one: each of them is the owner.
LEMMA LiveHoldersAreOne == HolderIsActive => LeaseIsExclusive
<1> SUFFICES ASSUME HolderIsActive, NEW c \in Client, NEW d \in Client,
                    Live(held[c]), Live(held[d])
             PROVE  c = d
  BY DEF LeaseIsExclusive
<1>1. held[c].owner = c /\ held[d].owner = d
  BY DEF HolderIsActive
<1>2. held[c] = held[d]
  BY DEF HolderIsActive
<1>3. QED
  BY <1>1, <1>2

\* The service keeps every value in its type: in particular a client never holds
\* anything that is not a tuple (claimAcquire, claimRenew, claimRelease).
THEOREM TypesAreKept == LeaseSpec => []LeaseTypeOK
<1>1. LeaseInv => LeaseTypeOK
  BY DEF LeaseInv
<1>2. QED
  BY <1>1, LeaseInvIsInvariant, PTL

\* A live lease a client relies on is the active record, whatever other clients
\* asked in between: the check `observedAt < active.expires_at` of claimAcquire.
THEOREM HoldersAreActive == LeaseSpec => []HolderIsActive
<1>1. LeaseInv => HolderIsActive
  BY DEF LeaseInv
<1>2. QED
  BY <1>1, LeaseInvIsInvariant, PTL

\* No two clients ever rely on live leases of the item at the same time.
THEOREM LeasesAreExclusive == LeaseSpec => []LeaseIsExclusive
<1>1. LeaseInv => LeaseIsExclusive
  BY LiveHoldersAreOne DEF LeaseInv
<1>2. QED
  BY <1>1, LeaseInvIsInvariant, PTL

\* Two clients never hold tuples of one epoch, live or expired: a takeover always
\* takes `last_epoch + 1`, and a release keeps `last_epoch`.
THEOREM EpochsFence == LeaseSpec => []EpochsAreFences
<1>1. LeaseInv => EpochsAreFences
  BY DEF LeaseInv
<1>2. QED
  BY <1>1, LeaseInvIsInvariant, PTL

\* Time and the epoch high-water mark only grow: advanceClockFloor takes the
\* larger of the floor and the wall clock, and no command lowers last_epoch.
THEOREM NothingGoesBack == LeaseSpec => NeverGoesBack
<1>1. LeaseInv /\ [LeaseNext]_leaseVars
        => [floor <= floor' /\ record.epoch <= record'.epoch]_leaseVars
  <2> SUFFICES ASSUME LeaseInv, LeaseNext
               PROVE  floor <= floor' /\ record.epoch <= record'.epoch
    OBVIOUS
  <2>1. floor \in Nat /\ record.epoch \in Nat
    BY DEF LeaseInv, LeaseTypeOK
  <2>2. ASSUME NEW now \in Instant, Observe(now) PROVE floor <= floor' /\ record' = record
    BY <2>1, <2>2, LeaseAssumption DEF Observe
  <2>3. ASSUME NEW c \in Client, NEW now \in Instant, Ask(c, now)
        PROVE floor <= floor' /\ record' = record
    BY <2>1, <2>3, LeaseAssumption DEF Ask
  <2>4. ASSUME NEW c \in Client, NEW dur \in Duration, Grant(c, dur)
        PROVE floor' = floor /\ record'.epoch = record.epoch + 1
    BY <2>4 DEF Grant
  <2>5. ASSUME NEW c \in Client, NEW dur \in Duration, Extend(c, dur)
        PROVE floor' = floor /\ record'.epoch = record.epoch
    BY <2>5 DEF Extend, LeaseInv, LeaseTypeOK
  <2>6. ASSUME NEW c \in Client, Relinquish(c)
        PROVE floor' = floor /\ record'.epoch = record.epoch
    BY <2>6 DEF Relinquish, LeaseInv, LeaseTypeOK
  <2>7. ASSUME NEW c \in Client, Learn(c) PROVE UNCHANGED <<floor, record>>
    BY <2>7 DEF Learn
  <2>8. QED
    BY <2>1, <2>2, <2>3, <2>4, <2>5, <2>6, <2>7 DEF LeaseNext
<1>2. QED
  BY <1>1, LeaseInvIsInvariant, PTL DEF LeaseSpec, NeverGoesBack

-----------------------------------------------------------------------------
(* The claim commands.                                                     *)

LeaseRecord == [epoch : Nat, active : Tuple \cup {NoClaim}]

RequestRecord ==
  [cmd : {"acquire", "renew", "release"}, owner : Client, dur : Nat,
   expected : LeaseRecord \cup Tuple \cup {NoClaim}]

Verdicts ==
  {"none", "granted", "claim-conflict", "claim-held", "claim-expired", "epoch-exhausted"}

OpRecord ==
  [client : Client, req : RequestRecord, physicalNow : Instant,
   phase : {"reconciled", "appended"}, verdict : Verdicts]

ClaimTypes ==
  /\ LeaseTypeOK
  /\ clock \in Instant
  /\ seen \in [Client -> LeaseRecord]
  /\ op \in OpRecord \cup {NoOp}

RequestIsOwn ==
  op # NoOp =>
    /\ op.req.owner = op.client
    /\ op.req.cmd # "release" => op.req.dur \in Duration
    /\ op.req.cmd # "acquire" => /\ op.req.expected # NoClaim
                                 /\ op.req.expected.owner = op.client

CommandIsSettled ==
  op # NoOp =>
    /\ op.physicalNow <= floor
    /\ held[op.client] = NoClaim
    /\ op.phase = "appended" /\ op.verdict = "granted" /\ record.active # NoClaim
         => record.active.owner = op.client

ClaimInv == ClaimTypes /\ RequestIsOwn /\ CommandIsSettled

LEMMA InitClaimInv == Init => ClaimInv
BY LeaseAssumption
   DEF Init, LeaseInit, ClaimInv, ClaimTypes, RequestIsOwn, CommandIsSettled,
       LeaseTypeOK, EmptyRecord, LeaseRecord

\* A clock entry moves the floor up to the wall clock and touches nothing else.
LEMMA ClockWrite ==
  ASSUME ClaimTypes, Write(ClockEntry)
  PROVE  /\ floor' = IF clock > floor THEN clock ELSE floor
         /\ record' = record
<1>1. floor \in Nat /\ clock \in Nat
  BY LeaseAssumption DEF ClaimTypes, LeaseTypeOK
<1>2. ApplyEntry(Store, ClockEntry)
        = [floor |-> AdvanceFloor(floor, AdvanceFloor(floor, clock)), record |-> record]
  BY DEF ApplyEntry, ClockEntry, Store
<1>3. QED
  BY <1>1, <1>2 DEF Write, AdvanceFloor

Granted == ClaimVerdict(record, op.req, floor) = "granted"

\* The decision time was persisted by the reconciliation before, so the claim
\* entry decides at the floor and leaves it where it is.
LEMMA ClaimWrite ==
  ASSUME ClaimTypes, CommandIsSettled, op # NoOp,
         Write([type |-> "claim", physicalNow |-> op.physicalNow, req |-> op.req])
  PROVE  /\ AdvanceFloor(floor, op.physicalNow) = floor
         /\ floor' = floor
         /\ record' = IF Granted THEN GrantedRecord(record, op.req, floor) ELSE record
<1> DEFINE e == [type |-> "claim", physicalNow |-> op.physicalNow, req |-> op.req]
<1>1. floor \in Nat /\ op.physicalNow \in Nat /\ op.physicalNow <= floor
  BY LeaseAssumption DEF ClaimTypes, LeaseTypeOK, CommandIsSettled, OpRecord
<1>2. AdvanceFloor(floor, op.physicalNow) = floor
  BY <1>1 DEF AdvanceFloor
<1>3. ApplyEntry(Store, e) = ApplyClaim(Store, op.req, op.physicalNow)
  BY DEF ApplyEntry
<1>4. ApplyClaim(Store, op.req, op.physicalNow)
        = [floor |-> floor,
           record |-> IF Granted THEN GrantedRecord(record, op.req, floor) ELSE record]
  BY <1>2 DEF ApplyClaim, Store, Granted
<1>5. QED
  BY <1>2, <1>3, <1>4 DEF Write

\* What a granted request does is one step of the lease service.
LEMMA GrantedStep ==
  ASSUME ClaimInv, op # NoOp, Granted, floor' = floor, UNCHANGED held,
         record' = GrantedRecord(record, op.req, floor)
  PROVE  /\ LeaseNext
         /\ record' \in LeaseRecord
         /\ record'.active # NoClaim => record'.active.owner = op.client
<1> DEFINE c == op.client  dur == op.req.dur
<1>0. /\ c \in Client /\ op.req.owner = c /\ held[c] = NoClaim
      /\ record \in LeaseRecord /\ floor \in Nat /\ dur \in Nat
      /\ op.req.cmd \in {"acquire", "renew", "release"}
  BY DEF ClaimInv, ClaimTypes, LeaseTypeOK, OpRecord, RequestRecord, RequestIsOwn,
         CommandIsSettled, LeaseRecord
<1>1. CASE op.req.cmd = "acquire"
  <2>1. dur \in Duration
    BY <1>1 DEF ClaimInv, RequestIsOwn
  <2>2. ~ Live(record.active) /\ record.epoch < MaxEpoch
    BY <1>0, <1>1, LeaseAssumption
       DEF Granted, ClaimVerdict, AcquireVerdict, Unexpired, Live, LeaseRecord
  <2>3. record' = [epoch |-> record.epoch + 1,
                   active |-> [owner |-> c, epoch |-> record.epoch + 1,
                               expires |-> floor + dur]]
    BY <1>0, <1>1 DEF GrantedRecord
  <2>4. Grant(c, dur)
    BY <2>2, <2>3 DEF Grant
  <2>5. record' \in LeaseRecord
    BY <1>0, <2>3 DEF LeaseRecord, Tuple
  <2>6. QED
    BY <1>0, <2>1, <2>3, <2>4, <2>5 DEF LeaseNext
<1>2. CASE op.req.cmd # "acquire"
  <2>1. record.active # NoClaim /\ record.active = op.req.expected /\ floor < record.active.expires
    <3>1. TupleVerdict(record, op.req, floor) = "granted"
      BY <1>2 DEF Granted, ClaimVerdict
    <3>2. record.active # NoClaim /\ record.active = op.req.expected
          /\ ~ (floor >= record.active.expires)
      BY <3>1 DEF TupleVerdict
    <3>3. record.active.expires \in Nat
      BY <1>0, <3>2 DEF LeaseRecord, Tuple
    <3>4. QED
      BY <1>0, <3>2, <3>3
  <2>2. Live(record.active) /\ record.active.owner = c /\ record.active \in Tuple
    BY <1>0, <1>2, <2>1 DEF ClaimInv, RequestIsOwn, Live, LeaseRecord
  <2>3. CASE op.req.cmd = "renew"
    <3>1. dur \in Duration
      BY <2>3 DEF ClaimInv, RequestIsOwn
    <3>2. record' = [record EXCEPT !.active.expires = floor + dur]
      BY <2>3 DEF GrantedRecord
    <3>3. record' = [record EXCEPT !.active = [@ EXCEPT !.expires = floor + dur]]
      BY <3>2
    <3>4. Extend(c, dur)
      BY <1>0, <2>2, <3>3 DEF Extend
    <3>5. record' \in LeaseRecord /\ record'.active.owner = c
      BY <1>0, <2>2, <3>3 DEF LeaseRecord, Tuple
    <3>6. QED
      BY <1>0, <3>1, <3>4, <3>5 DEF LeaseNext
  <2>4. CASE op.req.cmd = "release"
    <3>1. record' = [record EXCEPT !.active = NoClaim]
      BY <2>4 DEF GrantedRecord
    <3>2. Relinquish(c)
      BY <1>0, <2>2, <3>1 DEF Relinquish
    <3>3. record' \in LeaseRecord /\ record'.active = NoClaim
      BY <1>0, <3>1 DEF LeaseRecord
    <3>4. QED
      BY <1>0, <3>2, <3>3 DEF LeaseNext
  <2>5. QED
    BY <1>0, <1>2, <2>3, <2>4
<1>3. QED
  BY <1>1, <1>2

\* Every step keeps the invariant and is a step of the lease service, or none.
LEMMA StepClaimInv ==
  ASSUME ClaimInv, [Next]_vars
  PROVE  ClaimInv' /\ [LeaseNext]_leaseVars
<1> USE LeaseAssumption, WorkClaimsAssumption DEF ClaimInv
<1>1. CASE UNCHANGED vars
  BY <1>1 DEF vars, leaseVars, ClaimTypes, LeaseTypeOK, RequestIsOwn, CommandIsSettled
<1>2. ASSUME NEW c \in Client, NEW dur \in Duration,
             NEW cmd \in {"acquire", "renew", "release"}, Begin(c, cmd, dur)
      PROVE  ClaimInv' /\ [LeaseNext]_leaseVars
  <2>1. /\ floor' = IF clock > floor THEN clock ELSE floor
        /\ record' = record
    BY <1>2, ClockWrite DEF Begin
  <2>2. /\ floor \in Nat /\ clock \in Nat /\ clock \in Instant
        /\ held' = [held EXCEPT ![c] = NoClaim]
    BY <1>2 DEF Begin, ClaimTypes, LeaseTypeOK
  <2>3. Ask(c, clock)
    BY <2>1, <2>2 DEF Ask
  <2>4. Request(c, cmd, dur) \in RequestRecord
    <3>1. seen[c] \in LeaseRecord /\ seen[c].active \in Tuple \cup {NoClaim}
      BY DEF ClaimTypes, LeaseRecord
    <3>2. QED
      BY <3>1 DEF Request, RequestRecord
  <2>5. op' = [client |-> c, req |-> Request(c, cmd, dur), physicalNow |-> clock,
               phase |-> "reconciled", verdict |-> "none"]
    BY <1>2 DEF Begin
  <2>6. ClaimTypes'
    <3>1. op' \in OpRecord
      BY <2>2, <2>4, <2>5 DEF OpRecord, Verdicts
    <3>2. LeaseTypeOK'
      BY <2>1, <2>2 DEF ClaimTypes, LeaseTypeOK
    <3>3. QED
      BY <1>2, <3>1, <3>2 DEF ClaimTypes, Begin
  <2>7. RequestIsOwn'
    BY <1>2, <2>5 DEF RequestIsOwn, Request, Begin
  <2>8. CommandIsSettled'
    BY <2>1, <2>2, <2>5 DEF CommandIsSettled, ClaimTypes, LeaseTypeOK
  <2>9. QED
    BY <2>2, <2>3, <2>6, <2>7, <2>8 DEF LeaseNext
<1>3. CASE Barred
  BY <1>3 DEF Barred, leaseVars, ClaimTypes, LeaseTypeOK, RequestIsOwn, CommandIsSettled
<1>4. CASE Decide
  <2>1. /\ op # NoOp /\ op \in OpRecord
        /\ Write([type |-> "claim", physicalNow |-> op.physicalNow, req |-> op.req])
        /\ UNCHANGED <<held, clock, seen>>
    BY <1>4 DEF Decide, ClaimTypes
  <2>2. /\ AdvanceFloor(floor, op.physicalNow) = floor
        /\ floor' = floor
        /\ record' = IF Granted THEN GrantedRecord(record, op.req, floor) ELSE record
    BY <2>1, ClaimWrite
  <2>3. op' = [op EXCEPT !.phase = "appended", !.verdict = ClaimVerdict(record, op.req, floor)]
    BY <1>4, <2>2 DEF Decide
  <2>4. ClaimVerdict(record, op.req, floor) \in Verdicts
    BY DEF Verdicts, ClaimVerdict, AcquireVerdict, TupleVerdict
  <2>5. op' \in OpRecord
    BY <2>1, <2>3, <2>4 DEF OpRecord
  <2>6. record' \in LeaseRecord /\ [LeaseNext]_leaseVars
        /\ (Granted /\ record'.active # NoClaim => record'.active.owner = op.client)
    <3>1. CASE Granted
      BY <2>1, <2>2, <3>1, GrantedStep
    <3>2. CASE ~ Granted
      BY <2>1, <2>2, <3>2 DEF leaseVars, ClaimTypes, LeaseTypeOK, LeaseRecord
    <3>3. QED
      BY <3>1, <3>2
  <2>7. ClaimTypes'
    BY <2>1, <2>2, <2>5, <2>6 DEF ClaimTypes, LeaseTypeOK, LeaseRecord
  <2>8. op'.client = op.client /\ op'.req = op.req /\ op'.physicalNow = op.physicalNow
        /\ op'.verdict = ClaimVerdict(record, op.req, floor)
    BY <2>1, <2>3 DEF OpRecord
  <2>9. RequestIsOwn'
    BY <2>1, <2>8 DEF RequestIsOwn
  <2>10. CommandIsSettled'
    BY <2>1, <2>2, <2>6, <2>8 DEF CommandIsSettled, Granted
  <2>11. QED
    BY <2>6, <2>7, <2>9, <2>10
<1>5. CASE Answer
  <2>1. /\ op # NoOp /\ op \in OpRecord /\ op' = NoOp /\ op.phase = "appended"
        /\ op.client \in Client
        /\ UNCHANGED <<floor, record, clock>>
        /\ record \in LeaseRecord
    BY <1>5 DEF Answer, ClaimTypes, LeaseTypeOK, LeaseRecord, OpRecord
  <2>2. ClaimTypes'
    BY <1>5, <2>1 DEF Answer, ClaimTypes, LeaseTypeOK, LeaseRecord
  <2>3. RequestIsOwn' /\ CommandIsSettled'
    BY <2>1 DEF RequestIsOwn, CommandIsSettled
  <2>4. CASE op.verdict = "granted"
    <3>1. held' = [held EXCEPT ![op.client] =
                     IF record.active # NoClaim /\ record.active.owner = op.client
                     THEN record.active ELSE NoClaim]
      BY <1>5, <2>1, <2>4 DEF Answer, CommandIsSettled
    <3>2. Learn(op.client)
      BY <2>1, <3>1 DEF Learn
    <3>3. QED
      BY <2>1, <2>2, <2>3, <3>2 DEF LeaseNext
  <2>5. CASE op.verdict # "granted"
    <3>1. held[op.client] = NoClaim
      BY <2>1 DEF CommandIsSettled
    <3>2. held' = held
      BY <1>5, <2>1, <2>5, <3>1 DEF Answer, ClaimTypes, LeaseTypeOK
    <3>3. QED
      BY <2>1, <2>2, <2>3, <3>2 DEF leaseVars
  <2>6. QED
    BY <2>4, <2>5
<1>6. CASE Crash
  BY <1>6 DEF Crash, leaseVars, ClaimTypes, LeaseTypeOK, RequestIsOwn, CommandIsSettled
<1>7. CASE ClaimVerify
  <2>1. /\ floor' = IF clock > floor THEN clock ELSE floor
        /\ record' = record
        /\ UNCHANGED <<held, clock, seen, op>>
    BY <1>7, ClockWrite DEF ClaimVerify
  <2>2. floor \in Nat /\ clock \in Nat /\ clock \in Instant /\ op = NoOp
    BY <1>7 DEF ClaimVerify, ClaimTypes, LeaseTypeOK
  <2>3. Observe(clock)
    BY <2>1 DEF Observe
  <2>4. ClaimInv'
    BY <2>1, <2>2 DEF ClaimTypes, LeaseTypeOK, RequestIsOwn, CommandIsSettled
  <2>5. QED
    BY <2>2, <2>3, <2>4 DEF LeaseNext
<1>8. ASSUME NEW c \in Client, Read(c)
      PROVE  ClaimInv' /\ [LeaseNext]_leaseVars
  <2>1. Learn(c) /\ UNCHANGED <<floor, record, clock, op>>
    BY <1>8 DEF Read, Learn
  <2>2. op # NoOp => op.client # c
    BY <1>8 DEF Read, Busy
  <2>3. ClaimTypes'
    BY <1>8 DEF Read, ClaimTypes, LeaseTypeOK, LeaseRecord
  <2>4. op # NoOp => held'[op.client] = held[op.client]
    <3>1. op # NoOp => op.client \in Client
      BY DEF ClaimTypes, OpRecord
    <3>2. QED
      BY <1>8, <2>2, <3>1 DEF Read, ClaimTypes, LeaseTypeOK
  <2>5. RequestIsOwn' /\ CommandIsSettled'
    BY <2>1, <2>4 DEF RequestIsOwn, CommandIsSettled
  <2>6. QED
    BY <2>1, <2>3, <2>5 DEF LeaseNext
<1>9. ASSUME NEW now \in Instant, SetClock(now)
      PROVE  ClaimInv' /\ [LeaseNext]_leaseVars
  BY <1>9 DEF SetClock, leaseVars, ClaimTypes, LeaseTypeOK, RequestIsOwn, CommandIsSettled
<1>10. QED
  BY <1>1, <1>2, <1>3, <1>4, <1>5, <1>6, <1>7, <1>8, <1>9 DEF Next

LEMMA ClaimInvIsInvariant == Spec => []ClaimInv
<1>1. ClaimInv /\ [Next]_vars => ClaimInv'
  BY StepClaimInv
<1>2. QED
  BY <1>1, InitClaimInv, PTL DEF Spec

\* The claim commands implement the lease service: `runClaimCommand` over the
\* journal, with crashes, stale witnesses and a wall clock that steps back, does
\* nothing an atomic service would not do.
THEOREM ClaimsImplementLease == Spec => ImplementsLease
<1>1. Init => LeaseInit
  BY DEF Init
<1>2. ClaimInv /\ [Next]_vars => [LeaseNext]_leaseVars
  BY StepClaimInv
<1>3. QED
  BY <1>1, <1>2, ClaimInvIsInvariant, PTL DEF Spec, ImplementsLease, LeaseSpec

\* So an agent that relies on a live lease, shown to it by claim-acquire,
\* claim-renew or claim-read, is the owner in the journal, with that very tuple.
THEOREM ClaimHoldersAreActive == Spec => []HolderIsActive
BY ClaimsImplementLease, HoldersAreActive, PTL DEF ImplementsLease

\* No two agents rely on live leases of one item at the same time.
THEOREM ClaimsAreExclusive == Spec => []LeaseIsExclusive
BY ClaimsImplementLease, LeasesAreExclusive, PTL DEF ImplementsLease

\* No two agents rely on tuples of one epoch, live or expired.
THEOREM ClaimEpochsFence == Spec => []EpochsAreFences
BY ClaimsImplementLease, EpochsFence, PTL DEF ImplementsLease

\* The journal's clock floor and `last_epoch` never go back.
THEOREM ClaimsNeverGoBack == Spec => NeverGoesBack
BY ClaimsImplementLease, NothingGoesBack, PTL DEF ImplementsLease
=============================================================================
