--------------------------- MODULE ClaimOperations ---------------------------
(***************************************************************************)
(* claim-operations.js: what one claim command does to the record of one   *)
(* item and to the clock floor, and claim-journal.js: how the records are  *)
(* rebuilt from the journal, and from the committed log in a fresh clone.  *)
(* Pure operators; no state.                                               *)
(*                                                                         *)
(* A store is [floor, record]: the clock floor of the namespace and the    *)
(* claim record of the item.  A record is [epoch, active]; `active` is the *)
(* tuple [owner, epoch, expires] of the current lease or NoClaim.  (The    *)
(* tuple's `issued_at` is left out: its epoch determines it.)              *)
(*                                                                         *)
(* A request is [cmd, owner, expected, dur]: `expected` is the whole       *)
(* record the caller observed for an acquire, and the tuple it observed    *)
(* for a renew or a release.                                               *)
(***************************************************************************)
EXTENDS Naturals, Sequences, SequencesExt

CONSTANTS
  NoClaim,   \* `active: null`
  MaxEpoch   \* MAX_EPOCH, the largest unsigned 64-bit integer in the code

EmptyRecord == [epoch |-> 0, active |-> NoClaim]

\* Instants are naturals; 0 stands for the floor `null`, before any instant.
EmptyStore == [floor |-> 0, record |-> EmptyRecord]

\* Mutated: the wall clock is taken as it is.
AdvanceFloorToWallClock(floor, now) == now

\* advanceClockFloor
AdvanceFloor(floor, now) == IF now > floor THEN now ELSE floor

Unexpired(active, observedAt) == active # NoClaim /\ observedAt < active.expires

\* Mutated: an expired tuple is renewed and released like a live one.
TupleVerdictEvenExpired(record, req, observedAt) ==
  IF record.active = NoClaim \/ record.active # req.expected THEN "claim-conflict"
  ELSE "granted"

\* The verdict on a request at the decision time: "granted" or an error code.
AcquireVerdict(record, req, observedAt) ==
  IF record # req.expected THEN "claim-conflict"
  ELSE IF Unexpired(record.active, observedAt) THEN "claim-held"
  ELSE IF record.epoch >= MaxEpoch THEN "epoch-exhausted"
  ELSE "granted"

TupleVerdict(record, req, observedAt) ==
  IF record.active = NoClaim \/ record.active # req.expected THEN "claim-conflict"
  ELSE IF observedAt >= record.active.expires THEN "claim-expired"
  ELSE "granted"

ClaimVerdict(record, req, observedAt) ==
  IF req.cmd = "acquire" THEN AcquireVerdict(record, req, observedAt)
                         ELSE TupleVerdict(record, req, observedAt)

\* Mutated: the high-water mark is not advanced.
GrantedRecordSameEpoch(record, req, observedAt) ==
  CASE req.cmd = "acquire" ->
         [epoch |-> record.epoch,
          active |-> [owner |-> req.owner, epoch |-> record.epoch + 1,
                      expires |-> observedAt + req.dur]]
    [] req.cmd = "renew"   -> [record EXCEPT !.active.expires = observedAt + req.dur]
    [] req.cmd = "release" -> [record EXCEPT !.active = NoClaim]

\* What a granted request makes of the record.
GrantedRecord(record, req, observedAt) ==
  CASE req.cmd = "acquire" ->
         [epoch |-> record.epoch + 1,
          active |-> [owner |-> req.owner, epoch |-> record.epoch + 1,
                      expires |-> observedAt + req.dur]]
    [] req.cmd = "renew"   -> [record EXCEPT !.active.expires = observedAt + req.dur]
    [] req.cmd = "release" -> [record EXCEPT !.active = NoClaim]

\* claimAcquire, claimRenew and claimRelease: a refused request advances the floor too.
ApplyClaim(store, req, physicalNow) ==
  LET observedAt == AdvanceFloor(store.floor, physicalNow)
  IN  [floor  |-> observedAt,
       record |-> IF ClaimVerdict(store.record, req, observedAt) = "granted"
                  THEN GrantedRecord(store.record, req, observedAt)
                  ELSE store.record]

-----------------------------------------------------------------------------
(* The journal: clock entries [type, floor] and claim entries              *)
(* [type, physicalNow, req]; entries of other types leave the store alone. *)

ApplyEntry(store, e) ==
  IF e.type = "clock" THEN [store EXCEPT !.floor = AdvanceFloor(@, e.floor)]
  ELSE IF e.type = "claim" THEN ApplyClaim(store, e.req, e.physicalNow)
  ELSE store

\* replayClaimEntries
Replay(j) ==
  LET after[n \in 0..Len(j)] ==
        IF n = 0 THEN EmptyStore ELSE ApplyEntry(after[n - 1], j[n])
  IN  after[Len(j)]

\* The positions of the entries the tracked reconciliation log carries.
Projected(j) == {k \in 1..Len(j) : j[k].type \notin {"clock", "finalized"}}

\* Mutated: gaps take the instant of the last claim of the log.
HydratedAtLastClaim(j) ==
  LET log      == Projected(j)
      timed    == {k \in log : j[k].type = "claim"}
      fallback == IF timed = {} THEN 0 ELSE j[Max(timed)].physicalNow
  IN  [k \in 1..(IF log = {} THEN 0 ELSE Max(log)) |->
         IF k \in log THEN j[k] ELSE [type |-> "clock", floor |-> fallback]]

\* hydrateClaimJournalFromHead on an empty journal: the committed log keeps the
\* sequence numbers, and each gap becomes a clock entry of one fallback instant.
Hydrated(j) ==
  LET log      == Projected(j)
      timed    == {k \in log : j[k].type = "claim"}
      fallback == IF timed = {} THEN 0 ELSE j[Min(timed)].physicalNow
  IN  [k \in 1..(IF log = {} THEN 0 ELSE Max(log)) |->
         IF k \in log THEN j[k] ELSE [type |-> "clock", floor |-> fallback]]
=============================================================================
