---------------------------- MODULE LeaseService ----------------------------
(***************************************************************************)
(* What the claim commands promise about one item, as one atomic service:  *)
(* a lease is granted only when nobody holds an unexpired one, every grant *)
(* has an epoch of its own, and time, as the service knows it, never goes  *)
(* back (sections 4 and 5 of work-claim-contract.md).                      *)
(*                                                                         *)
(* A client relies on a tuple only after the service showed it to that     *)
(* client, and stops relying on it as soon as it asks for anything else.   *)
(***************************************************************************)
EXTENDS ClaimOperations

CONSTANTS
  Client,     \* the agents that ask for the item
  Instant,    \* the instants the wall clock may show
  Duration    \* the lease durations asked for

Tuple == [owner : Client, epoch : Nat, expires : Nat]

ASSUME LeaseAssumption ==
  /\ NoClaim \notin Tuple
  /\ MaxEpoch \in Nat
  /\ Instant \subseteq Nat
  /\ Duration \subseteq Nat

VARIABLES
  floor,    \* the authoritative clock floor
  record,   \* [epoch, active]: the highest epoch granted, and the lease
  held      \* held[c]: the tuple client c relies on, or NoClaim

leaseVars == <<floor, record, held>>

LeaseInit ==
  /\ floor = 0
  /\ record = [epoch |-> 0, active |-> NoClaim]
  /\ held = [c \in Client |-> NoClaim]

Live(tuple) == tuple # NoClaim /\ floor < tuple.expires

\* A decision is taken: effective time is persisted first, granted or not.
Ask(c, now) ==
  /\ floor' = IF now > floor THEN now ELSE floor
  /\ held' = [held EXCEPT ![c] = NoClaim]
  /\ UNCHANGED record

\* Another command of the namespace persists its decision time.
Observe(now) ==
  /\ floor' = IF now > floor THEN now ELSE floor
  /\ UNCHANGED <<record, held>>

Grant(c, dur) ==
  /\ ~ Live(record.active)
  /\ record.epoch < MaxEpoch
  /\ record' = [epoch |-> record.epoch + 1,
                active |-> [owner |-> c, epoch |-> record.epoch + 1,
                            expires |-> floor + dur]]
  /\ UNCHANGED <<floor, held>>

Extend(c, dur) ==
  /\ Live(record.active)
  /\ record.active.owner = c
  /\ held[c] = NoClaim
  /\ record' = [record EXCEPT !.active = [@ EXCEPT !.expires = floor + dur]]
  /\ UNCHANGED <<floor, held>>

Relinquish(c) ==
  /\ Live(record.active)
  /\ record.active.owner = c
  /\ held[c] = NoClaim
  /\ record' = [record EXCEPT !.active = NoClaim]
  /\ UNCHANGED <<floor, held>>

\* The client is shown the record, by an answer or by a read.
Learn(c) ==
  /\ held' = [held EXCEPT ![c] = IF record.active # NoClaim /\ record.active.owner = c
                                 THEN record.active ELSE NoClaim]
  /\ UNCHANGED <<floor, record>>

LeaseNext ==
  \/ \E now \in Instant : Observe(now)
  \/ \E c \in Client : \/ \E now \in Instant : Ask(c, now)
                       \/ \E dur \in Duration : Grant(c, dur) \/ Extend(c, dur)
                       \/ Relinquish(c)
                       \/ Learn(c)

LeaseSpec == LeaseInit /\ [][LeaseNext]_leaseVars

-----------------------------------------------------------------------------
(* Properties.                                                             *)

LeaseTypeOK ==
  /\ floor \in Nat
  /\ record \in [epoch : Nat, active : Tuple \cup {NoClaim}]
  /\ held \in [Client -> Tuple \cup {NoClaim}]

\* A client that relies on a lease unexpired at the service's own time is the
\* active owner, with exactly that tuple.
HolderIsActive ==
  \A c \in Client : Live(held[c]) => record.active = held[c] /\ held[c].owner = c

\* So two clients never rely on live leases of one item at once.
LeaseIsExclusive ==
  \A c, d \in Client : Live(held[c]) /\ Live(held[d]) => c = d

\* An epoch is a fence: two clients never rely on tuples of one epoch, live or
\* expired, so a late write can always be told from the current owner's.
EpochsAreFences ==
  \A c, d \in Client : c # d /\ held[c] # NoClaim /\ held[d] # NoClaim
                         => held[c].epoch # held[d].epoch

\* Neither effective time nor the epoch high-water mark ever goes back, so an
\* expired lease stays expired and a superseded epoch stays superseded, even
\* when the wall clock is set back.
NeverGoesBack == [][floor <= floor' /\ record.epoch <= record'.epoch]_leaseVars
=============================================================================
