--------------------------- MODULE MCLedgerRepair ---------------------------
(* Small instances of number-repair for TLC.                                *)
EXTENDS LedgerRepair, TLC

CONSTANTS p1, p2, r1, r2

\* Three items share a number: two of them move.
Numberings == {1 :> 1 @@ 2 :> 1 @@ 3 :> 1}

\* Each process has a repair of its own.
OwnRepairs == p1 :> r1 @@ p2 :> r2

\* A repair has two callers.
SharedRepair == p1 :> r1 @@ p2 :> r1
=============================================================================
