----------------------------- MODULE MCClaimLock -----------------------------
(* Small instances of the namespace file lock for TLC.                      *)
EXTENDS ClaimLock, TLC

ProcSymmetry == Permutations(Proc)
=============================================================================
