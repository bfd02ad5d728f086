---------------------------- MODULE MCWorkClaims ----------------------------
(* Small instances of the claim commands for TLC.                           *)
EXTENDS WorkClaims, TLC

ClientSymmetry == Permutations(Client)
=============================================================================
