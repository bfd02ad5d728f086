---------------------------- MODULE MCAutoCommit ----------------------------
(* Small instances of auto-commit for TLC.                                  *)
EXTENDS AutoCommit, TLC

CONSTANTS p1, p2, i1, i2, patch, create, publish, r1, r2, r3

\* A patch and a claimed publication of one item, and the create of another.
Commands == patch :> "patch" @@ create :> "create" @@ publish :> "publish-claimed"
Items == patch :> i1 @@ create :> i2 @@ publish :> i1
Revisions == patch :> r1 @@ create :> r2 @@ publish :> r3

Symmetry == Permutations(Proc)
=============================================================================
