---------------------------- MODULE MCLedgerFence ----------------------------
(* Small instances of the mutation fence for TLC.                           *)
EXTENDS LedgerFence, TLC

\* Items and bodies are interchangeable; worktrees are not, one of them is detached.
ContentSymmetry == Permutations(Item) \cup Permutations(Body)
=============================================================================
