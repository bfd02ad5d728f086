------------------------ MODULE MCClaimedPublication ------------------------
(* Small instances of claimed publication for TLC.                          *)
EXTENDS ClaimedPublication, TLC

\* Clients, worktrees and operations are interchangeable, and so are the
\* contents the item does not start from.
PublicationSymmetry ==
  Permutations(Client) \cup Permutations(Worktree) \cup Permutations(Operation)
    \cup Permutations(Revision \ {Original})
=============================================================================
