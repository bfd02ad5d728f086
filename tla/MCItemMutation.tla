--------------------------- MODULE MCItemMutation ---------------------------
(* Small instances of the item commands for TLC: an epic and three tasks.  *)
EXTENDS ItemMutation, TLC

MCKind == [i \in ItemId |-> IF i = 1 THEN "epic" ELSE "task"]

It(number, status, deps, parent) ==
  [number |-> number, status |-> status, deps |-> deps, parent |-> parent, rollup |-> {}]

\* The epic in the backlog with a task under way; a third item waits for the
\* task, or is yet to be created.
MCStartLedgers ==
  {(1 :> It(1, "backlog", {}, NoParent)) @@ (2 :> It(2, "in-progress", {}, 1))
     @@ (3 :> third) @@ (4 :> NoItem) : third \in {NoItem, It(3, "backlog", {2}, NoParent)}}

\* Requests whose lock closure covers what they read.
CoveredRequests ==
  [op : {"create"}, id : {3}, deps : {{2}}, parent : {1}]
  \cup [op : {"create"}, id : {4}, deps : {{}}, parent : {NoParent}]
  \cup [op : {"transition"}, id : {1, 2}, to : {"done", "killed"}]
  \cup [op : {"transition"}, id : {3}, to : {"archived"}]
  \cup [op : {"patch"}, id : {3}, deps : {{}}]
  \cup [op : {"parent-migrate"}, id : {2}, was : {1}, parent : {NoParent}]

ProcessSymmetry == Permutations(Process)
=============================================================================
