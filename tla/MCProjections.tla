--------------------------- MODULE MCProjections ---------------------------
(* A small instance of the projections for TLC: an epic and two tasks.    *)
EXTENDS Projections, TLC

MCKind == [i \in ItemId |-> IF i = 1 THEN "epic" ELSE "task"]

It(number, status, deps, parent, updated) ==
  [number |-> number, status |-> status, deps |-> deps, parent |-> parent, rollup |-> {},
   created |-> 1, updated |-> updated,
   accepted |-> IF status = "triage" THEN Never ELSE 1,
   left |-> IF status \in {"done", "deferred"} THEN updated ELSE Never, snoozed |-> Never]

\* An epic with a task under way that another one waits for, with a task put off,
\* and with two tasks that may both be started.
MCStartDated ==
  {(1 :> It(1, "backlog", {}, NoParent, 1)) @@ (2 :> It(2, second, {}, 1, 2)) @@ (3 :> third) :
     <<second, third>> \in {<<"in-progress", It(3, "backlog", {2}, 1, 1)>>,
                           <<"deferred", NoItem>>,
                           <<"backlog", It(3, "backlog", {}, 1, 1)>>}}

\* What is ready, on two days; and everything, latest change first.
MCQuery ==
  [asOf : {1, 2}, status : {Status}, ready : {TRUE}, field : {"number"}, descending : {FALSE}]
  \cup [asOf : {1}, status : {Status}, ready : {FALSE}, field : {"updated"}, descending : {TRUE}]
=============================================================================
