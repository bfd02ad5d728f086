----------------------------- MODULE Lifecycle ------------------------------
(***************************************************************************)
(* The rules about items: the transition table, preconditions and blockers *)
(* of lifecycle.js and the validation of a complete ledger by validate.js  *)
(* (schema version 2).  A ledger maps every item ID to the item or to      *)
(* NoItem.  What no rule here tells apart is left out: titles, bodies,     *)
(* dates, decisions but the rollup of a completed epic, `related`.         *)
(***************************************************************************)
EXTENDS Naturals, FiniteSets

CONSTANTS
  ItemId,      \* item IDs, as numbers: immutable IDs have an order
  Kind,        \* Kind[i] is "task" or "epic": never changes
  NoItem,      \* no file has this ID
  NoParent     \* the item names no parent

Status ==
  {"triage", "backlog", "in-progress", "deferred", "done", "killed", "archived"}

Item == [number : Nat, status : Status, deps : SUBSET ItemId,
         parent : ItemId \cup {NoParent}, rollup : SUBSET (ItemId \X Status)]

ASSUME LifecycleAssumption ==
  /\ ItemId \subseteq Nat \ {0}
  /\ IsFiniteSet(ItemId)
  /\ Kind \in [ItemId -> {"task", "epic"}]
  /\ NoParent \notin ItemId
  /\ NoItem \notin Item

Items(L) == {i \in ItemId : L[i] # NoItem}

Dependents(L, i) == {j \in Items(L) : i \in L[j].deps}

Children(L, i) == {j \in Items(L) : L[j].parent = i}

-----------------------------------------------------------------------------
(* Transitions.                                                            *)

Edges(kind) ==
  {<<"triage", "backlog">>, <<"triage", "killed">>,
   <<"backlog", "archived">>, <<"backlog", "killed">>, <<"backlog", "deferred">>,
   <<"deferred", "backlog">>, <<"archived", "backlog">>}
  \cup (IF kind = "task"
        THEN {<<"backlog", "in-progress">>, <<"in-progress", "backlog">>,
              <<"in-progress", "done">>, <<"in-progress", "killed">>}
        ELSE {<<"backlog", "done">>})

\* What the target itself, its dependencies and its children must satisfy.
TransitionPreconditions(L, i, to) ==
  /\ <<L[i].status, to>> \in Edges(Kind[i])
  /\ to = "done" => \A d \in L[i].deps : d \in Items(L) /\ L[d].status = "done"
  /\ to = "done" /\ Kind[i] = "epic" =>
       \A c \in Children(L, i) : L[c].status \in {"done", "killed"}

\* The items that would have to be mutated with it: one file changes at a time.
TransitionBlockers(L, i, to) ==
  {j \in Dependents(L, i) \ {i} : to \in {"killed", "archived"}}
  \cup {c \in Children(L, i) : /\ Kind[i] = "epic" /\ to \in {"killed", "archived"}
                               /\ L[c].status \in {"triage", "backlog", "in-progress"}}

Transitioned(L, i, to) ==
  [L[i] EXCEPT !.status = to,
               !.rollup = IF Kind[i] = "epic" /\ to = "done"
                          THEN {<<c, L[c].status>> : c \in Children(L, i)} ELSE @]

-----------------------------------------------------------------------------
(* A valid ledger.                                                         *)

DependenciesResolve(L) ==
  \A i \in Items(L) : \A d \in L[i].deps :
    /\ d # i
    /\ d \in Items(L)
    /\ L[d].status \notin {"archived", "killed"}

ParentsResolve(L) ==
  \A i \in Items(L) : L[i].parent # NoParent =>
    /\ L[i].parent # i
    /\ L[i].parent \in Items(L)
    /\ Kind[L[i].parent] = "epic"

\* No set of items of which each refers to another of the set.
DependenciesAcyclic(L) ==
  ~ \E S \in SUBSET Items(L) \ {{}} : \A i \in S : L[i].deps \cap (S \ {i}) # {}

ContainmentAcyclic(L) ==
  ~ \E S \in SUBSET Items(L) \ {{}} : \A i \in S : L[i].parent \in S \ {i}

DoneItemsAreSettled(L) ==
  \A i \in Items(L) : L[i].status = "done" =>
    \A d \in L[i].deps : d \in Items(L) => L[d].status = "done"

EpicRules(L) ==
  \A e \in {i \in Items(L) : Kind[i] = "epic"} :
    /\ L[e].status # "in-progress"
    /\ L[e].status = "done" =>
         /\ \A c \in Children(L, e) : L[c].status \in {"done", "killed"}
         /\ L[e].rollup = {<<c, L[c].status>> : c \in Children(L, e)}

TerminalEpicsHaveNoLiveChild(L) ==
  \A i \in Items(L) :
    L[i].status \in {"triage", "backlog", "in-progress"}
      /\ L[i].parent \in Items(L) /\ Kind[L[i].parent] = "epic"
      => L[L[i].parent].status \notin {"killed", "archived"}

NumbersDiffer(L) ==
  \A i, j \in Items(L) : i # j => L[i].number # L[j].number

ValidLedger(L) ==
  /\ DependenciesResolve(L)
  /\ ParentsResolve(L)
  /\ DependenciesAcyclic(L)
  /\ ContainmentAcyclic(L)
  /\ DoneItemsAreSettled(L)
  /\ EpicRules(L)
  /\ TerminalEpicsHaveNoLiveChild(L)
  /\ NumbersDiffer(L)

\* One more than the highest number in the ledger.
NextItemNumber(L) ==
  LET Used == {0} \cup {L[i].number : i \in Items(L)}
  IN  1 + CHOOSE n \in Used : \A m \in Used : m <= n
=============================================================================
