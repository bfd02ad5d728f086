--------------------------- MODULE AtomicMutation ---------------------------
(***************************************************************************)
(* What the mutation commands promise: each request changes one item of    *)
(* the ledger, at one instant, to what the request asks of the ledger of   *)
(* that instant, and only if the whole ledger is valid before and after.   *)
(* ItemMutation does it with files, item locks and two reads.              *)
(***************************************************************************)
EXTENDS Lifecycle

CONSTANT Requests   \* the requests that clients make

ASSUME RequestsAssumption ==
  Requests \subseteq
       [op : {"create"}, id : ItemId, deps : SUBSET ItemId, parent : ItemId \cup {NoParent}]
  \cup [op : {"transition"}, id : ItemId, to : Status]
  \cup [op : {"patch"}, id : ItemId, deps : SUBSET ItemId]
  \cup [op : {"parent-migrate"}, id : ItemId, was : ItemId \cup {NoParent},
        parent : ItemId \cup {NoParent}]

VARIABLE ledger

\* What the item becomes.
Proposed(r, L) ==
  IF r.op = "create"
  THEN [number |-> NextItemNumber(L), status |-> "triage", deps |-> r.deps,
        parent |-> r.parent, rollup |-> {}]
  ELSE IF r.op = "transition" THEN Transitioned(L, r.id, r.to)
  ELSE IF r.op = "patch" THEN [L[r.id] EXCEPT !.deps = r.deps]
  ELSE [L[r.id] EXCEPT !.parent = r.parent]

\* What the command checks of the ledger before it builds that.
Preconditions(r, L) ==
  /\ r.op = "create" <=> r.id \notin Items(L)
  /\ r.op = "transition" => /\ TransitionBlockers(L, r.id, r.to) = {}
                            /\ TransitionPreconditions(L, r.id, r.to)
  /\ r.op = "parent-migrate" =>
       /\ L[r.id].parent = r.was
       /\ r.parent # r.id
       /\ r.parent = NoParent \/ (r.parent \in Items(L) /\ Kind[r.parent] = "epic")

Candidate(r, L) == [L EXCEPT ![r.id] = Proposed(r, L)]

Accepts(r, L) ==
  ValidLedger(L) /\ Preconditions(r, L) /\ ValidLedger(Candidate(r, L))

Apply(r) ==
  /\ Preconditions(r, ledger)
  /\ ledger' = Candidate(r, ledger)
  /\ ValidLedger(ledger)
  /\ ValidLedger(ledger')

AtomicInit == ledger \in [ItemId -> Item \cup {NoItem}] /\ ValidLedger(ledger)

\* A request that leaves the item as it was is no step.
AtomicNext == ledger' # ledger /\ \E r \in Requests : Apply(r)

AtomicSpec == AtomicInit /\ [][AtomicNext]_ledger
=============================================================================
