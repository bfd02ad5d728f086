---------------------------- MODULE Projections -----------------------------
(***************************************************************************)
(* What is read off a ledger while its items change: readiness (ready.js), *)
(* the pages of `list` (list.js), the impact of an item in a report        *)
(* (report-impact.js) and the flow series, which replay the past from the  *)
(* dates that the items carry today (report-evidence.js).                  *)
(*                                                                         *)
(* The writers take the rules of Lifecycle and add the dates.  A reader of *)
(* `list` loads the item files one by one, so that a writer may come in    *)
(* between, and follows cursors; it may pass a cursor with another query   *)
(* than it was issued for.  A query is what validateListQuery lets pass;   *)
(* titles, numbers and the bounds of the rows are left out.                *)
(***************************************************************************)
EXTENDS Lifecycle, Sequences, SequencesExt

CONSTANTS
  StartDated,    \* the ledgers to start from
  Dates,         \* calendar days of changes, as numbers
  Until,         \* days to snooze an item until
  DaysPerWeek,   \* 7
  Query,         \* list queries: [asOf, status, ready, field, descending]
  PageSize,      \* page sizes asked for
  MaxMutations   \* bound: mutations committed

Never == 0       \* the item carries no such date
NoCursor == [offset |-> 0]

\* An item, with the dates of its creation, its last change, its first acceptance and
\* its end, and the day it is snoozed until.
DatedItem ==
  [number : Nat, status : Status, deps : SUBSET ItemId, parent : ItemId \cup {NoParent},
   rollup : SUBSET (ItemId \X Status), created : Nat, updated : Nat, accepted : Nat,
   left : Nat, snoozed : Nat]

DatedLedgers == [ItemId -> DatedItem \cup {NoItem}]

\* The terminal date of an item is that of its last change, and only a terminal item
\* has one.
TerminalDatesMatch(L) ==
  \A i \in Items(L) :
    L[i].left = IF L[i].status \in {"done", "killed", "archived", "deferred"}
                THEN L[i].updated ELSE Never

\* No item was changed before it was created.
DatesOrdered(L) == \A i \in Items(L) : L[i].created <= L[i].updated

\* validateLedger, with the dates.
ValidDated(L) == ValidLedger(L) /\ TerminalDatesMatch(L) /\ DatesOrdered(L)

\* A query that names nothing unknown; an empty filter is not one.
ValidQuery(q) ==
  q \in [asOf : Nat, status : SUBSET Status \ {{}}, ready : BOOLEAN,
         field : {"number", "created", "updated"}, descending : BOOLEAN]

ASSUME ProjectionsAssumption ==
  /\ Dates \subseteq Nat \ {0} /\ IsFiniteSet(Dates)
  /\ Until \subseteq Nat /\ PageSize \subseteq Nat \ {0}
  /\ DaysPerWeek \in Nat \ {0} /\ MaxMutations \in Nat
  /\ NoItem \notin DatedItem
  /\ StartDated \subseteq DatedLedgers
  /\ \A L \in StartDated : ValidDated(L)

VARIABLES
  dated,      \* the ledger: dated[i] is the item, or NoItem
  mutations,  \* mutations committed
  reader      \* the reader and the traversal it is in

projectionVars == <<dated, mutations, reader>>

NoTraversal == [query |-> Never, rows |-> <<>>, snapshot |-> Never, cursor |-> NoCursor,
                complete |-> FALSE]
NewReader == [at |-> "idle", listing |-> {}, loaded |-> [i \in ItemId |-> NoItem],
              query |-> Never, size |-> 0, resume |-> NoCursor, traversal |-> NoTraversal]

ProjectionsInit == dated \in StartDated /\ mutations = 0 /\ reader = NewReader

-----------------------------------------------------------------------------
(* Readiness.                                                              *)

Parents(L) == [i \in Items(L) |-> L[i].parent]

\* What the parent links lead to from item i, missing items included.
Ancestors(parents, i) ==
  LET Above[n \in 0..Cardinality(ItemId)] ==
        IF n = 0 THEN {parents[i]} \cap ItemId
        ELSE Above[n - 1]
             \cup ({parents[a] : a \in Above[n - 1] \cap DOMAIN parents} \cap ItemId)
  IN  Above[Cardinality(ItemId)]

\* The ancestors of an item that are missing or not in the backlog.
AncestorReasons(L, i) ==
  {a \in Ancestors(Parents(L), i) : a \notin Items(L) \/ L[a].status # "backlog"}

Ineligible(L, i, asOf) ==
  Kind[i] # "task" \/ L[i].status # "backlog" \/ L[i].snoozed > asOf

UnsatisfiedDependencies(L, i) ==
  {d \in L[i].deps : d \notin Items(L) \/ L[d].status # "done"}

Ready(L, i, asOf) ==
  /\ ~ Ineligible(L, i, asOf)
  /\ UnsatisfiedDependencies(L, i) = {}
  /\ AncestorReasons(L, i) = {}

-----------------------------------------------------------------------------
(* The writers: create, transition, snooze and patch, at a date of their choice.  *)

Write(i, item) ==
  /\ mutations < MaxMutations
  /\ dated' = [dated EXCEPT ![i] = item]
  /\ ValidDated(dated')
  /\ mutations' = mutations + 1
  /\ UNCHANGED reader

Create(i, parent, deps, date) ==
  /\ dated[i] = NoItem
  /\ Write(i, [number |-> NextItemNumber(dated), status |-> "triage", deps |-> deps,
               parent |-> parent, rollup |-> {}, created |-> date, updated |-> date,
               accepted |-> Never, left |-> Never, snoozed |-> Never])

\* The dates of an item do not go back.
Touchable(i, date) == dated[i] # NoItem /\ date >= dated[i].updated

\* transitionData: the four terminal dates are removed, and one set.
TerminalDate(i, to, date) ==
  IF to \in {"done", "killed", "archived", "deferred"} THEN date ELSE Never

Transition(i, to, date) ==
  /\ Touchable(i, date)
  /\ TransitionPreconditions(dated, i, to)
  /\ TransitionBlockers(dated, i, to) = {}
  /\ Write(i, [Transitioned(dated, i, to) EXCEPT
                 !.updated = date,
                 !.left = TerminalDate(i, to, date),
                 !.accepted = IF dated[i].status = "triage" /\ to = "backlog" /\ @ = Never
                              THEN date ELSE @])

Snooze(i, until, date) ==
  Touchable(i, date) /\ Write(i, [dated[i] EXCEPT !.snoozed = until, !.updated = date])

Patch(i, deps, date) ==
  Touchable(i, date) /\ Write(i, [dated[i] EXCEPT !.deps = deps, !.updated = date])

-----------------------------------------------------------------------------
(* list.                                                                   *)

MatchesFilters(L, i, q) ==
  /\ L[i].status \in q.status
  /\ q.ready => Ready(L, i, q.asOf)

\* The selected field, in the selected direction; ties in ascending order of IDs.
Before(L, q, i, j) ==
  LET left == L[i][q.field]
      right == L[j][q.field]
  IN  IF left = right THEN i < j ELSE (left < right) = ~ q.descending

\* The items that match, in the order of the query.
Matched(L, q) ==
  CHOOSE s \in SetToSeqs({i \in Items(L) : MatchesFilters(L, i, q)}) :
    \A m, n \in 1..Len(s) : m < n => Before(L, q, s[m], s[n])

\* Mutated: the filters bind a cursor, the date they are evaluated at does not.
QueryDigestWithoutDate(q) == <<q.status, q.ready, q.field, q.descending>>

QueryDigest(q) == <<q.asOf, q.status, q.ready, q.field, q.descending>>

CursorMismatch(c, q, snapshot) ==
  c # NoCursor /\ (c.snapshot # snapshot \/ c.query # QueryDigest(q))

\* A page of q, from the start or from the cursor that the last page came with.
\* loadLedger lists the directory first.
Ask(q, size, resume) ==
  /\ reader.at = "idle"
  /\ ValidQuery(q)
  /\ resume \in {NoCursor, reader.traversal.cursor}
  /\ reader' = [reader EXCEPT !.at = "loading", !.listing = Items(dated),
                              !.loaded = [i \in ItemId |-> NoItem],
                              !.query = q, !.size = size, !.resume = resume,
                              !.traversal = IF resume = NoCursor THEN NoTraversal ELSE @]
  /\ UNCHANGED <<dated, mutations>>

\* loadLedger reads one file after the other, in the order of their paths.
LoadFile ==
  /\ reader.at = "loading"
  /\ reader.listing # {}
  /\ LET i == CHOOSE n \in reader.listing : \A m \in reader.listing : n <= m
     IN  reader' = [reader EXCEPT !.listing = @ \ {i}, !.loaded[i] = dated[i]]
  /\ UNCHANGED <<dated, mutations>>

\* The page, its rows and the cursor to the next one.
Page(L, q, size, offset) ==
  LET matched == Matched(L, q)
      items == SubSeq(matched, offset + 1, IF offset + size < Len(matched)
                                           THEN offset + size ELSE Len(matched))
      next == offset + Len(items)
  IN  [items |-> items,
       cursor |-> IF next < Len(matched)
                  THEN [offset |-> next, query |-> QueryDigest(q), snapshot |-> L]
                  ELSE NoCursor]

\* listLedger: an invalid ledger and a cursor that was issued for something else
\* are refused, and the caller starts again; so it does of its own accord.
AnswerPage ==
  LET L == reader.loaded
      begin == IF reader.resume = NoCursor
               THEN [NoTraversal EXCEPT !.query = reader.query, !.snapshot = L]
               ELSE reader.traversal
      page == Page(L, reader.query, reader.size, reader.resume.offset)
  IN  /\ reader.at = "loading"
      /\ reader.listing = {}
      /\ reader' = [NewReader EXCEPT !.traversal =
           IF ~ ValidDated(L) \/ CursorMismatch(reader.resume, reader.query, L)
           THEN NoTraversal
           ELSE [begin EXCEPT !.rows = @ \o page.items, !.cursor = page.cursor,
                              !.complete = page.cursor = NoCursor]]
      /\ UNCHANGED <<dated, mutations>>

-----------------------------------------------------------------------------
(* Reports.                                                                *)

\* The items without a terminal date.
Open(L) == {i \in Items(L) : L[i].left = Never}

\* affectedIds: what a candidate reaches by dependents and children that the
\* report retains.
Affected(L, retained, i) ==
  LET Closed(S) == \A j \in retained : L[j].deps \cap S # {} \/ L[j].parent \in S => j \in S
  IN  {j \in retained \ {i} : \A S \in SUBSET retained : i \in S /\ Closed(S) => j \in S}

IfDone(L, i) == [L EXCEPT ![i].status = "done"]

\* Mutated: readiness of the retained items among themselves.
ReadyIfDoneInView(L, retained, i, asOf) ==
  LET V == [j \in ItemId |-> IF j \in retained THEN L[j] ELSE NoItem]
  IN  {j \in Affected(L, retained, i) : ~ Ready(V, j, asOf) /\ Ready(IfDone(V, i), j, asOf)}

\* readyIfDoneIds of a retained open item: of the complete ledger, before and after.
ReadyIfDone(L, retained, i, asOf) ==
  {j \in Affected(L, retained, i) : ~ Ready(L, j, asOf) /\ Ready(IfDone(L, i), j, asOf)}

\* The first day of the week of a date.
WeekStart(date) == date - (date % DaysPerWeek)

\* resolveWindow of an explicit range.
WeekStarts(from, to) ==
  {d \in WeekStart(from)..WeekStart(to) : d % DaysPerWeek = 0}

\* Mutated: a week counts as a whole, cut short or not.
WeekOfWhole(L, start, from, to) ==
  [arrivals |-> Cardinality({i \in Items(L) : WeekStart(L[i].created) = start}),
   closures |-> Cardinality({i \in Items(L) : L[i].left # Never /\ WeekStart(L[i].left) = start})]

\* buildWeeklyFlow: what one week of the range counts.
WeekOf(L, start, from, to) ==
  [arrivals |-> Cardinality({i \in Items(L) :
                  WeekStart(L[i].created) = start /\ L[i].created \in from..to}),
   closures |-> Cardinality({i \in Items(L) :
                  L[i].left # Never /\ WeekStart(L[i].left) = start /\ L[i].left \in from..to})]

WeeklyFlow(L, from, to) == [s \in WeekStarts(from, to) |-> WeekOf(L, s, from, to)]

\* Mutated: what has been accepted by now was accepted all the time.
PointOfToday(L, date) ==
  LET Arrived == {i \in Items(L) : L[i].created <= date}
      terminal == {i \in Arrived : L[i].left # Never /\ L[i].left <= date}
      accepted == {i \in Arrived \ terminal : L[i].status # "triage"}
  IN  [triage |-> Cardinality(Arrived \ (terminal \cup accepted)),
       accepted |-> Cardinality(accepted), terminal |-> Cardinality(terminal)]

\* buildCumulativeFlow: where the items stood on a date, as they tell it today.
PointOf(L, date) ==
  LET Arrived == {i \in Items(L) : L[i].created <= date}
      terminal == {i \in Arrived : L[i].left # Never /\ L[i].left <= date}
      accepted == {i \in Arrived \ terminal : L[i].accepted # Never /\ L[i].accepted <= date}
  IN  [triage |-> Cardinality(Arrived \ (terminal \cup accepted)),
       accepted |-> Cardinality(accepted), terminal |-> Cardinality(terminal)]

-----------------------------------------------------------------------------
SomeDeps == {{}} \cup {{d} : d \in ItemId}

ProjectionsNext ==
  \/ \E i \in ItemId : \E date \in Dates :
       \/ \E parent \in ItemId \cup {NoParent} :
          \E deps \in SomeDeps : Create(i, parent, deps, date)
       \/ \E deps \in SomeDeps : Patch(i, deps, date)
       \/ \E to \in Status : Transition(i, to, date)
       \/ \E until \in Until \cup {Never} : Snooze(i, until, date)
  \/ \E q \in Query : \E size \in PageSize :
     \E resume \in {NoCursor, reader.traversal.cursor} : Ask(q, size, resume)
  \/ LoadFile
  \/ AnswerPage

ProjectionsSpec == ProjectionsInit /\ [][ProjectionsNext]_projectionVars

-----------------------------------------------------------------------------
(* Properties.                                                             *)

\* The pages of one traversal list every item that matches exactly once, in order,
\* whatever is written between two pages and however the caller mixes its queries
\* up (mutation-contract.md, section 5.1).
PagesAreTheList ==
  LET t == reader.traversal
      L == t.snapshot
  IN  t.complete =>
        /\ ToSet(t.rows) = {i \in Items(L) : MatchesFilters(L, i, t.query)}
        /\ \A m, n \in 1..Len(t.rows) : m < n => Before(L, t.query, t.rows[m], t.rows[n])

\* What a report says an item's completion makes ready is what its completion
\* makes ready, of whatever part of the open items the report retains.
CompletionReleasesItsImpact ==
  [][\A i \in Items(dated) : dated[i].status # "done" /\ dated'[i].status = "done" =>
       \A retained \in SUBSET Open(dated) : \A asOf \in Dates : i \in retained =>
         ReadyIfDone(dated, retained, i, asOf) =
           {j \in retained : ~ Ready(dated, j, asOf) /\ Ready(dated', j, asOf)}]_projectionVars

\* The two flow series tell one story: what the weeks of a range count, cut short
\* or not, is the difference of the inventories at its ends.
FlowsAgree ==
  \A from, to \in Dates : from <= to =>
    LET weeks == WeeklyFlow(dated, from, to)
        Sum(Count(_)) == FoldFunction(+, 0, [s \in DOMAIN weeks |-> Count(weeks[s])])
        start == PointOf(dated, from - 1)
        end == PointOf(dated, to)
        Total(p) == p.triage + p.accepted + p.terminal
    IN  /\ Sum(LAMBDA w : w.arrivals) = Total(end) - Total(start)
        /\ Sum(LAMBDA w : w.closures) = end.terminal - start.terminal

\* The past that a report replays stands: a change of some date moves no point
\* before that date, unless it takes an item back from deferred or archived.
PastPointsStand ==
  [][\A i \in ItemId : dated'[i] # dated[i] =>
       \/ dated[i] # NoItem /\ dated[i].left # Never /\ dated'[i].left = Never
       \/ \A date \in Dates : date < dated'[i].updated =>
            PointOf(dated', date) = PointOf(dated, date)]_projectionVars
=============================================================================
