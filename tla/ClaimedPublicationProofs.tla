---------------------- MODULE ClaimedPublicationProofs ----------------------
(***************************************************************************)
(* Claimed publication, for any clients, worktrees, operations, contents,  *)
(* lease durations, crashes and edits: an operation is concluded once, a   *)
(* publication commits under the newest epoch only, and while a lease is   *)
(* live nothing but its own epoch changes what the journal authorizes.     *)
(*                                                                         *)
(* The invariant is about what a dead command leaves behind.  At most one  *)
(* publication, under the epoch of the record, and at most one legacy      *)
(* attempt wait for their terminal; a legacy attempt never waits under a   *)
(* live lease, because the lease could only be granted by a checkout that  *)
(* ruled on it; and the publication in the lock is the one that waits.     *)
(***************************************************************************)
EXTENDS ClaimedPublication, ReconciliationProofs

-----------------------------------------------------------------------------
(* The publications of a journal.                                          *)

OnePublicationPending(j) == \A k, n \in PendingPublications(j) : k = n

OneOutcome(j) == \A k, n \in Finals(j) : j[k].op = j[n].op => k = n

\* A pending publication was begun under the epoch that is still the newest:
\* every command that moves the epoch has given it its terminal first.
PendingIsCurrent(j, epoch) ==
  \A k \in PendingPublications(j) : j[k].epoch = epoch /\ j[k].writer \in Worktree

PublicationsSound(j, epoch) ==
  OnePublicationPending(j) /\ OneOutcome(j) /\ PendingIsCurrent(j, epoch)

JournalSound(j, epoch) == AttemptsSound(j) /\ PublicationsSound(j, epoch)

LEMMA NoPublications ==
  ASSUME NEW epoch
  PROVE  JournalSound(<<>>, epoch)
BY NoAttempts, EmptyJournal
   DEF JournalSound, PublicationsSound, OnePublicationPending, OneOutcome, PendingIsCurrent,
       PendingPublications, Finals

\* Entries of the other types do not touch the publications.
LEMMA OtherPublications ==
  ASSUME NEW j, IsJournal(j), NEW epoch, PublicationsSound(j, epoch),
         NEW x, IsJournal(x), \A k \in 1..Len(x) : x[k].type \notin {"publish", "final"}
  PROVE  /\ PublicationsSound(j \o x, epoch)
         /\ PendingPublications(j \o x) = PendingPublications(j)
         /\ Finals(j \o x) = Finals(j)
<1> DEFINE q == j \o x
<1>1. /\ Len(j) \in Nat /\ Len(x) \in Nat /\ Len(q) = Len(j) + Len(x)
      /\ \A k \in 1..Len(j) : q[k] = j[k]
      /\ \A k \in (Len(j) + 1)..Len(q) : q[k].type \notin {"publish", "final"}
  BY JournalLen, JournalConcat
<1> HIDE DEF q
<1>2. \A k \in 1..Len(q) : q[k].type \in {"publish", "final"} => k \in 1..Len(j)
  BY <1>1
<1>3. Finals(q) = Finals(j)
  BY <1>1, <1>2 DEF Finals
<1>4. \A k \in Finals(j) : k \in 1..Len(j) /\ q[k] = j[k]
  BY <1>1 DEF Finals
<1>5. PendingPublications(q) = PendingPublications(j)
  BY <1>1, <1>2, <1>3, <1>4 DEF PendingPublications
<1>6. \A k \in PendingPublications(j) : q[k] = j[k]
  BY <1>1 DEF PendingPublications
<1>7. PublicationsSound(q, epoch)
  BY <1>3, <1>4, <1>5, <1>6
     DEF PublicationsSound, OnePublicationPending, OneOutcome, PendingIsCurrent
<1>8. QED
  BY <1>3, <1>5, <1>7 DEF q

LEMMA OtherPublication ==
  ASSUME NEW j, IsJournal(j), NEW epoch, PublicationsSound(j, epoch),
         NEW e, e.type \notin {"publish", "final"}
  PROVE  /\ PublicationsSound(Append(j, e), epoch)
         /\ PendingPublications(Append(j, e)) = PendingPublications(j)
         /\ Finals(Append(j, e)) = Finals(j)
<1>1. IsJournal(<<e>>) /\ Len(<<e>>) = 1 /\ <<e>>[1] = e
  BY <<e>> \in Seq({e}) DEF IsJournal
<1>2. \A k \in 1..Len(<<e>>) : <<e>>[k].type \notin {"publish", "final"}
  BY <1>1
<1>3. j \o <<e>> = Append(j, e)
  BY ConcatOne
<1>4. QED
  BY <1>1, <1>2, <1>3, OtherPublications

\* The first terminal of an operation ends the publications of it.
LEMMA FinalAppended ==
  ASSUME NEW j, IsJournal(j), NEW epoch, PublicationsSound(j, epoch),
         NEW e, e.type = "final", \A k \in Finals(j) : j[k].op # e.op
  PROVE  /\ PublicationsSound(Append(j, e), epoch)
         /\ PendingPublications(Append(j, e))
              \subseteq {k \in PendingPublications(j) : j[k].op # e.op}
<1> DEFINE q == Append(j, e)
<1>1. /\ Len(j) \in Nat /\ Len(q) = Len(j) + 1
      /\ \A k \in 1..Len(j) : q[k] = j[k]
      /\ q[Len(q)] = e
  BY JournalLen, JournalAppend
<1> HIDE DEF q
<1>2. Finals(q) = Finals(j) \cup {Len(q)}
  BY <1>1 DEF Finals
<1>3. \A k \in Finals(j) : k \in 1..Len(j) /\ q[k] = j[k]
  BY <1>1 DEF Finals
<1>4. OneOutcome(q)
  BY <1>1, <1>2, <1>3 DEF PublicationsSound, OneOutcome
<1>5. ASSUME NEW k \in PendingPublications(q)
      PROVE  k \in PendingPublications(j) /\ j[k].op # e.op /\ q[k] = j[k]
  <2>1. k \in 1..Len(q) /\ q[k].type = "publish" /\ \A n \in Finals(q) : q[n].op # q[k].op
    BY <1>5 DEF PendingPublications
  <2>2. k \in 1..Len(j) /\ q[k] = j[k]
    BY <1>1, <2>1
  <2>3. QED
    BY <1>1, <1>2, <1>3, <2>1, <2>2 DEF PendingPublications
<1>6. PublicationsSound(q, epoch)
  BY <1>4, <1>5 DEF PublicationsSound, OnePublicationPending, PendingIsCurrent
<1>7. QED
  BY <1>5, <1>6 DEF q

\* A publication begun when none waits is the one that waits.
LEMMA PublishAppended ==
  ASSUME NEW j, IsJournal(j), NEW epoch, PublicationsSound(j, epoch),
         PendingPublications(j) = {}, NEW e, e.type = "publish",
         \A k \in Finals(j) : j[k].op # e.op,
         e.epoch = epoch, e.writer \in Worktree
  PROVE  /\ PublicationsSound(Append(j, e), epoch)
         /\ PendingPublications(Append(j, e)) = {Len(j) + 1}
<1> DEFINE q == Append(j, e)
<1>1. /\ Len(j) \in Nat /\ Len(q) = Len(j) + 1
      /\ \A k \in 1..Len(j) : q[k] = j[k]
      /\ q[Len(q)] = e
  BY JournalLen, JournalAppend
<1> HIDE DEF q
<1>2. Finals(q) = Finals(j)
  BY <1>1 DEF Finals
<1>3. \A k \in Finals(j) : k \in 1..Len(j) /\ q[k] = j[k]
  BY <1>1 DEF Finals
<1>4. ASSUME NEW k \in PendingPublications(q) PROVE k = Len(q)
  <2>1. k \in 1..Len(q) /\ q[k].type = "publish" /\ \A n \in Finals(q) : q[n].op # q[k].op
    BY <1>4 DEF PendingPublications
  <2>2. CASE k # Len(q)
    <3>1. k \in 1..Len(j) /\ q[k] = j[k]
      BY <1>1, <2>1, <2>2
    <3>2. k \in PendingPublications(j)
      BY <1>2, <1>3, <2>1, <3>1 DEF PendingPublications
    <3>3. QED
      BY <3>2
  <2>3. QED
    BY <2>2
<1>5. Len(q) \in PendingPublications(q)
  BY <1>1, <1>2, <1>3 DEF PendingPublications
<1>6. PendingPublications(q) = {Len(q)}
  BY <1>4, <1>5
<1>7. OneOutcome(q)
  BY <1>2, <1>3 DEF PublicationsSound, OneOutcome
<1>8. QED
  BY <1>1, <1>6, <1>7
     DEF PublicationsSound, OnePublicationPending, PendingIsCurrent, q
-----------------------------------------------------------------------------
(* Reconciliation, phase by phase.                                         *)

\* Resolving a legacy attempt leaves the publications alone.
LEMMA ResolvedPublications ==
  ASSUME NEW j, NEW t, NEW epoch, JournalSound(j, epoch)
  PROVE  /\ JournalSound(Resolved(j, t), epoch)
         /\ PendingAttempts(Resolved(j, t)) = UnresolvedAttempts(j, t)
         /\ \/ Resolved(j, t) = j
            \/ PendingAttempts(j) # {} /\ \E e : /\ Resolved(j, t) = Append(j, e)
                                                 /\ e.type \in {"legacy", "abort"}
<1>1. IsJournal(j) /\ AttemptsSound(j) /\ PublicationsSound(j, epoch)
  BY DEF JournalSound, AttemptsSound
<1>2. CASE Resolved(j, t) = j
  BY <1>1, <1>2, ResolvedAttempts DEF JournalSound
<1>3. ASSUME NEW n \in PendingAttempts(j), NEW v \in {"legacy", "abort"},
             Resolved(j, t) = Append(j, Resolution(j[n], v))
      PROVE  PublicationsSound(Resolved(j, t), epoch)
             /\ \E e : Resolved(j, t) = Append(j, e) /\ e.type \in {"legacy", "abort"}
  <2> DEFINE e == Resolution(j[n], v)
  <2>1. e.type \in {"legacy", "abort"}
    BY DEF Resolution
  <2> HIDE DEF e
  <2>2. PublicationsSound(Append(j, e), epoch)
    BY <1>1, <2>1, OtherPublication
  <2>3. QED
    BY <1>3, <2>1, <2>2 DEF e
<1>4. QED
  BY <1>1, <1>2, <1>3, ResolvedSteps, ResolvedAttempts DEF JournalSound

\* The publication that waits gets its terminal, with the verdict of this
\* checkout: a committed one was begun under the epoch of the record.
LEMMA TerminalsSteps ==
  ASSUME NEW j, NEW w \in Worktree, NEW record, record.epoch \in Nat, JournalSound(j, record.epoch)
  PROVE  LET q == WithTerminals(j, w, record)
         IN  /\ JournalSound(q, record.epoch)
             /\ PendingPublications(q) = {}
             /\ PendingAttempts(q) = PendingAttempts(j)
             /\ \/ q = j
                \/ \E e : /\ q = Append(j, e)
                          /\ e.type = "final"
                          /\ e.committed => e.epoch = record.epoch
<1> DEFINE q == WithTerminals(j, w, record)
           D == PendingPublications(j)
           at(k) == InOrder(D)[k]
           f == [k \in 1..Len(InOrder(D)) |->
                   Final(j[at(k)], PublicationVerdict(j, j[at(k)], tree[w], record))]
<1>1. IsJournal(j) /\ AttemptsSound(j) /\ PublicationsSound(j, record.epoch)
  BY DEF JournalSound, AttemptsSound
<1>2. q = j \o f
  BY DEF WithTerminals
<1>3. CASE D = {}
  <2>1. InOrder(D) = <<>>
    BY <1>3, InOrderOfNone
  <2>2. f = <<>>
    BY <2>1, MapOfNone
  <2>3. q = j
    BY <1>1, <1>2, <2>2, ConcatOne
  <2>4. QED
    BY <1>3, <2>3
<1>4. CASE D # {}
  <2>1. PICK n \in D : TRUE
    BY <1>4
  <2>2. n \in Nat /\ D = {n}
    BY <1>1, <2>1, JournalLen
       DEF PublicationsSound, OnePublicationPending, PendingPublications
  <2>3. InOrder(D) = <<n>>
    BY <2>2, InOrderOfOne
  <2> DEFINE verdict == PublicationVerdict(j, j[n], tree[w], record)
             e == Final(j[n], verdict)
  <2>4. f[1] = e
    BY <2>3
  <2>5. f = <<f[1]>>
    BY <2>3, MapOfOne
  <2>6. q = Append(j, e)
    BY <1>1, <1>2, <2>4, <2>5, ConcatOne
  <2>7. /\ e.type = "final" /\ e.op = j[n].op /\ e.epoch = j[n].epoch
        /\ e.committed <=> verdict = "committed"
    BY DEF Final
  <2>8. verdict = "committed" => j[n].epoch = record.epoch
    BY <1>1, <2>1 DEF PublicationsSound, PendingIsCurrent
  <2> HIDE DEF e, q, verdict
  <2>9. \A k \in Finals(j) : j[k].op # e.op
    BY <2>1, <2>7 DEF PendingPublications
  <2>10. PublicationsSound(q, record.epoch) /\ PendingPublications(q) = {}
    <3>1. {k \in D : j[k].op # e.op} = {}
      BY <2>2, <2>7
    <3>2. QED
      BY <1>1, <2>6, <2>7, <2>9, <3>1, FinalAppended
  <2>11. AttemptsSound(q) /\ PendingAttempts(q) = PendingAttempts(j)
    BY <1>1, <2>6, <2>7, OtherAppended
  <2>12. QED
    BY <2>6, <2>7, <2>8, <2>10, <2>11 DEF JournalSound, q
<1>5. QED
  BY <1>3, <1>4

\* Finalizations are notes about terminals that are there already.
LEMMA FinalizationsSteps ==
  ASSUME NEW j, NEW w, NEW epoch, JournalSound(j, epoch)
  PROVE  LET q == WithFinalizations(j, w)
         IN  /\ JournalSound(q, epoch)
             /\ PendingPublications(q) = PendingPublications(j)
             /\ PendingAttempts(q) = PendingAttempts(j)
             /\ \E x : /\ q = j \o x /\ IsJournal(x)
                       /\ \A k \in 1..Len(x) : x[k].type = "finalized"
<1> DEFINE q == WithFinalizations(j, w)
           seen == InOrder(Unfinalized(j, w))
           note(k) == [type |-> "finalized", item |-> ItemId, op |-> j[seen[k]].op]
           x == [k \in 1..Len(seen) |-> note(k)]
<1>1. IsJournal(j) /\ AttemptsSound(j) /\ PublicationsSound(j, epoch)
  BY DEF JournalSound, AttemptsSound
<1>2. q = j \o x
  BY DEF WithFinalizations
<1>3. Len(seen) \in Nat
  <2>1. Unfinalized(j, w) \in SUBSET (1..Len(j))
    BY DEF Unfinalized, CommittedFinals, Finals
  <2>2. QED
    BY <1>1, <2>1, InOrderIsJournal
<1>4. \A k : note(k).type = "finalized"
  OBVIOUS
<1> HIDE DEF note, seen
<1>5. DOMAIN x = 1..Len(seen) /\ x = [k \in 1..Len(seen) |-> x[k]]
      /\ \A k \in 1..Len(seen) : x[k].type = "finalized"
  BY <1>4
<1> HIDE DEF x, q
<1>6. IsJournal(x) /\ Len(x) = Len(seen)
  BY <1>3, <1>5, FunctionIsJournal
<1>7. \A k \in 1..Len(x) : x[k].type = "finalized"
  BY <1>5, <1>6
<1>8. AttemptsSound(q) /\ PendingAttempts(q) = PendingAttempts(j)
  BY <1>1, <1>2, <1>6, <1>7, OthersConcatenated
<1>9. PublicationsSound(q, epoch) /\ PendingPublications(q) = PendingPublications(j)
  BY <1>1, <1>2, <1>6, <1>7, OtherPublications
<1>10. QED
  BY <1>2, <1>6, <1>7, <1>8, <1>9 DEF JournalSound, q
-----------------------------------------------------------------------------
(* The invariant.                                                          *)

Lease == [owner : Client, epoch : Nat, expires : Nat]

StoreSound(st) ==
  /\ st \in [floor : Nat, record : [epoch : Nat, active : Lease \cup {NoClaim}]]
  /\ st.record.active # NoClaim => st.record.active.epoch = st.record.epoch

\* A request is filed under its operation.
AskedUnderItsOperation ==
  /\ DOMAIN asked = Operation
  /\ \A o \in Operation : asked[o] # NoOp => asked[o].op = o

\* A checkout grants a lease only after it ruled on the attempt that waited, and
\* no attempt is begun under a lease.
NoAttemptUnderLease ==
  PendingAttempts(journal) # {} => ~ Unexpired(store.record.active, store.floor)

\* The publication in the lock is the one that waits for its terminal.
PublicationUnderWay ==
  op # NoOp => /\ op = [intent |-> op.intent, phase |-> op.phase]
               /\ PendingPublications(journal) = {Len(journal)}
               /\ journal[Len(journal)] = op.intent
               /\ op.intent.epoch = store.record.epoch

IInv ==
  /\ StoreSound(store)
  /\ JournalSound(journal, store.record.epoch)
  /\ AskedUnderItsOperation
  /\ NoAttemptUnderLease
  /\ PublicationUnderWay

LEMMA InitIInv == Init => IInv
<1> SUFFICES ASSUME Init PROVE IInv
  OBVIOUS
<1>1. JournalSound(journal, store.record.epoch)
  BY NoPublications DEF Init
<1>2. StoreSound(store)
  BY DEF Init, StoreSound, EmptyStore, EmptyRecord
<1>3. AskedUnderItsOperation /\ PublicationUnderWay
  BY DEF Init, AskedUnderItsOperation, PublicationUnderWay
<1>4. NoAttemptUnderLease
  BY DEF Init, NoAttemptUnderLease, Unexpired, EmptyStore, EmptyRecord
<1>5. QED
  BY <1>1, <1>2, <1>3, <1>4 DEF IInv

\* What an entry that a step appends has to be: committed under the epoch of the
\* record, and an attempt's terminal or an adoption only without a live lease.
Rightful(e, floor) ==
  /\ e.type = "final" /\ e.committed => e.epoch = store.record.epoch
  /\ e.type \in {"legacy", "adoption"} => ~ Unexpired(store.record.active, floor)

RightlyExtended(j, floor) ==
  \A k \in 1..Len(j) : k > Len(journal) => Rightful(j[k], floor)

LEMMA RightlyAppended ==
  ASSUME NEW j, IsJournal(j), NEW floor, RightlyExtended(j, floor),
         NEW e, Rightful(e, floor)
  PROVE  RightlyExtended(Append(j, e), floor)
<1>1. /\ Len(j) \in Nat /\ Len(Append(j, e)) = Len(j) + 1
      /\ \A k \in 1..Len(j) : Append(j, e)[k] = j[k]
      /\ Append(j, e)[Len(j) + 1] = e
  BY JournalLen, JournalAppend
<1>2. ASSUME NEW k \in 1..Len(Append(j, e)), k > Len(journal)
      PROVE  Rightful(Append(j, e)[k], floor)
  <2>1. CASE k \in 1..Len(j)
    BY <1>1, <1>2, <2>1 DEF RightlyExtended
  <2>2. CASE k = Len(j) + 1
    BY <1>1, <2>2
  <2>3. QED
    BY <1>1, <2>1, <2>2
<1>3. QED
  BY <1>2 DEF RightlyExtended

\* Effective time only grows, and observing it touches no record.
LEMMA ObservedStore ==
  ASSUME StoreSound(store), NEW now \in Nat
  PROVE  LET st == Observed(now)
         IN  /\ StoreSound(st)
             /\ st.record = store.record
             /\ store.floor <= st.floor
             /\ AdvanceFloor(st.floor, now) = st.floor
<1>1. store.floor \in Nat
      /\ store \in [floor : Nat, record : [epoch : Nat, active : Lease \cup {NoClaim}]]
  BY DEF StoreSound
<1> DEFINE later == AdvanceFloor(store.floor, now)
<1>2. later \in Nat /\ store.floor <= later /\ AdvanceFloor(later, now) = later
  BY <1>1 DEF AdvanceFloor
<1>3. Observed(now) = [store EXCEPT !.floor = later]
  BY DEF Observed
<1> HIDE DEF later
<1>4. /\ Observed(now) \in [floor : Nat, record : [epoch : Nat, active : Lease \cup {NoClaim}]]
      /\ Observed(now).record = store.record
      /\ Observed(now).floor = later
  BY <1>1, <1>2, <1>3
<1>5. QED
  BY <1>2, <1>4 DEF StoreSound

\* What had expired stays expired.
LEMMA ExpiredForGood ==
  ASSUME StoreSound(store), NEW floor \in Nat, store.floor <= floor,
         ~ Unexpired(store.record.active, store.floor)
  PROVE  ~ Unexpired(store.record.active, floor)
<1>1. store.record.active # NoClaim => store.record.active.expires \in Nat
  BY DEF StoreSound, Lease
<1>2. store.floor \in Nat
  BY DEF StoreSound
<1>3. QED
  BY <1>1, <1>2 DEF Unexpired

Shown(w) == [i \in {ItemId} |-> tree[w]]

\* Reconciliation, as every command begins with it.
LEMMA ReconciledSteps ==
  ASSUME IInv, NEW w \in Worktree, NEW floor \in Nat, store.floor <= floor
  PROVE  LET j == Reconciled(w)
         IN  /\ JournalSound(j, store.record.epoch)
             /\ PendingPublications(j) = {}
             /\ PendingAttempts(j) = UnresolvedAttempts(journal, Shown(w))
             /\ PendingAttempts(j) # {} => ~ Unexpired(store.record.active, floor)
             /\ RightlyExtended(j, floor)
             /\ \A n \in PendingPublications(journal) : \E k \in Finals(j) : j[k].op = journal[n].op
<1> DEFINE epoch == store.record.epoch
           j1 == Resolved(journal, Shown(w))
           j2 == WithTerminals(j1, w, store.record)
           j3 == WithFinalizations(j2, w)
<1>0. epoch \in Nat /\ JournalSound(journal, epoch) /\ IsJournal(journal) /\ StoreSound(store)
      /\ Reconciled(w) = j3
  BY DEF IInv, StoreSound, JournalSound, AttemptsSound, Reconciled, Shown
<1>1. PendingAttempts(journal) # {} => ~ Unexpired(store.record.active, floor)
  BY <1>0, ExpiredForGood DEF IInv, NoAttemptUnderLease
<1>2. RightlyExtended(journal, floor)
  BY <1>0, JournalLen DEF RightlyExtended
<1>3. /\ JournalSound(j1, epoch)
      /\ PendingAttempts(j1) = UnresolvedAttempts(journal, Shown(w))
      /\ \/ j1 = journal
         \/ PendingAttempts(journal) # {} /\ \E e : /\ j1 = Append(journal, e)
                                                    /\ e.type \in {"legacy", "abort"}
  BY <1>0, ResolvedPublications
<1> HIDE DEF j1
<1>4. RightlyExtended(j1, floor)
  <2>1. ASSUME PendingAttempts(journal) # {}, NEW e, j1 = Append(journal, e),
               e.type \in {"legacy", "abort"}
        PROVE  RightlyExtended(j1, floor)
    <3>1. Rightful(e, floor)
      BY <1>1, <2>1 DEF Rightful
    <3>2. QED
      BY <1>0, <1>2, <2>1, <3>1, RightlyAppended
  <2>2. QED
    BY <1>2, <1>3, <2>1
<1>5. /\ JournalSound(j2, epoch)
      /\ PendingPublications(j2) = {}
      /\ PendingAttempts(j2) = PendingAttempts(j1)
      /\ \/ j2 = j1
         \/ \E e : /\ j2 = Append(j1, e)
                   /\ e.type = "final"
                   /\ e.committed => e.epoch = epoch
  BY <1>0, <1>3, TerminalsSteps
<1> HIDE DEF j2
<1>6. RightlyExtended(j2, floor)
  <2>1. ASSUME NEW e, j2 = Append(j1, e), e.type = "final", e.committed => e.epoch = epoch
        PROVE  RightlyExtended(j2, floor)
    <3>1. Rightful(e, floor)
      BY <2>1 DEF Rightful
    <3>2. QED
      BY <1>3, <1>4, <2>1, <3>1, RightlyAppended DEF JournalSound, AttemptsSound
  <2>2. QED
    BY <1>4, <1>5, <2>1
<1>7. /\ JournalSound(j3, epoch)
      /\ PendingPublications(j3) = {}
      /\ PendingAttempts(j3) = PendingAttempts(j2)
      /\ \E x : /\ j3 = j2 \o x /\ IsJournal(x)
                /\ \A k \in 1..Len(x) : x[k].type = "finalized"
  BY <1>5, FinalizationsSteps
<1> HIDE DEF j3
<1>8. RightlyExtended(j3, floor)
  <2>1. PICK x : /\ j3 = j2 \o x /\ IsJournal(x)
                 /\ \A k \in 1..Len(x) : x[k].type = "finalized"
    BY <1>7
  <2>2. IsJournal(j2) /\ Len(j2) \in Nat
    BY <1>5, JournalLen DEF JournalSound, AttemptsSound
  <2>3. ASSUME NEW k \in 1..Len(j3), k > Len(journal)
        PROVE  Rightful(j3[k], floor)
    <3>1. CASE k \in 1..Len(j2)
      BY <1>6, <2>1, <2>2, <2>3, <3>1, JournalConcat DEF RightlyExtended
    <3>2. CASE k \notin 1..Len(j2)
      <4>1. k \in (Len(j2) + 1)..Len(j2 \o x)
        BY <2>1, <2>2, <2>3, <3>2
      <4>2. j3[k].type = "finalized"
        BY <2>1, <2>2, <4>1, JournalConcat
      <4>3. QED
        BY <4>2 DEF Rightful
    <3>3. QED
      BY <3>1, <3>2
  <2>4. QED
    BY <2>3 DEF RightlyExtended
<1>9. /\ Len(journal) <= Len(j3)
      /\ \A n \in 1..Len(journal) : j3[n] = journal[n]
  <2>1. /\ Len(journal) <= Len(j1)
        /\ \A n \in 1..Len(journal) : j1[n] = journal[n]
    BY <1>0, <1>3, JournalLen, JournalAppend
  <2>2. /\ Len(j1) <= Len(j2)
        /\ \A n \in 1..Len(j1) : j2[n] = j1[n]
    BY <1>3, <1>5, JournalLen, JournalAppend DEF JournalSound, AttemptsSound
  <2>3. /\ Len(j2) <= Len(j3)
        /\ \A n \in 1..Len(j2) : j3[n] = j2[n]
    BY <1>5, <1>7, JournalLen, JournalConcat DEF JournalSound, AttemptsSound
  <2>4. Len(journal) \in Nat /\ Len(j1) \in Nat /\ Len(j2) \in Nat /\ Len(j3) \in Nat
    BY <1>0, <1>3, <1>5, <1>7, JournalLen DEF JournalSound, AttemptsSound
  <2> QED
    BY <2>1, <2>2, <2>3, <2>4
<1>10. ASSUME NEW n \in PendingPublications(journal)
       PROVE  \E k \in Finals(j3) : j3[k].op = journal[n].op
  <2>1. n \in 1..Len(journal) /\ journal[n].type = "publish"
    BY <1>10 DEF PendingPublications
  <2>2. n \in 1..Len(j3) /\ j3[n] = journal[n]
    BY <1>0, <1>7, <1>9, <2>1, JournalLen DEF JournalSound, AttemptsSound
  <2> QED
    BY <1>7, <2>1, <2>2 DEF PendingPublications
<1>11. QED
  BY <1>0, <1>1, <1>3, <1>5, <1>7, <1>8, <1>10 DEF UnresolvedAttempts
-----------------------------------------------------------------------------
(* The steps.                                                              *)

StepIsSound == IInv' /\ RightlyExtended(journal', store'.floor)

\* A step that leaves the journal and the store alone, and whose command, if
\* one is in the lock, is the same publication.
LEMMA SoundByRest ==
  ASSUME IInv, UNCHANGED <<journal, store, asked>>,
         \/ UNCHANGED op
         \/ op' = NoOp
         \/ op # NoOp /\ \E phase : op' = [intent |-> op.intent, phase |-> phase]
  PROVE  StepIsSound
<1>1. StoreSound(store)' /\ JournalSound(journal, store.record.epoch)'
      /\ AskedUnderItsOperation' /\ NoAttemptUnderLease'
  BY DEF IInv, StoreSound, JournalSound, AttemptsSound, IntentsNumbered, TerminalsFollow,
         OneAttemptPending, PendingAttempts, PublicationsSound, OnePublicationPending,
         OneOutcome, PendingIsCurrent, PendingPublications, Finals,
         AskedUnderItsOperation, NoAttemptUnderLease, Unexpired
<1>2. PublicationUnderWay'
  BY DEF IInv, PublicationUnderWay, PendingPublications, Finals
<1>3. RightlyExtended(journal', store'.floor)
  BY JournalLen DEF IInv, JournalSound, AttemptsSound, RightlyExtended
<1>4. QED
  BY <1>1, <1>2, <1>3 DEF IInv, StepIsSound

\* The terminal of the publication in the lock.
LEMMA ConcludeSound ==
  ASSUME IInv, NEW verdict, Conclude(verdict), op # NoOp
  PROVE  StepIsSound
<1> DEFINE e == Final(op.intent, verdict)
<1>1. /\ journal' = Append(journal, e) /\ op' = NoOp /\ UNCHANGED <<store, asked>>
      /\ StoreSound(store) /\ JournalSound(journal, store.record.epoch)
      /\ IsJournal(journal) /\ AttemptsSound(journal)
      /\ PublicationsSound(journal, store.record.epoch)
  BY DEF Conclude, IInv, JournalSound, AttemptsSound
<1>2. e.type = "final" /\ e.op = op.intent.op /\ e.epoch = op.intent.epoch
  BY DEF Final
<1> HIDE DEF e
<1>3. e.epoch = store.record.epoch /\ \A k \in Finals(journal) : journal[k].op # e.op
  BY <1>2 DEF IInv, PublicationUnderWay, PendingPublications
<1>4. JournalSound(journal', store.record.epoch)
  BY <1>1, <1>2, <1>3, FinalAppended, OtherAppended DEF JournalSound
<1>5. PendingAttempts(journal') = PendingAttempts(journal)
  BY <1>1, <1>2, OtherAppended
<1>6. RightlyExtended(journal', store'.floor)
  <2>1. RightlyExtended(journal, store.floor)
    BY <1>1, JournalLen DEF RightlyExtended
  <2>2. Rightful(e, store.floor)
    BY <1>2, <1>3 DEF Rightful
  <2>3. QED
    BY <1>1, <2>1, <2>2, RightlyAppended
<1>7. NoAttemptUnderLease'
  BY <1>1, <1>5 DEF IInv, NoAttemptUnderLease
<1>8. AskedUnderItsOperation' /\ PublicationUnderWay'
  BY <1>1 DEF IInv, AskedUnderItsOperation, PublicationUnderWay
<1>9. QED
  BY <1>1, <1>4, <1>6, <1>7, <1>8 DEF IInv, StepIsSound

\* A command that only reconciles: a refused one, and claim-verify.
LEMMA ReconcileSound ==
  ASSUME IInv, NEW w \in Worktree, NEW now \in Nat,
         journal' = Reconciled(w), store' = Observed(now), op' = NoOp,
         AskedUnderItsOperation'
  PROVE  StepIsSound
<1>1. /\ StoreSound(store) /\ StoreSound(store') /\ store'.record = store.record
      /\ store'.floor \in Nat /\ store.floor <= store'.floor
  BY ObservedStore DEF IInv, StoreSound
<1>2. /\ JournalSound(journal', store'.record.epoch)
      /\ PendingAttempts(journal') # {} => ~ Unexpired(store'.record.active, store'.floor)
      /\ RightlyExtended(journal', store'.floor)
  BY <1>1, ReconciledSteps
<1>3. NoAttemptUnderLease'
  BY <1>2 DEF NoAttemptUnderLease
<1>4. PublicationUnderWay'
  BY DEF PublicationUnderWay
<1>5. QED
  BY <1>1, <1>2, <1>3, <1>4 DEF IInv, StepIsSound

\* publish-claimed: refused, fenced off, or begun under the epoch of the record.
LEMMA BeginPublishSound ==
  ASSUME IInv, NEW o \in Operation, NEW w \in Worktree, NEW now \in 1..MaxTime,
         BeginPublish(o, w, now)
  PROVE  StepIsSound
<1> DEFINE j == Reconciled(w)
           st == Observed(now)
           epoch == store.record.epoch
<1>0. now \in Nat /\ StoreSound(store) /\ epoch \in Nat
  BY PublicationAssumption DEF IInv, StoreSound
<1>1. PICK request \in PublishRequests(o, w) :
        /\ asked' = [asked EXCEPT ![o] = request]
        /\ IF Unsafe(j, w, st) \/ Concluded(j, o)
           THEN journal' = j /\ op' = NoOp
           ELSE IF FenceHolds(request, st)
           THEN /\ journal' = Append(j, Intent(request, w))
                /\ op' = [intent |-> Intent(request, w), phase |-> "intended"]
           ELSE /\ journal' = Append(j, Final(Intent(request, w), "claim-fence-rejected"))
                /\ op' = NoOp
  BY DEF BeginPublish
<1>2. store' = st
  BY DEF BeginPublish
<1>3. request.op = o
  BY DEF PublishRequests, IInv, AskedUnderItsOperation
<1>4. AskedUnderItsOperation'
  BY <1>1, <1>3 DEF IInv, AskedUnderItsOperation
<1>5. /\ StoreSound(st) /\ st.record = store.record
      /\ st.floor \in Nat /\ store.floor <= st.floor
  BY <1>0, ObservedStore DEF StoreSound
<1>6. /\ JournalSound(j, epoch)
      /\ PendingPublications(j) = {}
      /\ PendingAttempts(j) # {} => ~ Unexpired(store.record.active, st.floor)
      /\ RightlyExtended(j, st.floor)
      /\ \A n \in PendingPublications(journal) : \E k \in Finals(j) : j[k].op = journal[n].op
  BY <1>5, ReconciledSteps
<1>7. IsJournal(j) /\ AttemptsSound(j) /\ PublicationsSound(j, epoch)
  BY <1>6 DEF JournalSound, AttemptsSound
<1> HIDE DEF j, st
<1>8. CASE Unsafe(j, w, st) \/ Concluded(j, o)
  BY <1>0, <1>1, <1>2, <1>4, <1>8, ReconcileSound DEF j, st
<1>9. CASE ~ (Unsafe(j, w, st) \/ Concluded(j, o)) /\ FenceHolds(request, st)
  <2> DEFINE e == Intent(request, w)
  <2>1. /\ e.type = "publish" /\ e.op = o /\ e.epoch = request.epoch /\ e.writer = w
    BY <1>3 DEF Intent
  <2>2. journal' = Append(j, e) /\ op' = [intent |-> e, phase |-> "intended"]
    BY <1>1, <1>9
  <2> HIDE DEF e
  <2>3. e.epoch = epoch
    BY <1>5, <1>9, <2>1 DEF FenceHolds, Unexpired, StoreSound
  <2>4. \A k \in Finals(j) : j[k].op # e.op
    BY <1>9, <2>1 DEF Concluded
  <2>5. /\ PublicationsSound(journal', epoch)
        /\ PendingPublications(journal') = {Len(j) + 1}
    BY <1>0, <1>6, <1>7, <2>1, <2>2, <2>3, <2>4, PublishAppended
  <2>6. AttemptsSound(journal') /\ PendingAttempts(journal') = PendingAttempts(j)
    BY <1>7, <2>1, <2>2, OtherAppended
  <2>7. Len(journal') = Len(j) + 1 /\ journal'[Len(journal')] = e
    BY <1>7, <2>2, JournalAppend
  <2>8. RightlyExtended(journal', st.floor)
    BY <1>6, <1>7, <2>1, <2>2, RightlyAppended DEF Rightful
  <2>9. PublicationUnderWay'
    <3>1. op'.intent = e /\ op' = [intent |-> op'.intent, phase |-> op'.phase]
      BY <2>2
    <3>2. QED
      BY <1>2, <1>5, <2>3, <2>5, <2>7, <3>1 DEF PublicationUnderWay
  <2>10. NoAttemptUnderLease'
    BY <1>2, <1>5, <1>6, <2>6 DEF NoAttemptUnderLease
  <2>11. QED
    BY <1>2, <1>4, <1>5, <2>5, <2>6, <2>8, <2>9, <2>10 DEF IInv, StepIsSound, JournalSound
<1>10. CASE ~ (Unsafe(j, w, st) \/ Concluded(j, o)) /\ ~ FenceHolds(request, st)
  <2> DEFINE e == Final(Intent(request, w), "claim-fence-rejected")
  <2>1. e.type = "final" /\ e.op = o /\ ~ e.committed
    BY <1>3 DEF Final, Intent
  <2>2. journal' = Append(j, e) /\ op' = NoOp
    BY <1>1, <1>10
  <2> HIDE DEF e
  <2>3. \A k \in Finals(j) : j[k].op # e.op
    BY <1>10, <2>1 DEF Concluded
  <2>4. PublicationsSound(journal', epoch)
    BY <1>7, <2>1, <2>2, <2>3, FinalAppended
  <2>5. AttemptsSound(journal') /\ PendingAttempts(journal') = PendingAttempts(j)
    BY <1>7, <2>1, <2>2, OtherAppended
  <2>6. RightlyExtended(journal', st.floor)
    <3>1. Rightful(e, st.floor)
      BY <1>6, <2>1, <2>3 DEF Rightful
    <3> QED
      BY <1>6, <1>7, <2>2, <3>1, RightlyAppended
  <2>7. NoAttemptUnderLease' /\ PublicationUnderWay'
    BY <1>2, <1>5, <1>6, <2>2, <2>5 DEF NoAttemptUnderLease, PublicationUnderWay
  <2>8. QED
    BY <1>2, <1>4, <1>5, <2>4, <2>5, <2>6, <2>7 DEF IInv, StepIsSound, JournalSound
<1>11. QED
  BY <1>8, <1>9, <1>10
\* claim-acquire and claim-release: only a grant touches the record, and only a
\* checkout that left no attempt waiting grants.
LEMMA ClaimSound ==
  ASSUME IInv, NEW c \in Client, NEW w \in Worktree, NEW cmd \in {"acquire", "release"},
         NEW dur \in Nat, NEW now \in Nat, Claim(c, w, cmd, dur, now)
  PROVE  StepIsSound
<1> DEFINE j == Reconciled(w)
           st == Observed(now)
           req == [cmd |-> cmd, owner |-> c, dur |-> dur,
                   expected |-> IF cmd = "acquire" THEN st.record ELSE fence[c]]
           granted == /\ cmd = "acquire" => ~ Unsafe(j, w, st)
                      /\ ClaimVerdict(st.record, req, st.floor) = "granted"
<1>1. /\ op = NoOp /\ UNCHANGED <<asked, op>>
      /\ journal' = j
      /\ store' = IF granted THEN ApplyClaim(st, req, now) ELSE st
  BY DEF Claim
<1>2. AskedUnderItsOperation' /\ PublicationUnderWay'
  BY <1>1 DEF IInv, AskedUnderItsOperation, PublicationUnderWay
<1>3. /\ StoreSound(store) /\ StoreSound(st) /\ st.record = store.record
      /\ st.floor \in Nat /\ store.floor <= st.floor
      /\ AdvanceFloor(st.floor, now) = st.floor
  BY ObservedStore DEF IInv, StoreSound
<1>4. /\ JournalSound(j, store.record.epoch)
      /\ PendingPublications(j) = {}
      /\ PendingAttempts(j) = UnresolvedAttempts(journal, Shown(w))
      /\ RightlyExtended(j, st.floor)
  BY <1>3, ReconciledSteps
<1>5. CASE ~ granted
  BY <1>1, <1>2, <1>5, ReconcileSound
<1>6. CASE granted
  <2> DEFINE r == GrantedRecord(st.record, req, st.floor)
  <2>1. req.cmd = cmd /\ req.owner = c /\ req.dur = dur
    OBVIOUS
  <2>2. cmd = "acquire" => PendingAttempts(j) = {}
    BY <1>4, <1>6 DEF Unsafe, Shown
  <2> HIDE DEF j, req
  <2>3. store' = [floor |-> st.floor, record |-> r]
    BY <1>1, <1>3, <1>6 DEF ApplyClaim
  <2>4. st.record \in [epoch : Nat, active : Lease \cup {NoClaim}]
    BY <1>3 DEF StoreSound
  <2> HIDE DEF st
  <2>5. /\ r \in [epoch : Nat, active : Lease \cup {NoClaim}]
        /\ r.active # NoClaim => r.active.epoch = r.epoch
        /\ cmd = "release" => r.active = NoClaim
    <3>1. CASE cmd = "acquire"
      <4> DEFINE lease == [owner |-> c, epoch |-> st.record.epoch + 1,
                           expires |-> st.floor + dur]
      <4>1. r = [epoch |-> st.record.epoch + 1, active |-> lease]
        BY <2>1, <3>1 DEF GrantedRecord
      <4>2. lease \in Lease /\ lease.epoch = st.record.epoch + 1 /\ st.record.epoch + 1 \in Nat
        BY <1>3, <2>4 DEF Lease
      <4> HIDE DEF lease, r
      <4>3. r.epoch = st.record.epoch + 1 /\ r.active = lease
        BY <4>1
      <4>4. QED
        BY <3>1, <4>1, <4>2, <4>3
    <3>2. CASE cmd = "release"
      <4>1. r = [st.record EXCEPT !.active = NoClaim]
        BY <2>1, <3>2 DEF GrantedRecord
      <4>2. QED
        BY <2>4, <4>1
    <3>3. QED
      BY <3>1, <3>2
  <2> HIDE DEF r
  <2>6. StoreSound(store') /\ store'.record = r /\ store'.floor = st.floor
    BY <1>3, <2>3, <2>5 DEF StoreSound
  <2>7. JournalSound(j, r.epoch)   \* nothing is pending to hold the old epoch
    BY <1>4 DEF JournalSound, PublicationsSound, PendingIsCurrent
  <2>8. NoAttemptUnderLease'
    BY <1>1, <2>2, <2>5, <2>6 DEF NoAttemptUnderLease, Unexpired
  <2>9. RightlyExtended(journal', store'.floor)
    BY <1>1, <1>4, <2>6
  <2>10. QED
    BY <1>1, <1>2, <2>6, <2>7, <2>8, <2>9 DEF IInv, StepIsSound
<1>7. QED
  BY <1>5, <1>6

\* claim-adopt: never under a lease.
LEMMA AdoptSound ==
  ASSUME IInv, NEW w \in Worktree, NEW now \in Nat, Adopt(w, now)
  PROVE  StepIsSound
<1> DEFINE j == Reconciled(w)
           st == Observed(now)
           e == [type |-> "adoption", item |-> ItemId,
                 from |-> ExpectedRevision(j, ItemId), revision |-> tree[w]]
<1>1. /\ op = NoOp /\ UNCHANGED <<asked, op>>
      /\ journal' = Append(j, e) /\ store' = st
      /\ ~ Unexpired(st.record.active, st.floor)
  BY DEF Adopt
<1>2. AskedUnderItsOperation' /\ PublicationUnderWay'
  BY <1>1 DEF IInv, AskedUnderItsOperation, PublicationUnderWay
<1>3. /\ StoreSound(st) /\ st.record = store.record
      /\ st.floor \in Nat /\ store.floor <= st.floor
  BY ObservedStore DEF IInv, StoreSound
<1>4. e.type = "adoption"
  OBVIOUS
<1> HIDE DEF e, st
<1>5. JournalSound(j, store.record.epoch) /\ RightlyExtended(j, st.floor)
  BY <1>3, ReconciledSteps
<1>6. IsJournal(j) /\ AttemptsSound(j) /\ PublicationsSound(j, store.record.epoch)
  BY <1>5 DEF JournalSound, AttemptsSound
<1> HIDE DEF j
<1>7. JournalSound(journal', store.record.epoch)
  BY <1>1, <1>4, <1>6, OtherPublication, OtherAppended DEF JournalSound
<1>8. Rightful(e, st.floor)
  BY <1>1, <1>3, <1>4 DEF Rightful
<1>9. RightlyExtended(journal', st.floor)
  BY <1>1, <1>5, <1>6, <1>8, RightlyAppended
<1>10. NoAttemptUnderLease'
  BY <1>1 DEF NoAttemptUnderLease
<1>11. QED
  BY <1>1, <1>2, <1>3, <1>7, <1>9, <1>10 DEF IInv, StepIsSound

\* A legacy mutation, done or dead: never under a lease, and with no other
\* attempt waiting.
LEMMA LegacyMutationSound ==
  ASSUME IInv, NEW w \in Worktree, NEW r, NEW now \in Nat, NEW dies, NEW written,
         LegacyMutation(w, r, now, dies, written)
  PROVE  StepIsSound
<1> DEFINE j == Reconciled(w)
           st == Observed(now)
           epoch == store.record.epoch
           intent == [type |-> "intent", item |-> ItemId, att |-> Len(j) + 1,
                      expected |-> tree[w], revision |-> r, writer |-> w, create |-> FALSE]
           done == Resolution(intent, "legacy")
<1>1. /\ op = NoOp /\ UNCHANGED <<asked, op>>
      /\ journal' = IF dies THEN Append(j, intent) ELSE j \o <<intent, done>>
      /\ store' = st
      /\ ~ Unsafe(j, w, st)
      /\ ~ Unexpired(st.record.active, st.floor)
  BY DEF LegacyMutation
<1>2. AskedUnderItsOperation' /\ PublicationUnderWay'
  BY <1>1 DEF IInv, AskedUnderItsOperation, PublicationUnderWay
<1>3. /\ StoreSound(st) /\ st.record = store.record
      /\ st.floor \in Nat /\ store.floor <= st.floor
  BY ObservedStore DEF IInv, StoreSound
<1>4. /\ intent.type = "intent" /\ intent.att = Len(j) + 1
      /\ done.type = "legacy" /\ done.att = Len(j) + 1
  BY DEF Resolution
<1> HIDE DEF intent, done
<1>5. /\ JournalSound(j, epoch) /\ RightlyExtended(j, st.floor)
      /\ PendingAttempts(j) = UnresolvedAttempts(journal, Shown(w))
  BY <1>3, ReconciledSteps
<1>6. PendingAttempts(j) = {}
  BY <1>1, <1>5 DEF Unsafe, Shown
<1>7. IsJournal(j) /\ AttemptsSound(j) /\ PublicationsSound(j, epoch) /\ Len(j) \in Nat
  BY <1>5, JournalLen DEF JournalSound, AttemptsSound
<1> HIDE DEF j, st
<1>8. Rightful(intent, st.floor) /\ Rightful(done, st.floor)
  BY <1>1, <1>3, <1>4 DEF Rightful
<1> DEFINE q == Append(j, intent)
<1>9. /\ AttemptsSound(q) /\ PendingAttempts(q) = {Len(j) + 1}
      /\ PublicationsSound(q, epoch) /\ IsJournal(q)
      /\ RightlyExtended(q, st.floor)
      /\ q[Len(j) + 1] = intent
  BY <1>4, <1>5, <1>6, <1>7, <1>8, IntentAppended, OtherPublication, RightlyAppended,
     JournalAppend
<1>10. j \o <<intent, done>> = Append(q, done)
  <2>1. PICK S : j \in Seq(S)
    BY <1>7 DEF IsJournal
  <2>2. j \in Seq(S \cup {intent, done})
    BY <2>1, SeqMonotonic
  <2>3. QED
    BY <2>2
<1> HIDE DEF q
<1>11. /\ AttemptsSound(Append(q, done))
       /\ PublicationsSound(Append(q, done), epoch)
       /\ RightlyExtended(Append(q, done), st.floor)
  <2>1. Len(j) + 1 \in PendingAttempts(q) /\ done.att = q[Len(j) + 1].att
    BY <1>4, <1>9
  <2>2. AttemptsSound(Append(q, done))
    BY <1>4, <1>9, <2>1, TerminalAppended
  <2>3. QED
    BY <1>4, <1>8, <1>9, <2>2, OtherPublication, RightlyAppended
<1>12. JournalSound(journal', epoch) /\ RightlyExtended(journal', st.floor)
  BY <1>1, <1>9, <1>10, <1>11 DEF JournalSound, q
<1>13. NoAttemptUnderLease'
  BY <1>1 DEF NoAttemptUnderLease
<1>14. QED
  BY <1>1, <1>2, <1>3, <1>12, <1>13 DEF IInv, StepIsSound

LEMMA NextSound == IInv /\ [Next]_vars => StepIsSound
<1> SUFFICES ASSUME IInv, [Next]_vars PROVE StepIsSound
  OBVIOUS
<1>0. 1..MaxTime \subseteq Nat /\ Duration \subseteq Nat
  BY PublicationAssumption
<1>1. CASE UNCHANGED vars
  BY <1>1, SoundByRest DEF vars
<1>2. ASSUME NEW o \in Operation, NEW w \in Worktree, NEW now \in 1..MaxTime,
             BeginPublish(o, w, now)
      PROVE  StepIsSound
  BY <1>2, BeginPublishSound
<1>3. CASE WriteCandidate
  <2>1. op # NoOp /\ op' = [op EXCEPT !.phase = "written"] /\ UNCHANGED <<journal, store, asked>>
    BY <1>3 DEF WriteCandidate
  <2>2. op = [intent |-> op.intent, phase |-> op.phase]
    BY <2>1 DEF IInv, PublicationUnderWay
  <2>3. op' = [intent |-> op.intent, phase |-> "written"]
    BY <2>1, <2>2
  <2>4. QED
    BY <2>1, <2>3, SoundByRest
<1>4. CASE RevisionConflict
  BY <1>4, ConcludeSound DEF RevisionConflict
<1>5. CASE WriteFails
  BY <1>5, ConcludeSound DEF WriteFails
<1>6. CASE RecordFinal
  BY <1>6, ConcludeSound DEF RecordFinal
<1>7. CASE Crash
  BY <1>7, SoundByRest DEF Crash
<1>8. ASSUME NEW c \in Client, NEW w \in Worktree, NEW now \in 1..MaxTime, NEW dur \in Duration,
             Claim(c, w, "acquire", dur, now)
      PROVE  StepIsSound
  BY <1>0, <1>8, ClaimSound
<1>9. ASSUME NEW c \in Client, NEW w \in Worktree, NEW now \in 1..MaxTime,
             Claim(c, w, "release", 0, now)
      PROVE  StepIsSound
  BY <1>0, <1>9, ClaimSound
<1>10. ASSUME NEW w \in Worktree, NEW now \in 1..MaxTime, ClaimVerify(w, now)
       PROVE  StepIsSound
  <2>1. /\ journal' = Reconciled(w) /\ store' = Observed(now) /\ op' = NoOp
        /\ UNCHANGED asked
    BY <1>10 DEF ClaimVerify
  <2>2. AskedUnderItsOperation'
    BY <2>1 DEF IInv, AskedUnderItsOperation
  <2>3. QED
    BY <1>0, <2>1, <2>2, ReconcileSound
<1>11. ASSUME NEW w \in Worktree, NEW now \in 1..MaxTime, Adopt(w, now)
       PROVE  StepIsSound
  BY <1>0, <1>11, AdoptSound
<1>12. ASSUME NEW w \in Worktree, NEW now \in 1..MaxTime, NEW r \in Revision,
              NEW dies \in BOOLEAN, NEW written \in BOOLEAN,
              LegacyMutation(w, r, now, dies, written)
       PROVE  StepIsSound
  BY <1>0, <1>12, LegacyMutationSound
<1>13. ASSUME NEW w \in Worktree, NEW v \in Worktree, GitMerge(w, v) PROVE StepIsSound
  BY <1>13, SoundByRest DEF GitMerge
<1>14. ASSUME NEW w \in Worktree, GitCommit(w) PROVE StepIsSound
  BY <1>14, SoundByRest DEF GitCommit
<1>15. ASSUME NEW w \in Worktree, NEW r \in Revision, ForeignEdit(w, r) PROVE StepIsSound
  BY <1>15, SoundByRest DEF ForeignEdit
<1>16. QED
  BY <1>1, <1>2, <1>3, <1>4, <1>5, <1>6, <1>7, <1>8, <1>9, <1>10, <1>11, <1>12, <1>13,
     <1>14, <1>15 DEF Next, Publish

LEMMA IInvIsInvariant == Spec => []IInv
<1>1. IInv /\ [Next]_vars => IInv'
  BY NextSound DEF StepIsSound
<1>2. QED
  BY InitIInv, <1>1, PTL DEF Spec

-----------------------------------------------------------------------------
(* What it shows.                                                          *)

\* An operation has one recorded outcome, however often publish-claimed is
\* retried and whichever command resolved it after a crash: every terminal goes
\* to a publication that waits, or follows a lookup that found none.
THEOREM OutcomesAreFinal == Spec => []OneOutcomePerOperation
<1>1. IInv => OneOutcomePerOperation
  BY DEF IInv, JournalSound, PublicationsSound, OneOutcome, OneOutcomePerOperation
<1>2. QED
  BY <1>1, IInvIsInvariant, PTL

\* No publication commits under an epoch that was superseded: not the one in the
\* lock, which keeps every claim command out, and not one that died, whose
\* recovery compares its epoch with the record first.
THEOREM CommitsNeedTheNewestEpoch == Spec => CommitsAreCurrent
<1>1. IInv /\ [Next]_vars =>
        [\A k \in Appended : journal'[k].type = "final" /\ journal'[k].committed
           => journal'[k].epoch = store.record.epoch]_vars
  BY NextSound DEF StepIsSound, RightlyExtended, Rightful, Appended
<1>2. QED
  BY <1>1, IInvIsInvariant, PTL DEF Spec, CommitsAreCurrent

\* While a lease is live, only publications under its own epoch change what the
\* journal authorizes for the item: legacy mutations and adoptions are refused,
\* and no attempt from before the lease is left for reconciliation to ratify.
THEOREM LeaseHoldsAuthority == Spec => AuthorityIsTheHolders
<1>1. IInv /\ [Next]_vars =>
        [Unexpired(store.record.active, store'.floor) =>
           \A k \in Appended : Authorizes(journal'[k], ItemId) =>
              journal'[k].type = "final"
              /\ journal'[k].epoch = store.record.active.epoch]_vars
  <2> SUFFICES ASSUME IInv, [Next]_vars, Unexpired(store.record.active, store'.floor),
                      NEW k \in Appended, Authorizes(journal'[k], ItemId)
               PROVE  journal'[k].type = "final"
                      /\ journal'[k].epoch = store.record.active.epoch
    OBVIOUS
  <2>1. Rightful(journal'[k], store'.floor)
    BY NextSound DEF StepIsSound, RightlyExtended, Appended
  <2>2. store.record.active.epoch = store.record.epoch
    BY DEF IInv, StoreSound, Unexpired
  <2>3. QED
    BY <2>1, <2>2 DEF Rightful, Authorizes
<1>2. QED
  BY <1>1, IInvIsInvariant, PTL DEF Spec, AuthorityIsTheHolders
=============================================================================
