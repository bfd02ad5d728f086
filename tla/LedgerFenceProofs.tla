-------------------------- MODULE LedgerFenceProofs --------------------------
(***************************************************************************)
(* Legacy mutations behind the fence, for any worktrees, items, bodies,    *)
(* crashes and edits: at most one attempt waits for its terminal, and what *)
(* the journal authorizes for an item is a chain, each ruling decided over *)
(* the one before it.                                                      *)
(*                                                                         *)
(* An attempt is decided at its intent and ruled on later, perhaps by      *)
(* another worktree and after a crash.  The invariant says of every intent *)
(* and every adoption what the journal up to it authorized, so appending   *)
(* an entry never touches what it says of the others; and it says that     *)
(* nothing but adoptions follows an intent that waits.                     *)
(*                                                                         *)
(* And, as long as every create ends with its terminal, no two items have  *)
(* one number.  A create chooses its number by its own checkout only; what *)
(* makes that enough is that the journal has ruled on every item there is, *)
(* in whichever checkout, so that the create barrier asks for all of them. *)
(***************************************************************************)
EXTENDS LedgerFence, ReconciliationProofs, WellFoundedInduction

Prefix(j, m) == SubSeq(j, 1, m)

-----------------------------------------------------------------------------
(* What is true of every journal the fence writes.                         *)

\* No publication: nobody claims an item here.
LegacyEntries(j) ==
  \A k \in 1..Len(j) : j[k].type \in {"intent", "legacy", "abort", "adoption"}

\* A ruling is about the item of its intent.
TerminalsName(j) ==
  \A k \in 1..Len(j) : j[k].type = "legacy" =>
     j[j[k].att].type = "intent" /\ j[j[k].att].item = j[k].item

\* Only an item a mutation has ruled on can be adopted.
AdoptedIsCoordinated(j) ==
  \A k \in 1..Len(j) : j[k].type = "adoption" => j[k].item \in CoordinatedItems(j)

OverLatest(j, i, revision) ==
  AuthorizingEntries(j, i) # {} => revision = ExpectedRevision(j, i)

IntentsOverLatest(j) ==
  \A k \in 1..Len(j) : j[k].type = "intent" =>
     OverLatest(Prefix(j, k - 1), j[k].item, j[k].expected)

AdoptionsOverLatest(j) ==
  \A k \in 1..Len(j) : j[k].type = "adoption" =>
     OverLatest(Prefix(j, k - 1), j[k].item, j[k].from)

\* While an attempt waits, and until its terminal, there are only adoptions.
OnlyAdoptionsWhilePending(j) ==
  \A n \in PendingAttempts(j) : \A m \in 1..Len(j) : m > n => j[m].type = "adoption"

OnlyAdoptionsBetween(j) ==
  \A k \in 1..Len(j) : j[k].type = "legacy" =>
     \A m \in 1..Len(j) : m > j[k].att /\ m < k => j[m].type = "adoption"

LedgerSound(j) ==
  /\ AttemptsSound(j)
  /\ LegacyEntries(j)
  /\ TerminalsName(j)
  /\ AdoptedIsCoordinated(j)
  /\ IntentsOverLatest(j)
  /\ AdoptionsOverLatest(j)
  /\ OnlyAdoptionsWhilePending(j)
  /\ OnlyAdoptionsBetween(j)

LEMMA EmptyLedgerSound == LedgerSound(<<>>)
BY NoAttempts, EmptyJournal
   DEF LedgerSound, LegacyEntries, TerminalsName, AdoptedIsCoordinated, IntentsOverLatest,
       AdoptionsOverLatest, OnlyAdoptionsWhilePending, OnlyAdoptionsBetween, PendingAttempts

\* An item the journal has ruled on is one that reconciliation compares.
LEMMA RuledIsCoordinated ==
  ASSUME NEW j, LedgerSound(j), NEW i, AuthorizingEntries(j, i) # {}
  PROVE  i \in CoordinatedItems(j)
<1>1. PICK k \in 1..Len(j) : Authorizes(j[k], i)
  BY DEF AuthorizingEntries
<1>2. j[k].item = i /\ j[k].type \in {"legacy", "adoption"}
  BY <1>1 DEF Authorizes, LedgerSound, LegacyEntries
<1>3. CASE j[k].type = "legacy"
  BY <1>2, <1>3 DEF CoordinatedItems
<1>4. CASE j[k].type = "adoption"
  BY <1>2, <1>4 DEF LedgerSound, AdoptedIsCoordinated
<1>5. QED
  BY <1>2, <1>3, <1>4

\* What holds of the entries that are there, whatever is appended.
LEMMA EntriesKept ==
  ASSUME NEW j, LedgerSound(j), NEW e
  PROVE  LET q == Append(j, e)
         IN  /\ IsJournal(j) /\ Len(j) \in Nat /\ Len(q) = Len(j) + 1
             /\ \A k \in 1..Len(j) : q[k] = j[k]
             /\ q[Len(j) + 1] = e
             /\ \A k \in 1..Len(j) : Prefix(q, k - 1) = Prefix(j, k - 1)
             /\ Prefix(q, Len(j)) = j
             /\ CoordinatedItems(j) \subseteq CoordinatedItems(q)
<1> DEFINE q == Append(j, e)
<1>1. IsJournal(j) /\ Len(j) \in Nat
  BY JournalLen DEF LedgerSound, AttemptsSound
<1>2. /\ Len(q) = Len(j) + 1
      /\ \A k \in 1..Len(j) : q[k] = j[k]
      /\ q[Len(j) + 1] = e
  BY <1>1, JournalAppend
<1>3. \A m \in 0..Len(j) : Prefix(q, m) = Prefix(j, m)
  BY <1>1, PrefixKept DEF Prefix
<1>4. Prefix(j, Len(j)) = j
  BY <1>1, WholePrefix DEF Prefix
<1> HIDE DEF q
<1>5. \A k \in 1..Len(j) : Prefix(q, k - 1) = Prefix(j, k - 1)
  BY <1>1, <1>3
<1>6. Prefix(q, Len(j)) = j
  BY <1>1, <1>3, <1>4
<1>7. CoordinatedItems(j) \subseteq CoordinatedItems(q)
  BY <1>1, <1>2 DEF CoordinatedItems
<1>8. QED
  BY <1>1, <1>2, <1>5, <1>6, <1>7 DEF q

\* Appending an entry keeps the ledger sound when the entry itself is.
LEMMA SoundAppended ==
  ASSUME NEW j, LedgerSound(j), NEW e, AttemptsSound(Append(j, e)),
         e.type \in {"intent", "legacy", "abort", "adoption"},
         e.type = "legacy" => /\ e.att \in 1..Len(j)
                              /\ j[e.att].type = "intent" /\ j[e.att].item = e.item
                              /\ e.att \in PendingAttempts(j),
         e.type = "adoption" => /\ e.item \in CoordinatedItems(j)
                                /\ OverLatest(j, e.item, e.from),
         e.type = "intent" => OverLatest(j, e.item, e.expected),
         e.type # "adoption" =>
           PendingAttempts(Append(j, e)) \subseteq {Len(j) + 1},
         e.type = "adoption" => PendingAttempts(Append(j, e)) \subseteq PendingAttempts(j)
  PROVE  LedgerSound(Append(j, e))
<1> DEFINE q == Append(j, e)
           last == Len(j) + 1
<1>1. /\ Len(j) \in Nat /\ Len(q) = last
      /\ \A k \in 1..Len(j) : q[k] = j[k]
      /\ q[last] = e
      /\ \A k \in 1..Len(j) : Prefix(q, k - 1) = Prefix(j, k - 1)
      /\ Prefix(q, Len(j)) = j
      /\ CoordinatedItems(j) \subseteq CoordinatedItems(q)
  BY EntriesKept
<1>2. last - 1 = Len(j) /\ \A k \in 1..Len(q) : k \in 1..Len(j) \/ k = last
  BY <1>1
<1>3. AttemptsSound(q) /\ PendingAttempts(j) \subseteq 1..Len(j)
      /\ (e.type # "adoption" => PendingAttempts(q) \subseteq {last})
      /\ (e.type = "adoption" => PendingAttempts(q) \subseteq PendingAttempts(j))
  BY DEF PendingAttempts
<1> HIDE DEF q, last
<1>4. LegacyEntries(q)
  BY <1>1, <1>2 DEF LedgerSound, LegacyEntries
<1>5. TerminalsName(q)
  <2>1. ASSUME NEW k \in 1..Len(j), j[k].type = "legacy"
        PROVE  j[k].att \in 1..Len(j)
               /\ j[j[k].att].type = "intent" /\ j[j[k].att].item = j[k].item
    <3>1. j[k].att \in 1..(k - 1)
      BY <2>1 DEF LedgerSound, AttemptsSound, TerminalsFollow
    <3>2. QED
      BY <1>1, <2>1, <3>1 DEF LedgerSound, TerminalsName
  <2>2. QED
    BY <1>1, <1>2, <2>1 DEF TerminalsName
<1>6. AdoptedIsCoordinated(q)
  BY <1>1, <1>2 DEF LedgerSound, AdoptedIsCoordinated
<1>7. IntentsOverLatest(q)
  BY <1>1, <1>2 DEF LedgerSound, IntentsOverLatest
<1>8. AdoptionsOverLatest(q)
  BY <1>1, <1>2 DEF LedgerSound, AdoptionsOverLatest
<1>9. OnlyAdoptionsWhilePending(q)
  <2>1. CASE e.type # "adoption"
    <3>1. \A n \in PendingAttempts(q) : n = last
      BY <1>3, <2>1
    <3>2. QED
      BY <1>1, <1>2, <3>1 DEF OnlyAdoptionsWhilePending
  <2>2. CASE e.type = "adoption"
    <3>1. \A n \in PendingAttempts(q) : n \in PendingAttempts(j)
      BY <1>3, <2>2
    <3>2. QED
      BY <1>1, <1>2, <2>2, <3>1 DEF LedgerSound, OnlyAdoptionsWhilePending
  <2>3. QED
    BY <2>1, <2>2
<1>10. OnlyAdoptionsBetween(q)
  <2>1. ASSUME NEW k \in 1..Len(q), q[k].type = "legacy",
               NEW m \in 1..Len(q), m > q[k].att, m < k
        PROVE  q[m].type = "adoption"
    <3>0. m \in 1..Len(j) /\ q[m] = j[m]
      BY <1>1, <1>2, <2>1
    <3>1. CASE k \in 1..Len(j)
      BY <1>1, <2>1, <3>0, <3>1 DEF LedgerSound, OnlyAdoptionsBetween
    <3>2. CASE k = last
      BY <1>1, <2>1, <3>0, <3>2 DEF LedgerSound, OnlyAdoptionsWhilePending
    <3>3. QED
      BY <1>2, <3>1, <3>2
  <2>2. QED
    BY <2>1 DEF OnlyAdoptionsBetween
<1>11. QED
  BY <1>3, <1>4, <1>5, <1>6, <1>7, <1>8, <1>9, <1>10 DEF LedgerSound, q
\* The terminal of the attempt that waits, whoever appends it.
LEMMA ResolutionSound ==
  ASSUME NEW j, LedgerSound(j), NEW n \in PendingAttempts(j), NEW v \in {"legacy", "abort"}
  PROVE  LET q == Append(j, Resolution(j[n], v))
         IN  LedgerSound(q) /\ PendingAttempts(q) = {}
<1> DEFINE e == Resolution(j[n], v)
<1>1. /\ e.type = v /\ e.att = j[n].att /\ e.item = j[n].item
  BY DEF Resolution
<1>2. n \in 1..Len(j) /\ j[n].type = "intent" /\ j[n].att = n
  BY DEF PendingAttempts, LedgerSound, AttemptsSound, IntentsNumbered
<1> HIDE DEF e
<1>3. AttemptsSound(Append(j, e)) /\ PendingAttempts(Append(j, e)) = {}
  BY <1>1, TerminalAppended DEF LedgerSound
<1>4. LedgerSound(Append(j, e))
  BY <1>1, <1>2, <1>3, SoundAppended
<1>5. QED
  BY <1>3, <1>4 DEF e

\* Every command begins by reconciling, and that keeps the ledger sound.
LEMMA ResolvedSound ==
  ASSUME NEW j, LedgerSound(j), NEW t
  PROVE  /\ LedgerSound(Resolved(j, t))
         /\ UnresolvedAttempts(Resolved(j, t), t) = {} => PendingAttempts(Resolved(j, t)) = {}
<1>1. AttemptsSound(j)
  BY DEF LedgerSound
<1>2. CASE Resolved(j, t) = j /\ PendingAttempts(j) = UnresolvedAttempts(j, t)
  BY <1>2
<1>3. ASSUME NEW n \in PendingAttempts(j), NEW v \in {"legacy", "abort"},
             Resolved(j, t) = Append(j, Resolution(j[n], v))
      PROVE  LedgerSound(Resolved(j, t)) /\ PendingAttempts(Resolved(j, t)) = {}
  BY <1>3, ResolutionSound
<1>4. QED
  BY <1>1, <1>2, <1>3, ResolvedSteps

-----------------------------------------------------------------------------
(* The invariant.                                                          *)

OpRecord(o) ==
  o = [wt |-> o.wt, item |-> o.item, create |-> o.create, phase |-> o.phase,
       witness |-> o.witness, candidate |-> o.candidate, att |-> o.att]

\* The command in the lock found no attempt waiting and the latest ruling in its
\* checkout; once it has its intent, that is the attempt that waits.
CommandHoldsTheFence ==
  op # NoOp =>
    /\ OpRecord(op)
    /\ op.phase = "fenced" => /\ PendingAttempts(journal) = {}
                              /\ OverLatest(journal, op.item, op.witness)
    /\ op.phase # "fenced" => op.att \in PendingAttempts(journal)

IInv == LedgerSound(journal) /\ CommandHoldsTheFence

LEMMA InitIInv == Init => IInv
BY EmptyLedgerSound DEF Init, IInv, CommandHoldsTheFence

LEMMA BeginSound ==
  ASSUME IInv, NEW w \in Worktree, NEW i \in Item, NEW create \in BOOLEAN, Begin(w, i, create)
  PROVE  IInv'
<1> DEFINE j == Resolved(journal, tree[w])
           refused == Unsafe(j, w, i) \/ (create /\ MissingCoordinatedItems(j, w) # {})
           new == [wt |-> w, item |-> i, create |-> create, phase |-> "fenced",
                   witness |-> tree[w][i], candidate |-> Absent, att |-> 0]
<1>1. journal' = j /\ op' = IF refused THEN NoOp ELSE new
  BY DEF Begin
<1>2. /\ LedgerSound(j)
      /\ UnresolvedAttempts(j, tree[w]) = {} => PendingAttempts(j) = {}
  BY ResolvedSound DEF IInv
<1> HIDE DEF j
<1>3. CASE refused
  BY <1>1, <1>2, <1>3 DEF IInv, CommandHoldsTheFence
<1>4. CASE ~ refused
  <2>1. ~ Unsafe(j, w, i)
    BY <1>4
  <2>2. PendingAttempts(j) = {}
    BY <1>2, <2>1 DEF Unsafe
  <2>3. i \notin Drifted(j, w)
    <3>1. FindingScope(j, w, i) \in {"global", "target"}
      BY DEF FindingScope, Scope
    <3>2. BlocksTarget(FindingScope(j, w, i), i, i, NoOp)
      BY <3>1 DEF BlocksTarget
    <3>3. QED
      BY <2>1, <3>2 DEF Unsafe
  <2>4. OverLatest(j, i, tree[w][i])
    <3>1. CASE AuthorizingEntries(j, i) # {}
      <4>1. i \in CoordinatedItems(j)
        BY <1>2, <3>1, RuledIsCoordinated
      <4>2. tree[w][i] = ExpectedRevision(j, i)
        BY <2>3, <4>1 DEF Drifted
      <4>3. QED
        BY <4>2 DEF OverLatest
    <3>2. QED
      BY <3>1 DEF OverLatest
  <2>5. /\ OpRecord(new) /\ new.phase = "fenced" /\ new.item = i /\ new.witness = tree[w][i]
    BY DEF OpRecord
  <2> HIDE DEF new
  <2>6. op' = new /\ journal' = j
    BY <1>1, <1>4
  <2>7. CommandHoldsTheFence'
    BY <2>2, <2>4, <2>5, <2>6 DEF CommandHoldsTheFence
  <2>8. QED
    BY <1>2, <2>6, <2>7 DEF IInv
<1>5. QED
  BY <1>3, <1>4

LEMMA AuthorizeSound ==
  ASSUME IInv, NEW body \in Body, Authorize(body)
  PROVE  IInv'
<1> DEFINE candidate == IF op.create
                        THEN [num |-> NextItemNumber(tree[op.wt]), body |-> body]
                        ELSE [op.witness EXCEPT !.body = body]
           intent == [type |-> "intent", item |-> op.item, att |-> Len(journal) + 1,
                      expected |-> op.witness, revision |-> candidate,
                      writer |-> op.wt, create |-> op.create]
<1>1. /\ op # NoOp /\ op.phase = "fenced"
      /\ journal' = Append(journal, intent)
      /\ op' = [op EXCEPT !.phase = "authorized", !.candidate = candidate, !.att = intent.att]
  BY DEF Authorize
<1>2. /\ intent.type = "intent" /\ intent.item = op.item /\ intent.att = Len(journal) + 1
      /\ intent.expected = op.witness
  OBVIOUS
<1> HIDE DEF intent, candidate
<1>3. /\ LedgerSound(journal) /\ AttemptsSound(journal)
      /\ PendingAttempts(journal) = {} /\ OverLatest(journal, op.item, op.witness)
      /\ OpRecord(op)
  BY <1>1 DEF IInv, CommandHoldsTheFence, LedgerSound
<1>4. /\ AttemptsSound(journal') /\ PendingAttempts(journal') = {Len(journal) + 1}
  BY <1>1, <1>2, <1>3, IntentAppended
<1>5. LedgerSound(journal')
  BY <1>1, <1>2, <1>3, <1>4, SoundAppended
<1>6. OpRecord(op') /\ op'.phase = "authorized" /\ op'.att = Len(journal) + 1
  BY <1>1, <1>2, <1>3 DEF OpRecord
<1>7. CommandHoldsTheFence'
  BY <1>4, <1>6 DEF CommandHoldsTheFence
<1>8. QED
  BY <1>5, <1>7 DEF IInv

LEMMA RecordSound == IInv /\ Record => IInv'
<1> SUFFICES ASSUME IInv, Record PROVE IInv'
  OBVIOUS
<1> DEFINE v == IF op.phase = "verified" THEN "legacy" ELSE "abort"
<1>1. /\ op # NoOp /\ op.phase \in {"verified", "failed"} /\ op' = NoOp
      /\ journal' = Append(journal, Resolution(journal[op.att], v))
  BY DEF Record
<1>2. op.att \in PendingAttempts(journal) /\ LedgerSound(journal)
  BY <1>1 DEF IInv, CommandHoldsTheFence
<1>3. v \in {"legacy", "abort"}
  OBVIOUS
<1> HIDE DEF v
<1>4. LedgerSound(journal')
  BY <1>1, <1>2, <1>3, ResolutionSound
<1>5. QED
  BY <1>1, <1>4 DEF IInv, CommandHoldsTheFence

LEMMA AdoptSound ==
  ASSUME IInv, NEW w \in Worktree, NEW i \in Item, Adopt(w, i)
  PROVE  IInv'
<1> DEFINE j == Resolved(journal, tree[w])
           e == [type |-> "adoption", item |-> i,
                 from |-> ExpectedRevision(j, i), revision |-> tree[w][i]]
<1>1. /\ op = NoOp /\ op' = NoOp /\ AuthorizingEntries(j, i) # {}
      /\ journal' = Append(j, e)
  BY DEF Adopt
<1>2. e.type = "adoption" /\ e.item = i /\ e.from = ExpectedRevision(j, i)
  OBVIOUS
<1>3. LedgerSound(j)
  BY ResolvedSound DEF IInv
<1> HIDE DEF e, j
<1>4. AttemptsSound(j) /\ i \in CoordinatedItems(j) /\ OverLatest(j, i, e.from)
  BY <1>1, <1>2, <1>3, RuledIsCoordinated DEF LedgerSound, OverLatest
<1>5. AttemptsSound(journal') /\ PendingAttempts(journal') = PendingAttempts(j)
  BY <1>1, <1>2, <1>4, OtherAppended
<1>6. LedgerSound(journal')
  BY <1>1, <1>2, <1>3, <1>4, <1>5, SoundAppended
<1>7. QED
  BY <1>1, <1>6 DEF IInv, CommandHoldsTheFence

\* A step that leaves the journal alone, and in which the command keeps its
\* phase, leaves the lock, or goes from one phase after its intent to another.
LEMMA SoundByRest ==
  ASSUME IInv, UNCHANGED journal,
         \/ UNCHANGED op
         \/ op' = NoOp
         \/ /\ op # NoOp /\ op.phase # "fenced"
            /\ \E phase \in {"published", "failed", "verified"} :
                 op' = [op EXCEPT !.phase = phase]
  PROVE  IInv'
<1>1. LedgerSound(journal')
  BY DEF IInv
<1>2. CASE UNCHANGED op
  BY <1>1, <1>2 DEF IInv, CommandHoldsTheFence, OpRecord, OverLatest, AuthorizingEntries,
                    ExpectedRevision, PendingAttempts
<1>3. CASE op' = NoOp
  BY <1>1, <1>3 DEF IInv, CommandHoldsTheFence
<1>4. ASSUME op # NoOp, op.phase # "fenced",
             NEW phase \in {"published", "failed", "verified"},
             op' = [op EXCEPT !.phase = phase]
      PROVE  IInv'
  <2>1. OpRecord(op) /\ op.att \in PendingAttempts(journal)
    BY <1>4 DEF IInv, CommandHoldsTheFence
  <2>2. OpRecord(op') /\ op'.phase = phase /\ op'.att = op.att
    BY <1>4, <2>1 DEF OpRecord
  <2>3. op'.att \in PendingAttempts(journal)' /\ op'.phase # "fenced"
    BY <1>4, <2>1, <2>2
  <2>4. CommandHoldsTheFence'
    BY <2>2, <2>3 DEF CommandHoldsTheFence
  <2>5. QED
    BY <1>1, <2>4 DEF IInv
<1>5. QED
  BY <1>2, <1>3, <1>4

LEMMA NextSound == IInv /\ [Next]_vars => IInv'
<1> SUFFICES ASSUME IInv, [Next]_vars PROVE IInv'
  OBVIOUS
<1>1. CASE UNCHANGED vars
  BY <1>1, SoundByRest DEF vars
<1>2. ASSUME NEW w \in Worktree, NEW i \in Item, NEW create \in BOOLEAN, Begin(w, i, create)
      PROVE  IInv'
  BY <1>2, BeginSound
<1>3. ASSUME NEW body \in Body, Authorize(body) PROVE IInv'
  BY <1>3, AuthorizeSound
<1>4. CASE Refuse
  BY <1>4, SoundByRest DEF Refuse
<1>5. CASE Publish
  BY <1>5, SoundByRest DEF Publish
<1>6. CASE PublishFails
  BY <1>6, SoundByRest DEF PublishFails
<1>7. CASE Verify
  BY <1>7, SoundByRest DEF Verify
<1>8. CASE Record
  BY <1>8, RecordSound
<1>9. CASE Crash
  BY <1>9, SoundByRest DEF Crash
<1>10. ASSUME NEW w \in Worktree, ClaimVerify(w) PROVE IInv'
  <2>1. journal' = Resolved(journal, tree[w]) /\ op = NoOp /\ op' = NoOp
    BY <1>10 DEF ClaimVerify
  <2>2. QED
    BY <2>1, ResolvedSound DEF IInv, CommandHoldsTheFence
<1>11. ASSUME NEW w \in Worktree, NEW i \in Item, Adopt(w, i) PROVE IInv'
  BY <1>11, AdoptSound
<1>12. ASSUME NEW w \in Worktree, NEW i \in Item, GitCommit(w, i) \/ Restore(w, i) PROVE IInv'
  BY <1>12, SoundByRest DEF GitCommit, Restore
<1>13. ASSUME NEW w \in Worktree, NEW v \in Worktree, GitMerge(w, v) PROVE IInv'
  BY <1>13, SoundByRest DEF GitMerge
<1>14. ASSUME NEW w \in Worktree, NEW i \in Item, NEW body \in Body, ForeignEdit(w, i, body)
       PROVE  IInv'
  BY <1>14, SoundByRest DEF ForeignEdit
<1>15. QED
  BY <1>1, <1>2, <1>3, <1>4, <1>5, <1>6, <1>7, <1>8, <1>9, <1>10, <1>11, <1>12, <1>13,
     <1>14 DEF Next, Mutation

LEMMA IInvIsInvariant == Spec => []IInv
<1>1. QED
  BY InitIInv, NextSound, PTL DEF Spec

-----------------------------------------------------------------------------
(* What it shows.                                                          *)

\* At most one attempt waits for its terminal, in any number of worktrees and
\* after any number of crashes: a worktree that cannot rule on the attempt of a
\* dead writer is refused, so it never starts a second one.
THEOREM OneAttemptAtATime == Spec => []AtMostOnePendingAttempt
<1>1. IInv => AtMostOnePendingAttempt
  <2> SUFFICES ASSUME IInv PROVE AtMostOnePendingAttempt
    OBVIOUS
  <2>1. \A k, n \in PendingAttempts(journal) : k = n
    BY DEF IInv, LedgerSound, AttemptsSound, OneAttemptPending
  <2>2. PendingAttempts(journal) = {} \/ \E n : PendingAttempts(journal) = {n}
    BY <2>1
  <2> DEFINE P == PendingAttempts(journal)
  <2> HIDE DEF P
  <2>3. Cardinality(P) = 0 \/ Cardinality(P) = 1
    <3>1. CASE P = {}
      BY <3>1, FS_EmptySet
    <3>2. ASSUME NEW n, P = {n} PROVE Cardinality(P) = 1
      BY <3>2, FS_Singleton
    <3>3. QED
      BY <2>2, <3>1, <3>2 DEF P
  <2>4. QED
    BY <2>3 DEF AtMostOnePendingAttempt, P
<1>2. QED
  BY <1>1, IInvIsInvariant, PTL

\* No lost update across worktrees: every ruling was decided over the latest one
\* before it, and between an intent and its terminal nothing but an operator's
\* adoption was ruled on, even when another worktree wrote that terminal.
THEOREM RulingsFormAChain == Spec => []AuthorizedChain
<1>1. IInv => AuthorizedChain
  <2> SUFFICES ASSUME IInv, NEW i \in Item, NEW k \in AuthorizingEntries(journal, i)
               PROVE  LET before == SubSeq(journal, 1, Decided(journal, k) - 1)
                      IN  /\ AuthorizingEntries(before, i) # {} =>
                               Predecessor(journal, k) = ExpectedRevision(before, i)
                          /\ \A n \in AuthorizingEntries(journal, i) :
                               n > Decided(journal, k) /\ n < k
                                 => journal[n].type = "adoption"
    BY DEF AuthorizedChain
  <2>1. /\ LedgerSound(journal) /\ Len(journal) \in Nat
        /\ k \in 1..Len(journal) /\ journal[k].item = i
        /\ journal[k].type \in {"legacy", "adoption"}
        /\ AuthorizingEntries(journal, i) \subseteq 1..Len(journal)
    BY JournalLen DEF IInv, LedgerSound, AttemptsSound, LegacyEntries, AuthorizingEntries,
                      Authorizes
  <2>2. CASE journal[k].type = "adoption"
    <3>1. Decided(journal, k) = k /\ Predecessor(journal, k) = journal[k].from
      BY <2>2 DEF Decided, Predecessor
    <3>2. OverLatest(Prefix(journal, k - 1), i, journal[k].from)
      BY <2>1, <2>2 DEF LedgerSound, AdoptionsOverLatest
    <3>3. \A n \in AuthorizingEntries(journal, i) : ~ (n > k /\ n < k)
      BY <2>1
    <3>4. QED
      BY <3>1, <3>2, <3>3 DEF OverLatest, Prefix
  <2>3. CASE journal[k].type = "legacy"
    <3> DEFINE d == journal[k].att
    <3>1. d \in 1..Len(journal) /\ journal[d].type = "intent" /\ journal[d].item = i
          /\ journal[d].att = d
      <4>1. d \in 1..(k - 1)
        BY <2>1, <2>3 DEF LedgerSound, AttemptsSound, TerminalsFollow
      <4>2. d \in 1..Len(journal)
        BY <2>1, <4>1
      <4>3. QED
        BY <2>1, <2>3, <4>2 DEF LedgerSound, TerminalsName, AttemptsSound, IntentsNumbered
    <3>2. \A n \in 1..Len(journal) : journal[n].type = "intent" /\ journal[n].att = d => n = d
      BY <2>1 DEF LedgerSound, AttemptsSound, IntentsNumbered
    <3>3. Decided(journal, k) = d /\ Predecessor(journal, k) = journal[d].expected
      BY <2>3, <3>1, <3>2 DEF Decided, Predecessor
    <3>4. OverLatest(Prefix(journal, d - 1), i, journal[d].expected)
      BY <2>1, <3>1 DEF LedgerSound, IntentsOverLatest
    <3>5. \A n \in AuthorizingEntries(journal, i) : n > d /\ n < k
                                                    => journal[n].type = "adoption"
      BY <2>1, <2>3 DEF LedgerSound, OnlyAdoptionsBetween
    <3>6. QED
      BY <3>3, <3>4, <3>5 DEF OverLatest, Prefix
  <2>4. QED
    BY <2>1, <2>2, <2>3
<1>2. QED
  BY <1>1, IInvIsInvariant, PTL

-----------------------------------------------------------------------------
(* Numbers, as long as no create ends without its terminal.                *)

Placed == [Worktree -> [Item -> Content \cup {Absent}]]

\* The contents of an item in the working trees and at the HEADs.
Anywhere(i) ==
  {c \in Content : \E w \in Worktree : tree[w][i] = c \/ head[w][i] = c}

FileTypes ==
  /\ tree \in Placed /\ head \in Placed
  /\ op \in Command \cup {NoOp}

\* Nobody deletes an item, so none that is committed is missing in the checkout.
CommittedIsThere ==
  \A w \in Worktree, i \in Item : head[w][i] # Absent => tree[w][i] # Absent

\* Contents have one number exactly when they are contents of one item.
NumbersTell ==
  \A a, b \in Item : \A x \in Anywhere(a), y \in Anywhere(b) : x.num = y.num <=> a = b

NumbersBounded ==
  \A i \in Item : \A x \in Anywhere(i) : x.num <= Len(journal)

\* The create between its publication and its terminal.
NotYetRuled(i) ==
  op # NoOp /\ op.create /\ op.phase \in {"published", "verified"} /\ op.item = i

\* An item that is anywhere is one the create barrier asks for.
FoundIsCoordinated ==
  \A i \in Item : Anywhere(i) # {} => i \in CoordinatedItems(journal) \/ NotYetRuled(i)

\* A create that passed the barrier: its checkout has every coordinated item; once
\* it chose a number, its item is nowhere and nobody has that number; once it is
\* published, nothing else is known of the item.
CreateIsAlone ==
  op # NoOp /\ op.create =>
    /\ op.phase = "fenced" => CoordinatedItems(journal) \cap Item \subseteq Present(tree[op.wt])
    /\ op.phase = "authorized" =>
         \A i \in Item : \A x \in Anywhere(i) : i # op.item /\ x.num # op.candidate.num
    /\ op.phase = "failed" => Anywhere(op.item) = {}
    /\ op.phase \in {"published", "verified"} =>
         tree[op.wt][op.item] = op.candidate /\ Anywhere(op.item) \subseteq {op.candidate}

\* A rewrite keeps the number of its item.
RewriteKeepsNumber ==
  op # NoOp /\ ~ op.create /\ op.phase # "fenced" =>
    /\ Anywhere(op.item) # {}
    /\ \A x \in Anywhere(op.item) : x.num = op.candidate.num

CandidateIsRecorded ==
  op # NoOp /\ op.phase # "fenced" =>
    /\ op.candidate \in Content /\ op.candidate.num <= Len(journal)
    /\ journal[op.att].item = op.item

NumberInv ==
  /\ FileTypes
  /\ CommittedIsThere
  /\ NumbersTell
  /\ NumbersBounded
  /\ FoundIsCoordinated
  /\ CreateIsAlone
  /\ RewriteKeepsNumber
  /\ CandidateIsRecorded

-----------------------------------------------------------------------------
(* The next number.                                                        *)

\* A set of numbers that has a bound has a greatest one.
LEMMA GreatestOfBounded ==
  ASSUME NEW S \in SUBSET Nat, S # {}, NEW n \in Nat, \A x \in S : x <= n
  PROVE  Max(S) \in S /\ \A x \in S : x <= Max(S)
<1> DEFINE T == {b \in Nat : b <= n /\ n - b \in S}
<1>1. T # {}
  <2>1. PICK x \in S : TRUE
    OBVIOUS
  <2>2. n - x \in Nat /\ n - x <= n /\ n - (n - x) = x
    BY <2>1
  <2> QED
    BY <2>1, <2>2
<1>2. PICK b \in T : \A c \in T : ~ (<<c, b>> \in OpToRel(<, Nat))
  <2> HIDE DEF T
  <2>1. T \subseteq Nat
    BY DEF T
  <2> QED
    BY <1>1, <2>1, NatLessThanWellFounded, WFMin
<1>3. b \in Nat /\ b <= n /\ n - b \in S
  OBVIOUS
<1>4. \A x \in S : x <= n - b
  <2> SUFFICES ASSUME NEW x \in S, x > n - b PROVE FALSE
    BY <1>3
  <2>1. n - x \in Nat /\ n - x <= n /\ n - (n - x) = x /\ n - x < b
    BY <1>3
  <2>2. n - x \in T
    BY <2>1
  <2> QED
    BY <1>2, <1>3, <2>1, <2>2 DEF OpToRel
<1>5. \E x \in S : \A y \in S : x >= y
  BY <1>3, <1>4
<1>6. Max(S) \in S /\ \A y \in S : Max(S) >= y
  BY <1>5 DEF Max
<1> QED
  BY <1>6

\* A create takes a number that no item of its checkout has.
LEMMA NextNumberIsNew ==
  ASSUME NEW t \in [Item -> Content \cup {Absent}], NEW n \in Nat,
         \A i \in Present(t) : t[i].num <= n
  PROVE  /\ NextItemNumber(t) \in Nat
         /\ NextItemNumber(t) <= n + 1
         /\ \A i \in Present(t) : t[i].num < NextItemNumber(t)
<1> DEFINE S == {t[i].num : i \in Present(t)}
<1>1. \A i \in Present(t) : t[i].num \in Nat
  BY DEF Present, Content
<1>2. CASE Present(t) = {}
  BY <1>2 DEF NextItemNumber
<1>3. CASE Present(t) # {}
  <2>1. S \in SUBSET Nat /\ S # {} /\ \A x \in S : x <= n
    BY <1>1, <1>3
  <2>2. Max(S) \in S /\ \A x \in S : x <= Max(S)
    <3> HIDE DEF S
    <3> QED
      BY <2>1, GreatestOfBounded
  <2>3. NextItemNumber(t) = 1 + Max(S)
    BY <1>3 DEF NextItemNumber
  <2>4. \A i \in Present(t) : t[i].num <= Max(S)
    BY <2>2
  <2>5. Max(S) \in Nat /\ Max(S) <= n
    BY <2>1, <2>2
  <2> HIDE DEF S
  <2> QED
    BY <1>1, <2>3, <2>4, <2>5
<1> QED
  BY <1>2, <1>3

-----------------------------------------------------------------------------
(* Steps of the files and of the command.                                  *)

LEMMA InitNumbers == Init => NumberInv
<1> SUFFICES ASSUME Init PROVE NumberInv
  OBVIOUS
<1>1. /\ tree = [w \in Worktree |-> [i \in Item |-> Absent]]
      /\ head = tree /\ op = NoOp
  BY DEF Init
<1>2. FileTypes /\ CommittedIsThere
  BY <1>1 DEF FileTypes, Placed, CommittedIsThere
<1>3. \A i \in Item : Anywhere(i) = {}
  BY <1>1, FenceAssumption DEF Anywhere
<1>4. NumbersTell /\ NumbersBounded /\ FoundIsCoordinated
  BY <1>3 DEF NumbersTell, NumbersBounded, FoundIsCoordinated
<1>5. CreateIsAlone /\ RewriteKeepsNumber /\ CandidateIsRecorded
  BY <1>1 DEF CreateIsAlone, RewriteKeepsNumber, CandidateIsRecorded
<1> QED
  BY <1>2, <1>4, <1>5 DEF NumberInv

\* What is in a checkout or at a HEAD is somewhere.
LEMMA Somewhere ==
  ASSUME FileTypes, NEW w \in Worktree, NEW i \in Item
  PROVE  /\ tree[w][i] # Absent => tree[w][i] \in Anywhere(i)
         /\ head[w][i] # Absent => head[w][i] \in Anywhere(i)
BY DEF FileTypes, Placed, Anywhere

\* Git moves contents of an item between working trees and HEADs and loses none.
LEMMA FilesMoved ==
  ASSUME NumberInv, UNCHANGED <<journal, op>>, tree' \in Placed, head' \in Placed,
         \A i \in Item : Anywhere(i)' \subseteq Anywhere(i),
         \A w \in Worktree, i \in Item : tree[w][i] # Absent => tree'[w][i] # Absent,
         CommittedIsThere'
  PROVE  NumberInv'
<1>1. FileTypes' /\ op' = op /\ journal' = journal
  BY DEF NumberInv, FileTypes
<1>2. NumbersTell' /\ NumbersBounded'
  BY <1>1 DEF NumberInv, NumbersTell, NumbersBounded
<1>3. FoundIsCoordinated'
  <2>1. \A i : NotYetRuled(i)' = NotYetRuled(i)
    BY <1>1 DEF NotYetRuled
  <2>2. CoordinatedItems(journal)' = CoordinatedItems(journal)
    BY <1>1
  <2> QED
    BY <2>1, <2>2 DEF NumberInv, FoundIsCoordinated
<1>4. op # NoOp => op.wt \in Worktree /\ op.item \in Item
  BY DEF NumberInv, FileTypes, Command
<1>5. CreateIsAlone'
  <2> SUFFICES ASSUME op # NoOp, op.create
      PROVE  /\ op.phase = "fenced" => CoordinatedItems(journal) \cap Item \subseteq Present(tree'[op.wt])
             /\ op.phase = "authorized" =>
                  \A i \in Item : \A x \in Anywhere(i)' : i # op.item /\ x.num # op.candidate.num
             /\ op.phase = "failed" => Anywhere(op.item)' = {}
             /\ op.phase \in {"published", "verified"} =>
                  tree'[op.wt][op.item] = op.candidate /\ Anywhere(op.item)' \subseteq {op.candidate}
    BY <1>1 DEF CreateIsAlone
  <2>1. op.phase = "fenced" => CoordinatedItems(journal) \cap Item \subseteq Present(tree'[op.wt])
    BY <1>4 DEF NumberInv, CreateIsAlone, Present
  <2>2. op.phase = "authorized" =>
          \A i \in Item : \A x \in Anywhere(i)' : i # op.item /\ x.num # op.candidate.num
    BY DEF NumberInv, CreateIsAlone
  <2>3. op.phase = "failed" => Anywhere(op.item)' = {}
    BY <1>4 DEF NumberInv, CreateIsAlone
  <2>4. ASSUME op.phase \in {"published", "verified"}
        PROVE  tree'[op.wt][op.item] = op.candidate /\ Anywhere(op.item)' \subseteq {op.candidate}
    <3>1. tree[op.wt][op.item] = op.candidate /\ Anywhere(op.item) \subseteq {op.candidate}
      BY <2>4 DEF NumberInv, CreateIsAlone
    <3>2. op.candidate # Absent
      BY <2>4, FenceAssumption DEF NumberInv, CandidateIsRecorded
    <3>3. tree'[op.wt][op.item] # Absent
      BY <1>4, <3>1, <3>2
    <3>4. tree'[op.wt][op.item] \in Anywhere(op.item)'
      BY <1>1, <1>4, <3>3 DEF FileTypes, Placed, Anywhere
    <3> QED
      BY <1>4, <3>1, <3>4
  <2> QED
    BY <2>1, <2>2, <2>3, <2>4
<1>6. RewriteKeepsNumber'
  <2> SUFFICES ASSUME op # NoOp, ~ op.create, op.phase # "fenced"
      PROVE  /\ Anywhere(op.item)' # {}
             /\ \A x \in Anywhere(op.item)' : x.num = op.candidate.num
    BY <1>1 DEF RewriteKeepsNumber
  <2>1. Anywhere(op.item) # {} /\ \A x \in Anywhere(op.item) : x.num = op.candidate.num
    BY DEF NumberInv, RewriteKeepsNumber
  <2>2. PICK w \in Worktree : tree[w][op.item] # Absent
    <3>1. PICK w \in Worktree : tree[w][op.item] # Absent \/ head[w][op.item] # Absent
      BY <2>1, FenceAssumption DEF Anywhere
    <3> QED
      BY <1>4, <3>1 DEF NumberInv, CommittedIsThere
  <2>3. tree'[w][op.item] \in Anywhere(op.item)'
    BY <1>1, <1>4, <2>2 DEF FileTypes, Placed, Anywhere
  <2> QED
    BY <1>4, <2>1, <2>3
<1>7. CandidateIsRecorded'
  BY <1>1 DEF NumberInv, CandidateIsRecorded
<1> QED
  BY <1>1, <1>2, <1>3, <1>5, <1>6, <1>7 DEF NumberInv

\* The command goes on to another phase.
LEMMA CommandMoves ==
  ASSUME NEW o \in Command, NEW p \in {"published", "failed", "verified"},
         NEW q, q = [o EXCEPT !.phase = p]
  PROVE  /\ q \in Command /\ q # NoOp
         /\ q.wt = o.wt /\ q.item = o.item /\ q.create = o.create
         /\ q.phase = p /\ q.candidate = o.candidate /\ q.att = o.att
<1>1. /\ q.wt = o.wt /\ q.item = o.item /\ q.create = o.create
      /\ q.phase = p /\ q.candidate = o.candidate /\ q.att = o.att
  BY DEF Command
<1>2. q \in Command
  BY DEF Command
<1> QED
  BY <1>1, <1>2, FenceAssumption

LEMMA BoundGrows ==
  ASSUME NumbersBounded, UNCHANGED <<tree, head>>,
         Len(journal) \in Nat, Len(journal') \in Nat, Len(journal) <= Len(journal')
  PROVE  NumbersBounded'
<1> SUFFICES ASSUME NEW i \in Item, NEW x \in Anywhere(i) PROVE x.num <= Len(journal')
  BY DEF NumbersBounded, Anywhere
<1>1. x.num <= Len(journal)
  BY DEF NumbersBounded
<1>2. x.num \in Nat
  BY DEF Anywhere, Content
<1> QED
  BY <1>1, <1>2

\* The journal grew and the command left the lock.
LEMMA CommandLeft ==
  ASSUME NumberInv, UNCHANGED <<tree, head>>, op' = NoOp,
         Len(journal) \in Nat, Len(journal') \in Nat, Len(journal) <= Len(journal'),
         CoordinatedItems(journal) \subseteq CoordinatedItems(journal'),
         \A i \in Item : Anywhere(i) # {} /\ NotYetRuled(i) => i \in CoordinatedItems(journal')
  PROVE  NumberInv'
<1>1. /\ FileTypes' /\ CommittedIsThere'
      /\ \A i : Anywhere(i)' = Anywhere(i)
  BY DEF NumberInv, FileTypes, CommittedIsThere, Anywhere
<1>2. NumbersTell'
  BY <1>1 DEF NumberInv, NumbersTell
<1>3. NumbersBounded'
  BY BoundGrows DEF NumberInv
<1>4. FoundIsCoordinated'
  BY <1>1 DEF NumberInv, FoundIsCoordinated
<1>5. CreateIsAlone' /\ RewriteKeepsNumber' /\ CandidateIsRecorded'
  BY DEF CreateIsAlone, RewriteKeepsNumber, CandidateIsRecorded
<1> QED
  BY <1>1, <1>2, <1>3, <1>4, <1>5 DEF NumberInv

\* A content of item i is written in a checkout: no other item has its number, and
\* what is there of the item has it too.
LEMMA FileWritten ==
  ASSUME tree \in Placed, CommittedIsThere, NumbersTell, NumbersBounded,
         NEW w \in Worktree, NEW i \in Item, NEW c \in Content,
         tree' \in Placed, UNCHANGED <<journal, head>>,
         \A v \in Worktree, k \in Item :
           tree'[v][k] = IF v = w /\ k = i THEN c ELSE tree[v][k],
         c.num <= Len(journal),
         \A k \in Item : \A x \in Anywhere(k) : c.num = x.num <=> i = k
  PROVE  /\ CommittedIsThere' /\ NumbersTell' /\ NumbersBounded'
         /\ \A k \in Item \ {i} : Anywhere(k)' = Anywhere(k)
         /\ Anywhere(i)' \subseteq Anywhere(i) \cup {c}
         /\ c \in Anywhere(i)'
         /\ tree'[w][i] = c
<1>1. tree'[w][i] = c
  OBVIOUS
<1>2. CommittedIsThere'
  BY FenceAssumption DEF CommittedIsThere
<1>3. \A k \in Item \ {i} : Anywhere(k)' = Anywhere(k)
  BY DEF Anywhere
<1>4. Anywhere(i)' \subseteq Anywhere(i) \cup {c}
  BY DEF Anywhere
<1>5. c \in Anywhere(i)'
  BY <1>1 DEF Anywhere
<1>6. \A k \in Item : \A x \in Anywhere(k)' : x \in Anywhere(k) \/ (k = i /\ x = c)
  BY <1>3, <1>4
<1>7. NumbersTell'
  <2> SUFFICES ASSUME NEW a \in Item, NEW b \in Item, NEW x \in Anywhere(a)', NEW y \in Anywhere(b)'
               PROVE  x.num = y.num <=> a = b
    BY DEF NumbersTell
  <2>1. CASE x \in Anywhere(a) /\ y \in Anywhere(b)
    BY <2>1 DEF NumbersTell
  <2>2. CASE a = i /\ x = c /\ y \in Anywhere(b)
    BY <2>2
  <2>3. CASE x \in Anywhere(a) /\ b = i /\ y = c
    BY <2>3
  <2>4. CASE a = i /\ x = c /\ b = i /\ y = c
    BY <2>4
  <2> QED
    BY <1>6, <2>1, <2>2, <2>3, <2>4
<1>8. NumbersBounded'
  BY <1>6 DEF NumbersBounded
<1> QED
  BY <1>1, <1>2, <1>3, <1>4, <1>5, <1>7, <1>8

\* The journal after reconciliation.
LEMMA ResolvedGrows ==
  ASSUME NEW j, LedgerSound(j), NEW t
  PROVE  /\ Len(j) \in Nat /\ Len(Resolved(j, t)) \in Nat
         /\ Len(j) <= Len(Resolved(j, t))
         /\ CoordinatedItems(j) \subseteq CoordinatedItems(Resolved(j, t))
<1>1. AttemptsSound(j) /\ Len(j) \in Nat
  BY JournalLen DEF LedgerSound, AttemptsSound
<1>2. CASE Resolved(j, t) = j
  BY <1>1, <1>2
<1>3. ASSUME NEW e, Resolved(j, t) = Append(j, e)
      PROVE  Len(Resolved(j, t)) = Len(j) + 1
             /\ CoordinatedItems(j) \subseteq CoordinatedItems(Resolved(j, t))
  BY <1>3, EntriesKept
<1>4. Resolved(j, t) = j \/ \E e : Resolved(j, t) = Append(j, e)
  BY <1>1, ResolvedSteps
<1> QED
  BY <1>1, <1>2, <1>3, <1>4

LEMMA BeginNumbers ==
  ASSUME IInv, NumberInv, NEW w \in Worktree, NEW i \in Item, NEW create \in BOOLEAN,
         Begin(w, i, create)
  PROVE  NumberInv'
<1> DEFINE j == Resolved(journal, tree[w])
           refused == Unsafe(j, w, i) \/ (create /\ MissingCoordinatedItems(j, w) # {})
           new == [wt |-> w, item |-> i, create |-> create, phase |-> "fenced",
                   witness |-> tree[w][i], candidate |-> Absent, att |-> 0]
<1>1. /\ op = NoOp /\ journal' = j /\ op' = IF refused THEN NoOp ELSE new
      /\ UNCHANGED <<tree, head>>
  BY DEF Begin
<1>2. /\ Len(journal) \in Nat /\ Len(journal') \in Nat /\ Len(journal) <= Len(journal')
      /\ CoordinatedItems(journal) \subseteq CoordinatedItems(journal')
  BY <1>1, ResolvedGrows DEF IInv
<1>3. \A k : ~ NotYetRuled(k)
  BY <1>1 DEF NotYetRuled
<1>4. CASE refused
  <2>1. op' = NoOp
    BY <1>1, <1>4
  <2> QED
    BY <1>1, <1>2, <1>3, <2>1, CommandLeft
<1>5. CASE ~ refused
  <2>1. /\ new.wt = w /\ new.item = i /\ new.create = create /\ new.phase = "fenced"
        /\ create => MissingCoordinatedItems(j, w) = {}
    BY <1>5
  <2>0. new \in Command
    <3>1. tree[w][i] \in Content \cup {Absent}
      BY DEF NumberInv, FileTypes, Placed
    <3> QED
      BY <3>1 DEF Command
  <2> HIDE DEF new, refused, j
  <2>2. op' = new
    BY <1>1, <1>5
  <2>3. FileTypes' /\ CommittedIsThere'
    BY <1>1, <2>0, <2>2 DEF NumberInv, FileTypes, CommittedIsThere
  <2>4. \A k : Anywhere(k)' = Anywhere(k)
    BY <1>1 DEF Anywhere
  <2>5. NumbersTell' /\ FoundIsCoordinated'
    BY <1>2, <1>3, <2>4 DEF NumberInv, NumbersTell, FoundIsCoordinated
  <2>6. NumbersBounded'
    BY <1>1, <1>2, BoundGrows DEF NumberInv
  <2>7. create => CoordinatedItems(j) \cap Item \subseteq Present(tree[w])
    BY <2>1 DEF MissingCoordinatedItems, Present
  <2>8. CreateIsAlone'
    BY <1>1, <2>1, <2>2, <2>7 DEF CreateIsAlone, Present
  <2>9. RewriteKeepsNumber' /\ CandidateIsRecorded'
    BY <2>1, <2>2 DEF RewriteKeepsNumber, CandidateIsRecorded
  <2> QED
    BY <2>3, <2>5, <2>6, <2>8, <2>9 DEF NumberInv
<1> QED
  BY <1>4, <1>5

LEMMA AuthorizeNumbers ==
  ASSUME IInv, NumberInv, NEW body \in Body, Authorize(body)
  PROVE  NumberInv'
<1> DEFINE candidate == IF op.create
                        THEN [num |-> NextItemNumber(tree[op.wt]), body |-> body]
                        ELSE [op.witness EXCEPT !.body = body]
           intent == [type |-> "intent", item |-> op.item, att |-> Len(journal) + 1,
                      expected |-> op.witness, revision |-> candidate,
                      writer |-> op.wt, create |-> op.create]
<1>1. /\ op # NoOp /\ op.phase = "fenced"
      /\ tree[op.wt][op.item] = op.witness
      /\ op.create <=> op.witness = Absent
      /\ journal' = Append(journal, intent)
      /\ op' = [op EXCEPT !.phase = "authorized", !.candidate = candidate, !.att = intent.att]
      /\ UNCHANGED <<tree, head>>
  BY DEF Authorize
<1>2. /\ op \in Command /\ op.wt \in Worktree /\ op.item \in Item
      /\ tree[op.wt] \in [Item -> Content \cup {Absent}]
  BY <1>1 DEF NumberInv, FileTypes, Placed, Command
<1>3. intent.item = op.item /\ intent.att = Len(journal) + 1
  OBVIOUS
<1>4. \A k \in Item : Anywhere(k) # {} => k \in CoordinatedItems(journal)
  BY <1>1 DEF NumberInv, FoundIsCoordinated, NotYetRuled
<1>5. Len(journal) \in Nat /\ Len(journal') = Len(journal) + 1
      /\ journal'[Len(journal) + 1] = intent
      /\ CoordinatedItems(journal) \subseteq CoordinatedItems(journal')
  <2> HIDE DEF intent
  <2> QED
    BY <1>1, EntriesKept DEF IInv
<1>6. CASE op.create
  <2>1. candidate = [num |-> NextItemNumber(tree[op.wt]), body |-> body]
    BY <1>6
  <2>2. \A k \in Present(tree[op.wt]) : tree[op.wt][k] \in Anywhere(k) /\ k \in Item
    BY <1>2, Somewhere DEF NumberInv, Present
  <2>3. \A k \in Present(tree[op.wt]) : tree[op.wt][k].num <= Len(journal)
    BY <2>2 DEF NumberInv, NumbersBounded
  <2>4. /\ NextItemNumber(tree[op.wt]) \in Nat
        /\ NextItemNumber(tree[op.wt]) <= Len(journal) + 1
        /\ \A k \in Present(tree[op.wt]) : tree[op.wt][k].num < NextItemNumber(tree[op.wt])
    BY <1>2, <1>5, <2>3, NextNumberIsNew
  <2>5. candidate \in Content /\ candidate.num = NextItemNumber(tree[op.wt])
    BY <2>1, <2>4 DEF Content
  <2>6. ASSUME NEW k \in Item, NEW x \in Anywhere(k)
        PROVE  k # op.item /\ x.num # candidate.num
    <3>1. k \in Present(tree[op.wt])
      BY <1>1, <1>4, <1>6, <2>6 DEF NumberInv, CreateIsAlone
    <3>2. tree[op.wt][k] \in Anywhere(k) /\ tree[op.wt][k].num < candidate.num
      BY <2>2, <2>4, <2>5, <3>1
    <3>3. x.num = tree[op.wt][k].num
      BY <2>6, <3>2 DEF NumberInv, NumbersTell
    <3>4. k # op.item
      BY <1>1, <1>6, <3>1 DEF Present
    <3>5. x.num \in Nat /\ candidate.num \in Nat
      BY <2>4, <2>5 DEF Anywhere, Content
    <3> QED
      BY <3>2, <3>3, <3>4, <3>5
  <2> HIDE DEF candidate, intent
  <2>7. /\ op'.wt = op.wt /\ op'.item = op.item /\ op'.create = op.create
        /\ op'.phase = "authorized" /\ op'.candidate = candidate /\ op'.att = Len(journal) + 1
        /\ op' \in Command
    <3>1. Len(journal) + 1 \in Nat
      BY <1>5
    <3>2. op' = [op EXCEPT !.phase = "authorized", !.candidate = candidate,
                           !.att = Len(journal) + 1]
      BY <1>1, <1>3
    <3>3. op \in Command /\ candidate \in Content
      BY <1>2, <2>5
    <3>4. op'.wt = op.wt /\ op'.item = op.item /\ op'.create = op.create
      BY <3>2, <3>3 DEF Command
    <3>5. op'.phase = "authorized" /\ op'.candidate = candidate /\ op'.att = Len(journal) + 1
      BY <3>2, <3>3 DEF Command
    <3>6. op' \in Command
      BY <3>1, <3>2, <3>3 DEF Command
    <3> QED
      BY <3>4, <3>5, <3>6
  <2>8. \A k : Anywhere(k)' = Anywhere(k)
    BY <1>1 DEF Anywhere
  <2>9. FileTypes' /\ CommittedIsThere'
    BY <1>1, <2>7 DEF NumberInv, FileTypes, CommittedIsThere
  <2>10. NumbersTell' /\ FoundIsCoordinated'
    BY <1>4, <1>5, <2>8 DEF NumberInv, NumbersTell, FoundIsCoordinated
  <2>11. NumbersBounded'
    BY <1>1, <1>5, BoundGrows DEF NumberInv
  <2>12. CreateIsAlone'
    BY <2>6, <2>7, <2>8 DEF CreateIsAlone
  <2>13. RewriteKeepsNumber'
    BY <1>6, <2>7 DEF RewriteKeepsNumber
  <2>14. CandidateIsRecorded'
    BY <1>3, <1>5, <2>4, <2>5, <2>7 DEF CandidateIsRecorded
  <2> QED
    BY <2>9, <2>10, <2>11, <2>12, <2>13, <2>14 DEF NumberInv
<1>7. CASE ~ op.create
  <2>1. candidate = [op.witness EXCEPT !.body = body]
    BY <1>7
  <2>2. op.witness \in Content /\ op.witness \in Anywhere(op.item)
    BY <1>1, <1>2, <1>7, Somewhere DEF NumberInv
  <2>3. candidate \in Content /\ candidate.num = op.witness.num
    BY <2>1, <2>2 DEF Content
  <2>4. candidate.num <= Len(journal)
    BY <1>2, <2>2, <2>3 DEF NumberInv, NumbersBounded
  <2>5. \A x \in Anywhere(op.item) : x.num = candidate.num
    BY <1>2, <2>2, <2>3 DEF NumberInv, NumbersTell
  <2> HIDE DEF candidate, intent
  <2>6. /\ op'.wt = op.wt /\ op'.item = op.item /\ op'.create = op.create
        /\ op'.phase = "authorized" /\ op'.candidate = candidate /\ op'.att = Len(journal) + 1
        /\ op' \in Command
    <3>1. Len(journal) + 1 \in Nat
      BY <1>5
    <3>2. op' = [op EXCEPT !.phase = "authorized", !.candidate = candidate,
                           !.att = Len(journal) + 1]
      BY <1>1, <1>3
    <3>3. op \in Command /\ candidate \in Content
      BY <1>2, <2>3
    <3>4. op'.wt = op.wt /\ op'.item = op.item /\ op'.create = op.create
      BY <3>2, <3>3 DEF Command
    <3>5. op'.phase = "authorized" /\ op'.candidate = candidate /\ op'.att = Len(journal) + 1
      BY <3>2, <3>3 DEF Command
    <3>6. op' \in Command
      BY <3>1, <3>2, <3>3 DEF Command
    <3> QED
      BY <3>4, <3>5, <3>6
  <2>7. \A k : Anywhere(k)' = Anywhere(k)
    BY <1>1 DEF Anywhere
  <2>8. FileTypes' /\ CommittedIsThere'
    BY <1>1, <2>6 DEF NumberInv, FileTypes, CommittedIsThere
  <2>9. NumbersTell' /\ FoundIsCoordinated'
    BY <1>4, <1>5, <2>7 DEF NumberInv, NumbersTell, FoundIsCoordinated
  <2>10. NumbersBounded'
    BY <1>1, <1>5, BoundGrows DEF NumberInv
  <2>11. CreateIsAlone'
    BY <1>7, <2>6 DEF CreateIsAlone
  <2>12. RewriteKeepsNumber'
    BY <2>2, <2>5, <2>6, <2>7 DEF RewriteKeepsNumber
  <2>13. CandidateIsRecorded'
    <3>1. candidate.num \in Nat /\ candidate.num <= Len(journal')
      BY <1>5, <2>3, <2>4 DEF Content
    <3> QED
      BY <1>3, <1>5, <2>3, <2>6, <3>1 DEF CandidateIsRecorded
  <2> QED
    BY <2>8, <2>9, <2>10, <2>11, <2>12, <2>13 DEF NumberInv
<1> QED
  BY <1>6, <1>7

\* The command publishes what it chose: a create gives its item its only content,
\* a rewrite keeps the number.
LEMMA PublishNumbers ==
  ASSUME NumberInv, Publish
  PROVE  NumberInv'
<1>1. op # NoOp /\ op.phase = "authorized" /\ UNCHANGED <<journal, head>>
  BY DEF Publish
<1>2. PICK w \in Worktree, i \in Item, c \in Content :
        op.wt = w /\ op.item = i /\ op.candidate = c
  BY <1>1 DEF NumberInv, FileTypes, Command, CandidateIsRecorded
<1>3. c.num <= Len(journal) /\ journal[op.att].item = i /\ op \in Command
  BY <1>1, <1>2 DEF NumberInv, FileTypes, CandidateIsRecorded
<1>4. /\ op'.wt = w /\ op'.item = i /\ op'.create = op.create /\ op'.phase = "published"
      /\ op'.candidate = c /\ op'.att = op.att /\ op' \in Command /\ op' # NoOp
      /\ tree' = [tree EXCEPT ![w][i] = c]
  <2>1. op' = [op EXCEPT !.phase = "published"] /\ tree' = [tree EXCEPT ![w][i] = c]
    BY <1>2 DEF Publish
  <2> QED
    BY <1>2, <1>3, <2>1, CommandMoves
<1>5. op.create => Anywhere(i) = {} /\ \A k \in Item : \A x \in Anywhere(k) : k # i /\ x.num # c.num
  BY <1>1, <1>2 DEF NumberInv, CreateIsAlone
<1>6. ~ op.create => Anywhere(i) # {} /\ \A x \in Anywhere(i) : x.num = c.num
  BY <1>1, <1>2 DEF NumberInv, RewriteKeepsNumber
<1>7. \A k \in Item : \A x \in Anywhere(k) : c.num = x.num <=> i = k
  <2>1. CASE op.create
    BY <1>5, <2>1
  <2>2. CASE ~ op.create
    <3>1. PICK y \in Anywhere(i) : y.num = c.num
      BY <1>6, <2>2
    <3> QED
      BY <1>2, <3>1 DEF NumberInv, NumbersTell
  <2> QED
    BY <2>1, <2>2
<1>8. /\ tree' \in Placed
      /\ CommittedIsThere' /\ NumbersTell' /\ NumbersBounded'
      /\ \A k \in Item \ {i} : Anywhere(k)' = Anywhere(k)
      /\ Anywhere(i)' \subseteq Anywhere(i) \cup {c}
      /\ c \in Anywhere(i)'
      /\ tree'[w][i] = c
  <2>1. /\ tree \in Placed /\ CommittedIsThere /\ NumbersTell /\ NumbersBounded
    BY DEF NumberInv, FileTypes
  <2>2. /\ tree' \in Placed
        /\ \A v \in Worktree, k \in Item :
             tree'[v][k] = IF v = w /\ k = i THEN c ELSE tree[v][k]
    BY <1>4, <2>1 DEF Placed
  <2> QED
    BY <1>1, <1>3, <1>7, <2>1, <2>2, FileWritten
<1>9. FileTypes'
  BY <1>1, <1>4, <1>8 DEF NumberInv, FileTypes
<1>10. FoundIsCoordinated'
  <2> SUFFICES ASSUME NEW k \in Item, Anywhere(k)' # {}, ~ NotYetRuled(k)'
               PROVE  k \in CoordinatedItems(journal)
    BY <1>1 DEF FoundIsCoordinated
  <2>1. ~ NotYetRuled(k)
    BY <1>1 DEF NotYetRuled
  <2>2. Anywhere(k) # {}
    <3>1. CASE k # i
      BY <1>8, <3>1
    <3>2. CASE k = i
      <4>1. ~ op.create
        BY <1>4, <3>2 DEF NotYetRuled
      <4> QED
        BY <1>6, <3>2, <4>1
    <3> QED
      BY <3>1, <3>2
  <2> QED
    BY <2>1, <2>2 DEF NumberInv, FoundIsCoordinated
<1>11. CreateIsAlone'
  <2>1. op.create => tree'[w][i] = c /\ Anywhere(i)' \subseteq {c}
    BY <1>5, <1>8
  <2> QED
    BY <1>4, <2>1 DEF CreateIsAlone
<1>12. RewriteKeepsNumber'
  <2>1. ~ op.create => Anywhere(i)' # {} /\ \A x \in Anywhere(i)' : x.num = c.num
    BY <1>6, <1>8
  <2> QED
    BY <1>4, <2>1 DEF RewriteKeepsNumber
<1>13. CandidateIsRecorded'
  BY <1>1, <1>3, <1>4 DEF CandidateIsRecorded
<1> QED
  BY <1>8, <1>9, <1>10, <1>11, <1>12, <1>13 DEF NumberInv

\* The publication failed, so a create's item is nowhere; or it was read back.
LEMMA PhaseNumbers ==
  ASSUME NumberInv, op # NoOp, UNCHANGED <<journal, tree, head>>,
         NEW p \in {"failed", "verified"}, op' = [op EXCEPT !.phase = p],
         p = "failed" => op.phase = "authorized",
         p = "verified" => op.phase = "published"
  PROVE  NumberInv'
<1>1. op \in Command /\ op.phase # "fenced"
  BY DEF NumberInv, FileTypes
<1>2. /\ op'.wt = op.wt /\ op'.item = op.item /\ op'.create = op.create /\ op'.phase = p
      /\ op'.candidate = op.candidate /\ op'.att = op.att /\ op' \in Command /\ op' # NoOp
  BY <1>1, CommandMoves
<1>3. \A i : Anywhere(i)' = Anywhere(i) /\ NotYetRuled(i)' = NotYetRuled(i)
  <2>1. \A i : Anywhere(i)' = Anywhere(i)
    BY DEF Anywhere
  <2>2. \A i : NotYetRuled(i)' = NotYetRuled(i)
    BY <1>2 DEF NotYetRuled
  <2> QED
    BY <2>1, <2>2
<1>4. FileTypes' /\ CommittedIsThere' /\ CandidateIsRecorded'
  BY <1>1, <1>2 DEF NumberInv, FileTypes, CommittedIsThere, CandidateIsRecorded
<1>5. NumbersTell' /\ NumbersBounded' /\ FoundIsCoordinated'
  BY <1>3 DEF NumberInv, NumbersTell, NumbersBounded, FoundIsCoordinated
<1>6. CreateIsAlone'
  <2> SUFFICES ASSUME op.create
               PROVE  /\ p = "failed" => Anywhere(op.item) = {}
                      /\ p = "verified" => /\ tree[op.wt][op.item] = op.candidate
                                           /\ Anywhere(op.item) \subseteq {op.candidate}
    BY <1>2, <1>3 DEF CreateIsAlone
  <2>1. p = "failed" => Anywhere(op.item) = {}
    BY <1>1 DEF NumberInv, CreateIsAlone, Command
  <2> QED
    BY <2>1 DEF NumberInv, CreateIsAlone
<1>7. RewriteKeepsNumber'
  BY <1>1, <1>2, <1>3 DEF NumberInv, RewriteKeepsNumber
<1> QED
  BY <1>4, <1>5, <1>6, <1>7 DEF NumberInv

\* A create that is read back finds what it published.
LEMMA VerifyNumbers ==
  ASSUME IInv, NumberInv, Verify
  PROVE  NumberInv'
<1>1. /\ op # NoOp /\ op.phase = "published" /\ UNCHANGED <<journal, tree, head>>
      /\ op' = IF tree[op.wt][op.item] = op.candidate
               THEN [op EXCEPT !.phase = "verified"] ELSE NoOp
  BY DEF Verify
<1>2. CASE tree[op.wt][op.item] = op.candidate
  BY <1>1, <1>2, PhaseNumbers
<1>3. CASE tree[op.wt][op.item] # op.candidate
  <2>1. ~ op.create
    BY <1>1, <1>3 DEF NumberInv, CreateIsAlone
  <2>2. Len(journal) \in Nat /\ op' = NoOp
    BY <1>1, <1>3, ResolvedGrows DEF IInv
  <2>3. \A i : ~ NotYetRuled(i)
    BY <2>1 DEF NotYetRuled
  <2> QED
    BY <1>1, <2>2, <2>3, CommandLeft
<1> QED
  BY <1>2, <1>3

\* The terminal of a create makes its item one the barrier asks for.
LEMMA RecordNumbers ==
  ASSUME IInv, NumberInv, Record
  PROVE  NumberInv'
<1> DEFINE e == Resolution(journal[op.att], IF op.phase = "verified" THEN "legacy" ELSE "abort")
<1>1. /\ op # NoOp /\ op.phase \in {"verified", "failed"} /\ op' = NoOp
      /\ UNCHANGED <<tree, head>> /\ journal' = Append(journal, e)
  BY DEF Record
<1>2. op.phase = "verified" => e.type = "legacy" /\ e.item = op.item
  BY <1>1 DEF NumberInv, CandidateIsRecorded, Resolution
<1> HIDE DEF e
<1>3. /\ Len(journal) \in Nat /\ Len(journal') = Len(journal) + 1
      /\ journal'[Len(journal) + 1] = e
      /\ CoordinatedItems(journal) \subseteq CoordinatedItems(journal')
  BY <1>1, EntriesKept DEF IInv
<1>4. op.phase = "verified" => op.item \in CoordinatedItems(journal')
  BY <1>2, <1>3 DEF CoordinatedItems
<1>5. \A i \in Item : Anywhere(i) # {} /\ NotYetRuled(i) => i \in CoordinatedItems(journal')
  BY <1>1, <1>4 DEF NotYetRuled
<1>6. Len(journal') \in Nat /\ Len(journal) <= Len(journal')
  BY <1>3
<1> QED
  BY <1>1, <1>3, <1>5, <1>6, CommandLeft

LEMMA AdoptNumbers ==
  ASSUME IInv, NumberInv, NEW w \in Worktree, NEW i \in Item, Adopt(w, i)
  PROVE  NumberInv'
<1> DEFINE j == Resolved(journal, tree[w])
           e == [type |-> "adoption", item |-> i,
                 from |-> ExpectedRevision(j, i), revision |-> tree[w][i]]
<1>1. op = NoOp /\ op' = NoOp /\ UNCHANGED <<tree, head>> /\ journal' = Append(j, e)
  BY DEF Adopt
<1>2. /\ Len(journal) \in Nat /\ Len(j) \in Nat /\ Len(journal) <= Len(j)
      /\ CoordinatedItems(journal) \subseteq CoordinatedItems(j)
  BY ResolvedGrows DEF IInv
<1>3. LedgerSound(j)
  BY ResolvedSound DEF IInv
<1> HIDE DEF j, e
<1>4. Len(journal') = Len(j) + 1 /\ CoordinatedItems(j) \subseteq CoordinatedItems(journal')
  BY <1>1, <1>3, EntriesKept
<1>5. /\ Len(journal') \in Nat /\ Len(journal) <= Len(journal')
      /\ CoordinatedItems(journal) \subseteq CoordinatedItems(journal')
  BY <1>2, <1>4
<1>6. \A k : ~ NotYetRuled(k)
  BY <1>1 DEF NotYetRuled
<1> QED
  BY <1>1, <1>2, <1>5, <1>6, CommandLeft

-----------------------------------------------------------------------------
(* Git, and edits made without Wowbagger.                                  *)

LEMMA CommitNumbers ==
  ASSUME NumberInv, NEW w \in Worktree, NEW i \in Item, GitCommit(w, i)
  PROVE  NumberInv'
<1>1. UNCHANGED <<journal, op>> /\ tree' = tree /\ head' = [head EXCEPT ![w][i] = tree[w][i]]
  BY DEF GitCommit
<1>2. tree \in Placed /\ head \in Placed /\ CommittedIsThere
  BY DEF NumberInv, FileTypes
<1>3. /\ head' \in Placed
      /\ \A v \in Worktree, k \in Item :
           head'[v][k] = IF v = w /\ k = i THEN tree[w][i] ELSE head[v][k]
  BY <1>1, <1>2 DEF Placed
<1>4. \A k \in Item : Anywhere(k)' \subseteq Anywhere(k)
  BY <1>1, <1>3 DEF Anywhere
<1>5. CommittedIsThere'
  BY <1>1, <1>2, <1>3 DEF CommittedIsThere
<1> QED
  BY <1>1, <1>2, <1>3, <1>4, <1>5, FilesMoved

LEMMA RestoreNumbers ==
  ASSUME NumberInv, NEW w \in Worktree, NEW i \in Item, Restore(w, i)
  PROVE  NumberInv'
<1>1. /\ UNCHANGED <<journal, op>> /\ head' = head /\ head[w][i] # Absent
      /\ tree' = [tree EXCEPT ![w][i] = head[w][i]]
  BY DEF Restore
<1>2. tree \in Placed /\ head \in Placed /\ CommittedIsThere
  BY DEF NumberInv, FileTypes
<1>3. /\ tree' \in Placed
      /\ \A v \in Worktree, k \in Item :
           tree'[v][k] = IF v = w /\ k = i THEN head[w][i] ELSE tree[v][k]
  BY <1>1, <1>2 DEF Placed
<1>4. \A k \in Item : Anywhere(k)' \subseteq Anywhere(k)
  BY <1>1, <1>3 DEF Anywhere
<1>5. /\ CommittedIsThere'
      /\ \A v \in Worktree, k \in Item : tree[v][k] # Absent => tree'[v][k] # Absent
  BY <1>1, <1>2, <1>3 DEF CommittedIsThere
<1> QED
  BY <1>1, <1>2, <1>3, <1>4, <1>5, FilesMoved

\* Whichever side a merge keeps, it keeps a side that has the item.
LEMMA MergeNumbers ==
  ASSUME NumberInv, NEW w \in Worktree, NEW v \in Worktree, GitMerge(w, v)
  PROVE  NumberInv'
<1>1. PICK merged \in [Item -> UNION {Merges(w, v, i) : i \in Item}] :
        /\ \A i \in Item : merged[i] \in Merges(w, v, i)
        /\ head' = [head EXCEPT ![w] = merged]
        /\ tree' = [tree EXCEPT ![w] = merged]
  BY DEF GitMerge
<1>2. tree[w] = head[w] /\ UNCHANGED <<journal, op>>
  BY DEF GitMerge
<1>3. tree \in Placed /\ head \in Placed /\ CommittedIsThere
  BY DEF NumberInv, FileTypes
<1>4. \A i \in Item : /\ merged[i] \in {head[w][i], head[v][i]}
                      /\ head[w][i] # Absent => merged[i] # Absent
  BY <1>1 DEF Merges
<1>5. merged \in [Item -> Content \cup {Absent}]
  BY <1>3, <1>4 DEF Placed
<1>6. /\ tree' \in Placed /\ head' \in Placed
      /\ \A u \in Worktree : /\ tree'[u] = IF u = w THEN merged ELSE tree[u]
                             /\ head'[u] = IF u = w THEN merged ELSE head[u]
  BY <1>1, <1>3, <1>5 DEF Placed
<1>7. \A k \in Item : Anywhere(k)' \subseteq Anywhere(k)
  BY <1>4, <1>6 DEF Anywhere
<1>8. /\ CommittedIsThere'
      /\ \A u \in Worktree, k \in Item : tree[u][k] # Absent => tree'[u][k] # Absent
  BY <1>2, <1>3, <1>4, <1>6 DEF CommittedIsThere
<1> QED
  BY <1>2, <1>6, <1>7, <1>8, FilesMoved

\* An edit changes the body of an item that is there, never its number.
LEMMA EditNumbers ==
  ASSUME NumberInv, ~ CreatesMayEndUnknown,
         NEW w \in Worktree, NEW i \in Item, NEW body \in Body, ForeignEdit(w, i, body)
  PROVE  NumberInv'
<1>1. /\ op' = op /\ UNCHANGED <<journal, head>> /\ ~ (op # NoOp /\ op.create)
      /\ tree[w][i] # Absent /\ tree' = [tree EXCEPT ![w][i].body = body]
  BY DEF ForeignEdit
<1>2. /\ tree \in Placed /\ CommittedIsThere /\ NumbersTell /\ NumbersBounded
      /\ tree[w][i] \in Anywhere(i) /\ tree[w][i] \in Content
  BY <1>1, Somewhere DEF NumberInv, FileTypes, Anywhere
<1>3. PICK c \in Content : c = [tree[w][i] EXCEPT !.body = body] /\ c.num = tree[w][i].num
  <2>1. PICK x \in Content : x = tree[w][i]
    BY <1>2
  <2>2. [x EXCEPT !.body = body] \in Content /\ [x EXCEPT !.body = body].num = x.num
    BY DEF Content
  <2> QED
    BY <2>1, <2>2
<1>4. /\ tree' \in Placed
      /\ \A v \in Worktree, k \in Item :
           tree'[v][k] = IF v = w /\ k = i THEN c ELSE tree[v][k]
  BY <1>1, <1>2, <1>3 DEF Placed
<1>5. c.num <= Len(journal) /\ \A k \in Item : \A x \in Anywhere(k) : c.num = x.num <=> i = k
  BY <1>2, <1>3 DEF NumbersTell, NumbersBounded
<1>6. /\ CommittedIsThere' /\ NumbersTell' /\ NumbersBounded'
      /\ \A k \in Item \ {i} : Anywhere(k)' = Anywhere(k)
      /\ Anywhere(i)' \subseteq Anywhere(i) \cup {c}
      /\ c \in Anywhere(i)'
  <2>1. UNCHANGED <<journal, head>>
    BY <1>1
  <2>2. /\ tree \in Placed /\ CommittedIsThere /\ NumbersTell /\ NumbersBounded
    BY <1>2
  <2> QED
    BY <1>4, <1>5, <2>1, <2>2, FileWritten
<1>7. FileTypes'
  BY <1>1, <1>4 DEF NumberInv, FileTypes
<1>8. FoundIsCoordinated'
  <2>1. \A k \in Item : Anywhere(k)' # {} => Anywhere(k) # {}
    BY <1>2, <1>6
  <2>2. \A k : ~ NotYetRuled(k)
    BY <1>1 DEF NotYetRuled
  <2> QED
    BY <1>1, <2>1, <2>2 DEF NumberInv, FoundIsCoordinated
<1>9. CreateIsAlone' /\ CandidateIsRecorded'
  BY <1>1 DEF NumberInv, CreateIsAlone, CandidateIsRecorded
<1>10. RewriteKeepsNumber'
  <2> SUFFICES ASSUME op # NoOp, ~ op.create, op.phase # "fenced"
               PROVE  /\ Anywhere(op.item)' # {}
                      /\ \A x \in Anywhere(op.item)' : x.num = op.candidate.num
    BY <1>1 DEF RewriteKeepsNumber
  <2>1. PICK k \in Item : op.item = k
    BY DEF NumberInv, FileTypes, Command
  <2>2. Anywhere(k) # {} /\ \A x \in Anywhere(k) : x.num = op.candidate.num
    BY <2>1 DEF NumberInv, RewriteKeepsNumber
  <2>3. Anywhere(k)' # {} /\ \A x \in Anywhere(k)' : x.num = op.candidate.num
    <3>1. CASE k = i
      BY <1>2, <1>3, <1>6, <2>2, <3>1
    <3>2. CASE k # i
      BY <1>6, <2>2, <3>2
    <3> QED
      BY <3>1, <3>2
  <2> QED
    BY <1>1, <2>1, <2>3
<1> QED
  BY <1>6, <1>7, <1>8, <1>9, <1>10 DEF NumberInv

LEMMA StepNumbers ==
  ASSUME ~ CreatesMayEndUnknown, IInv, NumberInv, [Next]_vars
  PROVE  NumberInv'
<1>0. Len(journal) \in Nat
  BY ResolvedGrows DEF IInv
<1>1. CASE UNCHANGED vars
  <2>1. UNCHANGED <<journal, op>> /\ tree' = tree /\ head' = head
    BY <1>1 DEF vars
  <2>2. \A i : Anywhere(i)' = Anywhere(i) /\ NotYetRuled(i)' = NotYetRuled(i)
    BY <2>1 DEF Anywhere, NotYetRuled
  <2>3. tree \in Placed /\ head \in Placed /\ CommittedIsThere
    BY DEF NumberInv, FileTypes
  <2>4. CommittedIsThere'
    BY <2>1, <2>3 DEF CommittedIsThere
  <2> QED
    BY <2>1, <2>2, <2>3, <2>4, FilesMoved
<1>2. ASSUME NEW w \in Worktree, NEW i \in Item, NEW create \in BOOLEAN, Begin(w, i, create)
      PROVE  NumberInv'
  BY <1>2, BeginNumbers
<1>3. ASSUME NEW body \in Body, Authorize(body) PROVE NumberInv'
  BY <1>3, AuthorizeNumbers
<1>4. CASE Refuse
  <2>1. op' = NoOp /\ op.phase = "fenced" /\ journal' = journal /\ UNCHANGED <<tree, head>>
    BY <1>4 DEF Refuse
  <2>2. \A i : ~ NotYetRuled(i)
    BY <2>1 DEF NotYetRuled
  <2> QED
    BY <1>0, <2>1, <2>2, CommandLeft
<1>5. CASE Publish
  BY <1>5, PublishNumbers
<1>6. CASE PublishFails
  <2>1. /\ op # NoOp /\ op.phase = "authorized" /\ UNCHANGED <<journal, tree, head>>
        /\ op' = [op EXCEPT !.phase = "failed"]
    BY <1>6 DEF PublishFails
  <2> QED
    BY <2>1, PhaseNumbers
<1>7. CASE Verify
  BY <1>7, VerifyNumbers
<1>8. CASE Record
  BY <1>8, RecordNumbers
<1>9. CASE Crash
  <2>1. op' = NoOp /\ ~ op.create /\ journal' = journal /\ UNCHANGED <<tree, head>>
    BY <1>9 DEF Crash
  <2>2. \A i : ~ NotYetRuled(i)
    BY <2>1 DEF NotYetRuled
  <2> QED
    BY <1>0, <2>1, <2>2, CommandLeft
<1>10. ASSUME NEW w \in Worktree, ClaimVerify(w) PROVE NumberInv'
  <2>1. /\ journal' = Resolved(journal, tree[w]) /\ op = NoOp /\ op' = NoOp
        /\ UNCHANGED <<tree, head>>
    BY <1>10 DEF ClaimVerify
  <2>2. /\ Len(journal') \in Nat /\ Len(journal) <= Len(journal')
        /\ CoordinatedItems(journal) \subseteq CoordinatedItems(journal')
    BY <2>1, ResolvedGrows DEF IInv
  <2>3. \A i : ~ NotYetRuled(i)
    BY <2>1 DEF NotYetRuled
  <2> QED
    BY <1>0, <2>1, <2>2, <2>3, CommandLeft
<1>11. ASSUME NEW w \in Worktree, NEW i \in Item, Adopt(w, i) PROVE NumberInv'
  BY <1>11, AdoptNumbers
<1>12. ASSUME NEW w \in Worktree, NEW i \in Item, GitCommit(w, i) PROVE NumberInv'
  BY <1>12, CommitNumbers
<1>13. ASSUME NEW w \in Worktree, NEW i \in Item, Restore(w, i) PROVE NumberInv'
  BY <1>13, RestoreNumbers
<1>14. ASSUME NEW w \in Worktree, NEW v \in Worktree, GitMerge(w, v) PROVE NumberInv'
  BY <1>14, MergeNumbers
<1>15. ASSUME NEW w \in Worktree, NEW i \in Item, NEW body \in Body, ForeignEdit(w, i, body)
       PROVE  NumberInv'
  BY <1>15, EditNumbers
<1> QED
  BY <1>1, <1>2, <1>3, <1>4, <1>5, <1>6, <1>7, <1>8, <1>9, <1>10, <1>11, <1>12, <1>13,
     <1>14, <1>15 DEF Next, Mutation

\* Cooperating worktrees never hold two items with one number, committed or not,
\* in any number of worktrees: the create barrier asks for every item the journal
\* ruled on, and no item is anywhere that it did not rule on, as long as every
\* create ends with its terminal (no create dies, and nobody edits under one).
THEOREM NumbersAreUnique ==
  ASSUME ~ CreatesMayEndUnknown
  PROVE  Spec => []NumbersUnique
<1>1. NumberInv => NumbersUnique
  <2> SUFFICES ASSUME NumberInv, NEW v \in Worktree, NEW w \in Worktree,
                      NEW a \in Present(tree[v]), NEW b \in Present(tree[w]),
                      tree[v][a].num = tree[w][b].num
               PROVE  a = b
    BY DEF NumbersUnique
  <2>1. a \in Item /\ b \in Item /\ tree[v][a] \in Anywhere(a) /\ tree[w][b] \in Anywhere(b)
    BY Somewhere DEF NumberInv, Present
  <2> QED
    BY <2>1 DEF NumberInv, NumbersTell
<1>2. IInv /\ NumberInv /\ [Next]_vars => NumberInv'
  BY StepNumbers
<1> QED
  BY <1>1, <1>2, InitNumbers, IInvIsInvariant, PTL DEF Spec
=============================================================================
