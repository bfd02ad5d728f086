------------------------ MODULE ReconciliationProofs ------------------------
(***************************************************************************)
(* Facts about journals and their reconciliation that the proofs about     *)
(* every command on a journal need: what appending an entry leaves alone,  *)
(* and how the legacy attempts that wait for their terminal change with    *)
(* each kind of entry.                                                     *)
(***************************************************************************)
EXTENDS Reconciliation, FiniteSets, SequenceTheorems, FiniteSetTheorems, TLAPS

IsJournal(j) == \E S : j \in Seq(S)

-----------------------------------------------------------------------------
(* Sequences of entries.                                                   *)

LEMMA JournalLen ==
  ASSUME NEW j, IsJournal(j)
  PROVE  Len(j) \in Nat /\ DOMAIN j = 1..Len(j)
<1>1. PICK S : j \in Seq(S)
  BY DEF IsJournal
<1>2. QED
  BY <1>1, LenProperties

LEMMA EmptyJournal == IsJournal(<<>>) /\ Len(<<>>) = 0
<1>1. <<>> \in Seq({})
  OBVIOUS
<1>2. QED
  BY <1>1 DEF IsJournal

LEMMA JournalAppend ==
  ASSUME NEW j, NEW e, IsJournal(j)
  PROVE  /\ IsJournal(Append(j, e))
         /\ Len(Append(j, e)) = Len(j) + 1
         /\ \A k \in 1..Len(j) : Append(j, e)[k] = j[k]
         /\ Append(j, e)[Len(j) + 1] = e
<1>1. PICK S : j \in Seq(S)
  BY DEF IsJournal
<1> DEFINE T == S \cup {e}
<1>2. j \in Seq(T) /\ e \in T
  BY <1>1, SeqMonotonic
<1>3. /\ Append(j, e) \in Seq(T)
      /\ Len(Append(j, e)) = Len(j) + 1
      /\ \A k \in 1..Len(j) : Append(j, e)[k] = j[k]
      /\ Append(j, e)[Len(j) + 1] = e
  BY <1>2, AppendProperties
<1>4. QED
  BY <1>3 DEF IsJournal

LEMMA JournalConcat ==
  ASSUME NEW j, NEW x, IsJournal(j), IsJournal(x)
  PROVE  /\ IsJournal(j \o x)
         /\ Len(j \o x) = Len(j) + Len(x)
         /\ \A k \in 1..Len(j) : (j \o x)[k] = j[k]
         /\ \A k \in 1..Len(x) : (j \o x)[Len(j) + k] = x[k]
         /\ \A k \in (Len(j) + 1)..Len(j \o x) :
              k - Len(j) \in 1..Len(x) /\ (j \o x)[k] = x[k - Len(j)]
<1>1. PICK S : j \in Seq(S)
  BY DEF IsJournal
<1>2. PICK U : x \in Seq(U)
  BY DEF IsJournal
<1> DEFINE T == S \cup U
<1>3. j \in Seq(T) /\ x \in Seq(T)
  BY <1>1, <1>2, SeqMonotonic
<1>4. Len(j) \in Nat /\ Len(x) \in Nat
  BY JournalLen
<1>5. /\ j \o x \in Seq(T)
      /\ Len(j \o x) = Len(j) + Len(x)
      /\ \A k \in 1..Len(j) + Len(x) : (j \o x)[k] = IF k <= Len(j) THEN j[k] ELSE x[k - Len(j)]
  BY <1>3, ConcatProperties
<1>6. IsJournal(j \o x)
  BY <1>5 DEF IsJournal
<1>7. \A k \in 1..Len(j) : (j \o x)[k] = j[k]
  BY <1>4, <1>5
<1>8. \A k \in (Len(j) + 1)..Len(j \o x) :
        k - Len(j) \in 1..Len(x) /\ (j \o x)[k] = x[k - Len(j)]
  BY <1>4, <1>5
<1>9. \A k \in 1..Len(x) : (j \o x)[Len(j) + k] = x[k]
  BY <1>4, <1>5
<1>10. QED
  BY <1>5, <1>6, <1>7, <1>8, <1>9

\* Appending one entry, and appending a sequence of one entry, are the same.
LEMMA ConcatOne ==
  ASSUME NEW j, NEW e, IsJournal(j)
  PROVE  j \o <<e>> = Append(j, e) /\ j \o <<>> = j
<1>1. PICK S : j \in Seq(S)
  BY DEF IsJournal
<1>2. j \in Seq(S \cup {e})
  BY <1>1, SeqMonotonic
<1>3. QED
  BY <1>2, AppendIsConcat, ConcatEmptySeq

LEMMA FunctionIsJournal ==
  ASSUME NEW m \in Nat, NEW f, DOMAIN f = 1..m, f = [k \in 1..m |-> f[k]]
  PROVE  IsJournal(f) /\ Len(f) = m
<1> DEFINE S == {f[k] : k \in 1..m}
<1>1. f \in [1..m -> S]
  OBVIOUS
<1>2. f \in Seq(S)
  BY <1>1
<1>3. Len(f) = m
  BY <1>1, <1>2
<1>4. QED
  BY <1>2, <1>3 DEF IsJournal
\* What is appended leaves every prefix of the journal as it was.
LEMMA PrefixKept ==
  ASSUME NEW j, NEW e, IsJournal(j), NEW m \in 0..Len(j)
  PROVE  SubSeq(Append(j, e), 1, m) = SubSeq(j, 1, m)
<1>1. Len(j) \in Nat /\ m \in Int
  BY JournalLen
<1>2. \A k \in 1..m : Append(j, e)[k] = j[k]
  BY <1>1, JournalAppend
<1> DEFINE S == {j[k] : k \in 1..m}
<1>3. \A k \in 1..m : j[k] \in S /\ Append(j, e)[k] \in S
  BY <1>2
<1>4. /\ SubSeq(j, 1, m) \in Seq(S)
      /\ Len(SubSeq(j, 1, m)) = IF 1 <= m THEN m - 1 + 1 ELSE 0
      /\ \A k \in 1..(m - 1 + 1) : SubSeq(j, 1, m)[k] = j[1 + k - 1]
  BY <1>1, <1>3, SubSeqProperties
<1>5. /\ SubSeq(Append(j, e), 1, m) \in Seq(S)
      /\ Len(SubSeq(Append(j, e), 1, m)) = IF 1 <= m THEN m - 1 + 1 ELSE 0
      /\ \A k \in 1..(m - 1 + 1) : SubSeq(Append(j, e), 1, m)[k] = Append(j, e)[1 + k - 1]
  BY <1>1, <1>3, SubSeqProperties
<1>6. QED
  BY <1>1, <1>2, <1>4, <1>5, SeqEqual

LEMMA WholePrefix ==
  ASSUME NEW j, IsJournal(j)
  PROVE  SubSeq(j, 1, Len(j)) = j
BY SubSeqFull DEF IsJournal

-----------------------------------------------------------------------------
(* Positions in journal order.                                             *)

LEMMA InOrderOfNone == InOrder({}) = <<>>
<1>1. Cardinality({}) = 0
  BY FS_EmptySet
<1>2. QED
  BY <1>1 DEF InOrder

LEMMA InOrderOfOne ==
  ASSUME NEW x \in Nat
  PROVE  InOrder({x}) = <<x>>
<1>1. Cardinality({x}) = 1
  BY FS_Singleton
<1>2. {m \in {x} : m <= x} = {x}
  OBVIOUS
<1>3. (CHOOSE k \in {x} : Cardinality({m \in {x} : m <= k}) = 1) = x
  BY <1>1, <1>2
<1>4. InOrder({x}) = [n \in 1..1 |-> x]
  BY <1>1, <1>3 DEF InOrder
<1>5. QED
  BY <1>4

\* A sequence built over no position, or over one.
LEMMA MapOfNone ==
  ASSUME NEW f, f = [n \in 1..Len(<<>>) |-> f[n]]
  PROVE  f = <<>>
<1>1. DOMAIN f = 1..0 /\ f = [n \in 1..0 |-> f[n]]
  OBVIOUS
<1>2. QED
  BY <1>1

LEMMA MapOfOne ==
  ASSUME NEW x, NEW f, f = [n \in 1..Len(<<x>>) |-> f[n]]
  PROVE  f = <<f[1]>>
<1>1. f = [n \in 1..1 |-> f[n]]
  OBVIOUS
<1>2. QED
  BY <1>1

\* However many positions there are, they are finitely many.
LEMMA InOrderIsJournal ==
  ASSUME NEW j, IsJournal(j), NEW S \in SUBSET (1..Len(j))
  PROVE  Len(InOrder(S)) = Cardinality(S) /\ Cardinality(S) \in Nat
<1>1. Len(j) \in Nat
  BY JournalLen
<1>2. IsFiniteSet(1..Len(j))
  BY <1>1, FS_Interval
<1>3. Cardinality(S) \in Nat
  <2>1. IsFiniteSet(S)
    BY <1>2, FS_Subset
  <2>2. QED
    BY <2>1, FS_CardinalityType
<1> DEFINE at(n) == CHOOSE k \in S : Cardinality({m \in S : m <= k}) = n
           f == [n \in 1..Cardinality(S) |-> at(n)]
<1>4. InOrder(S) = f
  BY DEF InOrder
<1> HIDE DEF at
<1>5. DOMAIN f = 1..Cardinality(S) /\ f = [n \in 1..Cardinality(S) |-> f[n]]
  OBVIOUS
<1> HIDE DEF f
<1>6. Len(f) = Cardinality(S)
  BY <1>3, <1>5, FunctionIsJournal
<1>7. QED
  BY <1>3, <1>4, <1>6

-----------------------------------------------------------------------------
(* Legacy attempts and their terminals.                                    *)

\* An attempt is named by the position of its intent, which no other has.
IntentsNumbered(j) ==
  \A k \in 1..Len(j) : j[k].type = "intent" => j[k].att = k

TerminalsFollow(j) ==
  \A k \in 1..Len(j) : j[k].type \in {"legacy", "abort"} => j[k].att \in 1..(k - 1)

\* One attempt at a time: the second is not begun before the first has its
\* terminal, whoever crashed.
OneAttemptPending(j) == \A k, n \in PendingAttempts(j) : k = n

AttemptsSound(j) ==
  IsJournal(j) /\ IntentsNumbered(j) /\ TerminalsFollow(j) /\ OneAttemptPending(j)

LEMMA NoAttempts == AttemptsSound(<<>>)
BY EmptyJournal
   DEF AttemptsSound, IntentsNumbered, TerminalsFollow, OneAttemptPending, PendingAttempts

\* The terminal of the attempt that waits leaves none waiting.
LEMMA TerminalAppended ==
  ASSUME NEW j, AttemptsSound(j), NEW n \in PendingAttempts(j),
         NEW e, e.type \in {"legacy", "abort"}, e.att = j[n].att
  PROVE  AttemptsSound(Append(j, e)) /\ PendingAttempts(Append(j, e)) = {}
<1> DEFINE q == Append(j, e)
<1>1. /\ Len(j) \in Nat /\ IsJournal(q) /\ Len(q) = Len(j) + 1
      /\ \A k \in 1..Len(j) : q[k] = j[k]
      /\ q[Len(q)] = e
  BY JournalLen, JournalAppend DEF AttemptsSound
<1>2. n \in 1..Len(j) /\ j[n].type = "intent" /\ j[n].att = n
  BY DEF PendingAttempts, AttemptsSound, IntentsNumbered
<1> HIDE DEF q
<1>3. IntentsNumbered(q)
  BY <1>1 DEF AttemptsSound, IntentsNumbered
<1>4. TerminalsFollow(q)
  BY <1>1, <1>2 DEF AttemptsSound, TerminalsFollow
<1>5. ASSUME NEW k \in PendingAttempts(q) PROVE FALSE
  <2>1. k \in 1..Len(q) /\ q[k].type = "intent"
        /\ \A m \in 1..Len(q) : ~ (q[m].type \in {"legacy", "abort"} /\ q[m].att = q[k].att)
    BY <1>5 DEF PendingAttempts
  <2>2. k # Len(q)
    BY <1>1, <2>1
  <2>3. k \in 1..Len(j) /\ q[k] = j[k] /\ k \in PendingAttempts(j)
    BY <1>1, <2>1, <2>2 DEF PendingAttempts
  <2>4. k = n
    BY <2>3 DEF AttemptsSound, OneAttemptPending
  <2>5. QED
    BY <1>1, <2>1, <2>3, <2>4
<1>6. QED
  BY <1>1, <1>3, <1>4, <1>5 DEF AttemptsSound, OneAttemptPending, q

\* A new attempt starts when none waits, and then it is the one that waits.
LEMMA IntentAppended ==
  ASSUME NEW j, AttemptsSound(j), PendingAttempts(j) = {},
         NEW e, e.type = "intent", e.att = Len(j) + 1
  PROVE  /\ AttemptsSound(Append(j, e))
         /\ PendingAttempts(Append(j, e)) = {Len(j) + 1}
<1> DEFINE q == Append(j, e)
<1>1. /\ Len(j) \in Nat /\ IsJournal(q) /\ Len(q) = Len(j) + 1
      /\ \A k \in 1..Len(j) : q[k] = j[k]
      /\ q[Len(q)] = e
  BY JournalLen, JournalAppend DEF AttemptsSound
<1> HIDE DEF q
<1>2. IntentsNumbered(q)
  BY <1>1 DEF AttemptsSound, IntentsNumbered
<1>3. TerminalsFollow(q)
  BY <1>1 DEF AttemptsSound, TerminalsFollow
<1>4. ASSUME NEW k \in PendingAttempts(q) PROVE k = Len(q)
  <2>1. k \in 1..Len(q) /\ q[k].type = "intent"
        /\ \A m \in 1..Len(q) : ~ (q[m].type \in {"legacy", "abort"} /\ q[m].att = q[k].att)
    BY <1>4 DEF PendingAttempts
  <2>2. CASE k # Len(q)
    <3>1. k \in 1..Len(j) /\ q[k] = j[k]
      BY <1>1, <2>1, <2>2
    <3>2. k \in PendingAttempts(j)
      BY <1>1, <2>1, <3>1 DEF PendingAttempts
    <3>3. QED
      BY <3>2
  <2>3. QED
    BY <2>2
<1>5. Len(q) \in PendingAttempts(q)
  <2>1. ASSUME NEW m \in 1..Len(q), q[m].type \in {"legacy", "abort"}, q[m].att = q[Len(q)].att
        PROVE  FALSE
    BY <1>1, <1>3, <2>1 DEF TerminalsFollow
  <2>2. QED
    BY <1>1, <2>1 DEF PendingAttempts
<1>6. QED
  BY <1>1, <1>2, <1>3, <1>4, <1>5 DEF AttemptsSound, OneAttemptPending, q

\* Entries of the other types do not touch the attempts.
LEMMA OthersConcatenated ==
  ASSUME NEW j, AttemptsSound(j), NEW x, IsJournal(x),
         \A k \in 1..Len(x) : x[k].type \notin {"intent", "legacy", "abort"}
  PROVE  AttemptsSound(j \o x) /\ PendingAttempts(j \o x) = PendingAttempts(j)
<1> DEFINE q == j \o x
<1>1. /\ Len(j) \in Nat /\ Len(x) \in Nat /\ IsJournal(q) /\ Len(q) = Len(j) + Len(x)
      /\ \A k \in 1..Len(j) : q[k] = j[k]
      /\ \A k \in (Len(j) + 1)..Len(q) : q[k].type \notin {"intent", "legacy", "abort"}
  BY JournalLen, JournalConcat DEF AttemptsSound
<1> HIDE DEF q
<1>2. IntentsNumbered(q)
  BY <1>1 DEF AttemptsSound, IntentsNumbered
<1>3. TerminalsFollow(q)
  BY <1>1 DEF AttemptsSound, TerminalsFollow
<1>4. \A k \in 1..Len(q) : q[k].type \in {"intent", "legacy", "abort"} => k \in 1..Len(j)
  BY <1>1
<1>5. PendingAttempts(q) \subseteq PendingAttempts(j)
  BY <1>1, <1>4 DEF PendingAttempts
<1>6. PendingAttempts(j) \subseteq PendingAttempts(q)
  BY <1>1, <1>4 DEF PendingAttempts
<1>7. QED
  BY <1>1, <1>2, <1>3, <1>5, <1>6 DEF AttemptsSound, OneAttemptPending, q

LEMMA OtherAppended ==
  ASSUME NEW j, AttemptsSound(j), NEW e, e.type \notin {"intent", "legacy", "abort"}
  PROVE  AttemptsSound(Append(j, e)) /\ PendingAttempts(Append(j, e)) = PendingAttempts(j)
<1>1. IsJournal(<<e>>) /\ Len(<<e>>) = 1 /\ <<e>>[1] = e
  BY <<e>> \in Seq({e}) DEF IsJournal
<1>2. \A k \in 1..Len(<<e>>) : <<e>>[k].type \notin {"intent", "legacy", "abort"}
  BY <1>1
<1>3. j \o <<e>> = Append(j, e)
  BY ConcatOne DEF AttemptsSound
<1>4. QED
  BY <1>1, <1>2, <1>3, OthersConcatenated

\* What a checkout makes of the journal before any command acts: it writes the
\* terminal of the attempt that waits, or it cannot rule on that attempt, or
\* none waits.
LEMMA ResolvedSteps ==
  ASSUME NEW j, NEW t, AttemptsSound(j)
  PROVE  \/ Resolved(j, t) = j /\ PendingAttempts(j) = UnresolvedAttempts(j, t)
         \/ \E n \in PendingAttempts(j), v \in {"legacy", "abort"} :
              /\ UnresolvedAttempts(j, t) = {}
              /\ Resolved(j, t) = Append(j, Resolution(j[n], v))
<1> DEFINE U == UnresolvedAttempts(j, t)
           D == PendingAttempts(j) \ U
           verdict(n) == Verdict(j[n], t[j[n].item])
<1>0. U \subseteq PendingAttempts(j) /\ PendingAttempts(j) \subseteq 1..Len(j)
      /\ Len(j) \in Nat /\ IsJournal(j)
  BY JournalLen DEF UnresolvedAttempts, PendingAttempts, AttemptsSound
<1> DEFINE f == [k \in 1..Len(InOrder(D)) |->
                   Resolution(j[InOrder(D)[k]], verdict(InOrder(D)[k]))]
<1>1. Resolved(j, t) = j \o f
  BY DEF Resolved
<1>2. CASE D = {}
  <2>1. InOrder(D) = <<>>
    BY <1>2, InOrderOfNone
  <2>2. f = <<>>
    BY <2>1, MapOfNone
  <2>3. Resolved(j, t) = j
    BY <1>0, <1>1, <2>2, ConcatOne
  <2>4. QED
    BY <1>0, <1>2, <2>3
<1>3. CASE D # {}
  <2>1. PICK n \in D : TRUE
    BY <1>3
  <2>2. n \in PendingAttempts(j) /\ n \in Nat /\ D = {n} /\ U = {}
    BY <1>0, <2>1 DEF AttemptsSound, OneAttemptPending
  <2>3. InOrder(D) = <<n>>
    BY <2>2, InOrderOfOne
  <2>4. verdict(n) \in {"legacy", "abort"}
    BY <2>1, <2>2 DEF UnresolvedAttempts, Verdict
  <2>5. f[1] = Resolution(j[n], verdict(n))
    BY <2>3
  <2>6. f = <<f[1]>>
    BY <2>3, MapOfOne
  <2>7. Resolved(j, t) = Append(j, Resolution(j[n], verdict(n)))
    BY <1>0, <1>1, <2>5, <2>6, ConcatOne
  <2>8. QED
    BY <2>2, <2>4, <2>7
<1>4. QED
  BY <1>2, <1>3

\* So it leaves waiting only what it cannot rule on.
LEMMA ResolvedAttempts ==
  ASSUME NEW j, NEW t, AttemptsSound(j)
  PROVE  /\ AttemptsSound(Resolved(j, t))
         /\ PendingAttempts(Resolved(j, t)) = UnresolvedAttempts(j, t)
<1>1. CASE Resolved(j, t) = j /\ PendingAttempts(j) = UnresolvedAttempts(j, t)
  BY <1>1
<1>2. ASSUME NEW n \in PendingAttempts(j), NEW v \in {"legacy", "abort"},
             UnresolvedAttempts(j, t) = {},
             Resolved(j, t) = Append(j, Resolution(j[n], v))
      PROVE  /\ AttemptsSound(Resolved(j, t))
             /\ PendingAttempts(Resolved(j, t)) = UnresolvedAttempts(j, t)
  <2>1. Resolution(j[n], v).type \in {"legacy", "abort"} /\ Resolution(j[n], v).att = j[n].att
    BY DEF Resolution
  <2>2. QED
    BY <1>2, <2>1, TerminalAppended
<1>3. QED
  BY <1>1, <1>2, ResolvedSteps
=============================================================================
