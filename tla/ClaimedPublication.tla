------------------------- MODULE ClaimedPublication -------------------------
(***************************************************************************)
(* publish-claimed of claim-publication.js: a client that holds the lease  *)
(* of an item publishes new bytes for it under its fence (owner, epoch),   *)
(* with the claim commands, legacy mutations, adoption, claim-verify and   *)
(* Git acting on the same item.  It composes ClaimOperations and           *)
(* Reconciliation.                                                         *)
(*                                                                         *)
(* Everything that writes runs inside the namespace lock (ClaimLock).  A   *)
(* publication is stepped (intent, item bytes, terminal) and may die       *)
(* between steps; the steps of a claim command are the business of         *)
(* WorkClaims and those of a legacy mutation of LedgerFence, so here each  *)
(* is one action.  `store` is what the claim and clock entries of the      *)
(* journal replay to, and `journal` holds the other entries.  Each command *)
(* decides at an instant of its own: the wall clock is arbitrary.          *)
(***************************************************************************)
EXTENDS Reconciliation, ClaimOperations, FiniteSets

CONSTANTS
  Client,       \* the agents
  Worktree,     \* the worktrees of one repository
  Operation,    \* operation_ids
  ItemId,       \* the item
  Revision,     \* the contents the item may have
  Original,     \* the content every worktree starts from
  NoOp,         \* no command is inside the lock; no request was made
  Duration,     \* lease durations
  MaxTime,      \* bound: last instant
  MaxEntries,   \* bound: journal entries
  MaxCrashes,   \* bound: commands that die
  MaxEdits      \* bound: edits made without Wowbagger

ASSUME PublicationAssumption ==
  /\ Original \in Revision
  /\ Duration \subseteq Nat \ {0}
  /\ MaxTime \in Nat /\ MaxEntries \in Nat /\ MaxCrashes \in Nat /\ MaxEdits \in Nat

VARIABLES
  journal,   \* the entries of the claim journal that are neither clock nor claim
  store,     \* [floor, record]: what its clock and claim entries replay to
  fence,     \* fence[c]: the last tuple client c was granted, or NoClaim
  asked,     \* asked[o]: the request bound to operation o, or NoOp
  tree,      \* tree[w]: the item's bytes in the working tree of w
  head,      \* head[w]: the item's bytes at the HEAD of w
  history,   \* history[w]: the item's revisions the HEAD of w reaches
  op,        \* the publication inside the lock
  crashes, edits

vars == <<journal, store, fence, asked, tree, head, history, op, crashes, edits>>

Init ==
  /\ journal = <<>>
  /\ store = EmptyStore
  /\ fence = [c \in Client |-> NoClaim]
  /\ asked = [o \in Operation |-> NoOp]
  /\ tree = [w \in Worktree |-> Original]
  /\ head = tree
  /\ history = [w \in Worktree |-> {Original}]
  /\ op = NoOp
  /\ crashes = 0
  /\ edits = 0

Observed(now) == [store EXCEPT !.floor = AdvanceFloor(@, now)]

-----------------------------------------------------------------------------
(* Reconciliation of the publications in the journal.                      *)

Finals(j) == {k \in 1..Len(j) : j[k].type = "final"}

CommittedFinals(j) == {k \in Finals(j) : j[k].committed}

PendingPublications(j) ==
  {k \in 1..Len(j) : j[k].type = "publish" /\ ~ \E n \in Finals(j) : j[n].op = j[k].op}

\* How the bytes in the resolving checkout rule on a publication that died.
PublicationVerdict(j, intent, actual, record) ==
  IF record.epoch > intent.epoch THEN "claim-fence-rejected"
  ELSE IF actual = intent.revision THEN "committed"
  ELSE IF actual = intent.expected \/ \E k \in CommittedFinals(j) : j[k].revision = actual
       THEN "ledger-revision-conflict"
  ELSE "unknown"

\* The intent and the terminal of a publication of worktree w.
Intent(request, w) ==
  [type |-> "publish", item |-> ItemId, op |-> request.op,
   expected |-> request.expected, revision |-> request.revision,
   owner |-> request.owner, epoch |-> request.epoch, writer |-> w]

Final(intent, verdict) ==
  [type |-> "final", item |-> ItemId, op |-> intent.op, verdict |-> verdict,
   committed |-> verdict = "committed", revision |-> intent.revision,
   epoch |-> intent.epoch, writer |-> intent.writer]

\* Every pending publication gets its terminal, an unknown one included.
WithTerminals(j, w, record) ==
  LET pending == InOrder(PendingPublications(j))
  IN  j \o [n \in 1..Len(pending) |->
              Final(j[pending[n]],
                    PublicationVerdict(j, j[pending[n]], tree[w], record))]

\* A committed publication whose bytes this HEAD carries is finalized, once.
Unfinalized(j, w) ==
  {k \in CommittedFinals(j) :
     /\ j[k].revision = head[w]
     /\ ~ \E n \in 1..Len(j) : j[n].type = "finalized" /\ j[n].op = j[k].op}

WithFinalizations(j, w) ==
  LET seen == InOrder(Unfinalized(j, w))
  IN  j \o [n \in 1..Len(seen) |->
              [type |-> "finalized", item |-> ItemId, op |-> j[seen[n]].op]]

Reconciled(w) ==
  WithFinalizations(
    WithTerminals(Resolved(journal, [i \in {ItemId} |-> tree[w]]), w, store.record), w)

\* A live lease whose own last publication is not what this checkout holds.
ActivePublicationMismatch(j, w, st) ==
  LET own == {k \in CommittedFinals(j) : j[k].epoch = st.record.active.epoch}
  IN  /\ Unexpired(st.record.active, st.floor)
      /\ own # {}
      /\ j[Max(own)].revision # tree[w]

Drifted(j, w) ==
  \/ tree[w] # ExpectedRevision(j, ItemId)
  \/ head[w] \notin AuthorizedRevisions(j, ItemId)

\* Reconciliation refuses a command on the item.  (Every finding on the item a
\* command targets blocks it, whatever its remedy.)
Unsafe(j, w, st) ==
  \/ UnresolvedAttempts(journal, [i \in {ItemId} |-> tree[w]]) # {}
  \/ \E k \in PendingPublications(journal) :
       PublicationVerdict(journal, journal[k], tree[w], store.record) = "unknown"
  \/ IF ItemId \in CoordinatedItems(j) THEN Drifted(j, w)
                                       ELSE ActivePublicationMismatch(j, w, st)

-----------------------------------------------------------------------------
(* publish-claimed.                                                        *)

\* Mutated: somebody holds the item.
FenceHeldByAnyone(request, st) == Unexpired(st.record.active, st.floor)

FenceHolds(request, st) ==
  /\ Unexpired(st.record.active, st.floor)
  /\ st.record.active.owner = request.owner
  /\ st.record.active.epoch = request.epoch

\* Mutated: only a committed outcome is remembered.
ConcludedCommitted(j, o) == \E k \in CommittedFinals(j) : j[k].op = o

\* The operation was concluded already: its recorded outcome is the answer.
Concluded(j, o) == \E k \in Finals(j) : j[k].op = o

\* A new request takes the bytes its worktree shows and the client's last
\* fence, stale or not; a retry repeats the request of its operation.
PublishRequests(o, w) ==
  IF asked[o] # NoOp THEN {asked[o]}
  ELSE {[op |-> o, owner |-> c, epoch |-> fence[c].epoch, expected |-> tree[w],
         revision |-> r] :
           c \in {d \in Client : fence[d] # NoClaim}, r \in Revision \ {tree[w]}}

\* Reconcile, look the operation up again, judge the fence, append the intent.
BeginPublish(o, w, now) ==
  LET j  == Reconciled(w)
      st == Observed(now)
  IN  /\ op = NoOp
      /\ Len(j) + 2 <= MaxEntries
      /\ ~ Concluded(journal, o)
      /\ store' = st
      /\ \E request \in PublishRequests(o, w) :
           /\ asked' = [asked EXCEPT ![o] = request]
           /\ IF Unsafe(j, w, st) \/ Concluded(j, o)
              THEN journal' = j /\ op' = NoOp
              ELSE IF FenceHolds(request, st)
              THEN /\ journal' = Append(j, Intent(request, w))
                   /\ op' = [intent |-> Intent(request, w), phase |-> "intended"]
              ELSE /\ journal' = Append(j, Final(Intent(request, w), "claim-fence-rejected"))
                   /\ op' = NoOp
      /\ UNCHANGED <<fence, tree, head, history, crashes, edits>>

Conclude(verdict) ==
  /\ journal' = Append(journal, Final(op.intent, verdict))
  /\ op' = NoOp
  /\ UNCHANGED <<store, fence, asked, tree, head, history, crashes, edits>>

\* The exact-byte compare-and-swap, then rename(2).
WriteCandidate ==
  /\ op # NoOp
  /\ op.phase = "intended"
  /\ tree[op.intent.writer] = op.intent.expected
  /\ tree' = [tree EXCEPT ![op.intent.writer] = op.intent.revision]
  /\ op' = [op EXCEPT !.phase = "written"]
  /\ UNCHANGED <<journal, store, fence, asked, head, history, crashes, edits>>

RevisionConflict ==
  /\ op # NoOp
  /\ op.phase = "intended"
  /\ tree[op.intent.writer] # op.intent.expected
  /\ Conclude("ledger-revision-conflict")

\* Preparing or renaming the temporary failed and the original bytes are there:
\* mutationFailure reports every such failure as an unknown outcome.
WriteFails ==
  /\ op # NoOp
  /\ op.phase = "intended"
  /\ Conclude("unknown")

\* The published bytes are read back.
RecordFinal ==
  /\ op # NoOp
  /\ op.phase = "written"
  /\ Conclude(IF tree[op.intent.writer] = op.intent.revision THEN "committed" ELSE "unknown")

Crash ==
  /\ op # NoOp
  /\ crashes < MaxCrashes
  /\ crashes' = crashes + 1
  /\ op' = NoOp
  /\ UNCHANGED <<journal, store, fence, asked, tree, head, history, edits>>

-----------------------------------------------------------------------------
(* The other commands on the item.                                         *)

\* claim-acquire and claim-release with a current witness (WorkClaims has the
\* stale ones); a barrier refuses an acquire and never a release.
Claim(c, w, cmd, dur, now) ==
  LET j   == Reconciled(w)
      st  == Observed(now)
      req == [cmd |-> cmd, owner |-> c, dur |-> dur,
              expected |-> IF cmd = "acquire" THEN st.record ELSE fence[c]]
      granted == /\ cmd = "acquire" => ~ Unsafe(j, w, st)
                 /\ ClaimVerdict(st.record, req, st.floor) = "granted"
  IN  /\ op = NoOp
      /\ Len(j) <= MaxEntries
      /\ cmd = "release" => fence[c] # NoClaim
      /\ journal' = j
      /\ store' = IF granted THEN ApplyClaim(st, req, now) ELSE st
      /\ fence' = IF granted /\ cmd = "acquire"
                  THEN [fence EXCEPT ![c] = store'.record.active] ELSE fence
      /\ UNCHANGED <<asked, tree, head, history, op, crashes, edits>>

\* claim-verify.
ClaimVerify(w, now) ==
  /\ op = NoOp
  /\ journal' = Reconciled(w)
  /\ store' = Observed(now)
  /\ UNCHANGED <<fence, asked, tree, head, history, op, crashes, edits>>

\* Mutated: a live lease does not stand in the way.
AdoptUnderLease(w, now) ==
  LET j == Reconciled(w)
  IN  /\ op = NoOp
      /\ Len(j) + 1 <= MaxEntries
      /\ AuthorizingEntries(j, ItemId) # {}
      /\ tree[w] = head[w]
      /\ ExpectedRevision(j, ItemId) # tree[w]
      /\ journal' = Append(j, [type |-> "adoption", item |-> ItemId,
                               from |-> ExpectedRevision(j, ItemId), revision |-> tree[w]])
      /\ store' = Observed(now)
      /\ UNCHANGED <<fence, asked, tree, head, history, op, crashes, edits>>

\* claim-adopt: bytes committed in this worktree, and no live lease.
Adopt(w, now) ==
  LET j  == Reconciled(w)
      st == Observed(now)
  IN  /\ op = NoOp
      /\ Len(j) + 1 <= MaxEntries
      /\ AuthorizingEntries(j, ItemId) # {}
      /\ ~ Unexpired(st.record.active, st.floor)
      /\ tree[w] = head[w]
      /\ ExpectedRevision(j, ItemId) # tree[w]
      /\ journal' = Append(j, [type |-> "adoption", item |-> ItemId,
                               from |-> ExpectedRevision(j, ItemId), revision |-> tree[w]])
      /\ store' = st
      /\ UNCHANGED <<fence, asked, tree, head, history, op, crashes, edits>>

\* A legacy mutation of the item: refused under a live lease.  It may die once
\* its intent is appended, before or after its bytes are in place.
LegacyMutation(w, r, now, dies, written) ==
  LET j  == Reconciled(w)
      st == Observed(now)
      intent == [type |-> "intent", item |-> ItemId, att |-> Len(j) + 1,
                 expected |-> tree[w], revision |-> r, writer |-> w, create |-> FALSE]
  IN  /\ op = NoOp
      /\ Len(j) + 2 <= MaxEntries
      /\ r # tree[w]
      /\ ~ Unsafe(j, w, st)
      /\ ~ Unexpired(st.record.active, st.floor)
      /\ dies => crashes < MaxCrashes
      /\ ~dies => written
      /\ crashes' = IF dies THEN crashes + 1 ELSE crashes
      /\ journal' = IF dies THEN Append(j, intent)
                            ELSE j \o <<intent, Resolution(intent, "legacy")>>
      /\ tree' = IF written THEN [tree EXCEPT ![w] = r] ELSE tree
      /\ store' = st
      /\ UNCHANGED <<fence, asked, head, history, op, edits>>

GitCommit(w) ==
  /\ head[w] # tree[w]
  /\ head' = [head EXCEPT ![w] = tree[w]]
  /\ history' = [history EXCEPT ![w] = @ \cup {tree[w]}]
  /\ UNCHANGED <<journal, store, fence, asked, tree, op, crashes, edits>>

\* A merge of v into w: the newer side, or either side of a conflict.
GitMerge(w, v) ==
  /\ tree[w] = head[w]
  /\ head[v] \notin history[w]
  /\ \E merged \in {head[v]} \cup (IF head[w] \in history[v] THEN {} ELSE {head[w]}) :
       /\ head' = [head EXCEPT ![w] = merged]
       /\ tree' = [tree EXCEPT ![w] = merged]
  /\ history' = [history EXCEPT ![w] = @ \cup history[v]]
  /\ UNCHANGED <<journal, store, fence, asked, op, crashes, edits>>

ForeignEdit(w, r) ==
  /\ edits < MaxEdits
  /\ r # tree[w]
  /\ edits' = edits + 1
  /\ tree' = [tree EXCEPT ![w] = r]
  /\ UNCHANGED <<journal, store, fence, asked, head, history, op, crashes>>

Publish ==
  \/ \E o \in Operation, w \in Worktree, now \in 1..MaxTime : BeginPublish(o, w, now)
  \/ WriteCandidate \/ RevisionConflict \/ WriteFails \/ RecordFinal

Next ==
  \/ Publish
  \/ Crash
  \/ \E c \in Client, w \in Worktree, now \in 1..MaxTime :
       \/ \E dur \in Duration : Claim(c, w, "acquire", dur, now)
       \/ Claim(c, w, "release", 0, now)
  \/ \E w \in Worktree, now \in 1..MaxTime :
       \/ ClaimVerify(w, now)
       \/ Adopt(w, now)
       \/ \E r \in Revision, dies, written \in BOOLEAN :
            LegacyMutation(w, r, now, dies, written)
  \/ \E w, v \in Worktree : GitMerge(w, v)
  \/ \E w \in Worktree : GitCommit(w)
  \/ \E w \in Worktree, r \in Revision : ForeignEdit(w, r)

Spec == Init /\ [][Next]_vars

-----------------------------------------------------------------------------
(* Properties.                                                             *)

\* An operation is concluded once, however often it is retried and whoever
\* resolved it after a crash: its caller can trust the recorded outcome.
OneOutcomePerOperation ==
  \A k, n \in Finals(journal) : journal[k].op = journal[n].op => k = n

\* The entries a step appends.
Appended == {k \in 1..Len(journal') : k > Len(journal)}

\* A publication commits only under the newest epoch: no owner that was paused,
\* or died, commits after another one took the item over.
CommitsAreCurrent ==
  [][\A k \in Appended : journal'[k].type = "final" /\ journal'[k].committed
        => journal'[k].epoch = store.record.epoch]_vars

\* While a lease is live at the instant of a step, what the journal authorizes
\* for the item changes only by a publication under that lease's epoch; not by
\* a legacy mutation, an adoption, or the recovery of an older attempt.
AuthorityIsTheHolders ==
  [][Unexpired(store.record.active, store'.floor) =>
       \A k \in Appended : Authorizes(journal'[k], ItemId) =>
          journal'[k].type = "final" /\ journal'[k].epoch = store.record.active.epoch]_vars

=============================================================================
