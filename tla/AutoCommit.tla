----------------------------- MODULE AutoCommit -----------------------------
(***************************************************************************)
(* git-autocommit.js: `--auto-commit`, which folds the Git commit of a     *)
(* mutation into its invocation, and `mutation-finalize`, which completes  *)
(* a commit that was not established, by the recovery token of the failed  *)
(* attempt.  Both run in one working tree, under a mutex of that tree;     *)
(* what the mutex cannot see is the rest of the world: people who edit,    *)
(* stage and commit, hooks, claim commands and mutations without the flag, *)
(* and a `git commit` whose parent process has died.                       *)
(*                                                                         *)
(* Each await of the code is a step.  The mutation itself, with its journal*)
(* entries, is one step: its own steps are the business of ItemMutation,   *)
(* LedgerFence and ClaimedPublication.  HEAD only advances: nobody resets  *)
(* or switches branches.  A log's content is the number of journal entries *)
(* it projects.                                                            *)
(***************************************************************************)
EXTENDS Reconciliation, FiniteSets

CONSTANTS
  Proc,            \* processes that run the two commands
  Item,            \* item files
  Log, Outside,    \* the reconciliation log; a file outside the ledger
  Mutation,        \* mutation requests, each with an operation_id of its own
  CommandOf,       \* CommandOf[m]: "create", "patch" or "publish-claimed"
  ItemOf,          \* ItemOf[m]: the item it is about
  RevisionOf,      \* RevisionOf[m]: the bytes it publishes
  Original,        \* what every item that is not created later holds at first
  Foreign,         \* bytes somebody else wrote
  None,            \* no process, no child, no digest
  MaxInvocations,  \* bound: auto-commit invocations
  MaxCrashes,      \* bound: processes that die
  MaxForeign       \* bound: steps of the rest of the world

ASSUME AutoCommitAssumption ==
  /\ CommandOf \in [Mutation -> {"create", "patch", "publish-claimed"}]
  /\ ItemOf \in [Mutation -> Item]
  /\ {Log, Outside} \cap Item = {} /\ Log # Outside
  /\ None \notin Proc
  /\ None \notin [verb : {"create", "patch", "publish-claimed"}, item : Item]
  /\ MaxInvocations \in Nat /\ MaxCrashes \in Nat /\ MaxForeign \in Nat

LedgerPath == Item \cup {Log}
Path == LedgerPath \cup {Outside}

VARIABLES
  commits,   \* the branch, oldest first: [inv, subject, changed, tree]
  index,     \* index[f]: what is staged
  work,      \* work[f]: the working tree
  journal,   \* the claim journal
  mutex,     \* the process inside <gitDir>/wowbagger/auto-commit, or None
  child,     \* the running `git commit`, which holds the index lock, or None
  proc,      \* proc[p]: the invocation p is in the middle of
  tokens,    \* the recovery tokens that were handed out
  used,      \* auto-commit invocations so far
  crashes, foreign

autoVars == <<commits, index, work, journal, mutex, child, proc, tokens, used, crashes, foreign>>
git == <<commits, index, child>>

Idle == [at |-> "idle"]

AutoInit ==
  /\ index = [f \in Path |->
                IF \E m \in Mutation : CommandOf[m] = "create" /\ ItemOf[m] = f
                THEN Absent ELSE IF f = Log THEN 0 ELSE Original]
  /\ work = [index EXCEPT ![Outside] = Foreign]   \* somebody is at work there
  /\ commits = <<[inv |-> 0, subject |-> None, changed |-> {}, tree |-> index]>>
  /\ journal = <<>>
  /\ mutex = None
  /\ child = None
  /\ proc = [p \in Proc |-> Idle]
  /\ tokens = {}
  /\ used = 0 /\ crashes = 0 /\ foreign = 0

-----------------------------------------------------------------------------
(* What Git and the journal show.                                          *)

HEAD == Len(commits)
HeadTree == commits[HEAD].tree

\* inspectWorktree: what is staged anywhere, what is dirty in the ledger.
Staged == {f \in Path : index[f] # HeadTree[f]}
DirtyLedger == {f \in LedgerPath : index[f] # HeadTree[f] \/ work[f] # index[f]}

\* How many of the first k entries the log shows: neither clock entries nor finalizations.
ProjectedTo(j, k) == Cardinality({n \in 1..k : j[n].type # "finalized"})

\* carriesTerminal: the log has the terminal of the mutation that published
\* these bytes; a legacy one is recognised by item and revision alone.
CarriesTerminal(log, m, rev) ==
  /\ log \notin {Absent, Foreign}
  /\ \E k \in 1..Len(journal) :
       /\ ProjectedTo(journal, k) <= log
       /\ LET e == journal[k]
          IN  \/ CommandOf[m] = "publish-claimed" /\ e.type = "final" /\ e.op = m
              \/ CommandOf[m] # "publish-claimed" /\ e.type = "legacy"
                 /\ e.item = ItemOf[m] /\ e.revision = rev

\* commitSubject: fixed by the command and the item.
Subject(m) == [verb |-> CommandOf[m], item |-> ItemOf[m]]

\* Reconciliation finds an item that is not what the journal authorized.
Unsafe(j) ==
  \E i \in CoordinatedItems(j) :
    \/ work[i] # ExpectedRevision(j, i)
    \/ HeadTree[i] \notin AuthorizedRevisions(j, i)

\* Publications whose bytes are at HEAD get their finalization, once.
Finalized(j) ==
  LET due == InOrder(
               {k \in 1..Len(j) :
                  /\ j[k].type = "final"
                  /\ HeadTree[j[k].item] = j[k].revision
                  /\ ~ \E n \in 1..Len(j) : j[n].type = "finalized" /\ j[n].op = j[k].op})
  IN  j \o [n \in 1..Len(due) |->
              [type |-> "finalized", item |-> j[due[n]].item, op |-> j[due[n]].op,
               commit |-> HEAD]]

Rewritten(w, j) == [w EXCEPT ![Log] = ProjectedTo(j, Len(j))]

\* The paths an invocation owns: the log, and its item where HEAD has other bytes.
CommitSet(m, rev) ==
  {Log} \cup (IF HeadTree[ItemOf[m]] # rev THEN {ItemOf[m]} ELSE {})

\* Mutated: a commit is recognised by its message.
VerifyCommitBySubject(k, job) ==
  k > job.head /\ commits[k].subject = Subject(job.mut)

\* A commit is the invocation's only when its parent, its subject, its changed
\* paths and every blob are what was prepared.
VerifyCommit(k, job) ==
  /\ k = job.head + 1
  /\ commits[k].subject = Subject(job.mut)
  /\ commits[k].changed = job.set
  /\ ItemOf[job.mut] \in job.set => commits[k].tree[ItemOf[job.mut]] = job.rev
  /\ IF job.log = None THEN CarriesTerminal(commits[k].tree[Log], job.mut, job.rev)
                       ELSE commits[k].tree[Log] = job.log

-----------------------------------------------------------------------------
(* Leaving an invocation.                                                  *)

Goto(p, at) == proc' = [proc EXCEPT ![p].at = at]

\* The envelope is written and the mutex given back.
AnswerWith(p, verdict) ==
  /\ proc' = [proc EXCEPT ![p].at = "done", ![p].verdict = verdict]
  /\ mutex' = None

\* The mutation is published and its commit is not established: an auto-commit
\* hands out a token, a finalization has one already.
Fail(p, verdict) ==
  /\ AnswerWith(p, verdict)
  /\ tokens' = IF proc[p].mode = "auto"
               THEN tokens \cup {[k \in {"inv", "mut", "head", "rev", "set", "log"} |-> proc[p][k]]}
               ELSE tokens

\* Before any Git write: a recovery refuses, an auto-commit fails.
Decline(p) ==
  IF proc[p].mode = "auto" THEN Fail(p, "failed")
                           ELSE AnswerWith(p, "refused") /\ UNCHANGED tokens

Return(p) ==
  /\ proc[p].at = "done"
  /\ proc' = [proc EXCEPT ![p] = Idle]
  /\ UNCHANGED <<commits, index, work, journal, mutex, child, tokens, used, crashes, foreign>>

\* The process dies.  Its lock is taken over as ClaimLock describes; the
\* `git commit` it started runs on.
Crash(p) ==
  /\ proc[p].at \notin {"idle", "done"}
  /\ crashes < MaxCrashes
  /\ crashes' = crashes + 1
  /\ proc' = [proc EXCEPT ![p] = Idle]
  /\ mutex' = None
  /\ UNCHANGED <<commits, index, work, journal, child, tokens, used, foreign>>

-----------------------------------------------------------------------------
(* --auto-commit, up to the publication.                                   *)

\* Mutated: a held mutex is not looked at.
BeginAutoCommitUnlocked(p, m) ==
  /\ proc[p] = Idle
  /\ used < MaxInvocations
  /\ used' = used + 1
  /\ mutex' = p
  /\ proc' = [proc EXCEPT ![p] =
       [at |-> "inspect", mode |-> "auto", inv |-> used', mut |-> m, head |-> 0,
        rev |-> RevisionOf[m], set |-> {}, log |-> None, code |-> 0, seen |-> 0,
        verdict |-> None]]
  /\ UNCHANGED <<git, work, journal, tokens, crashes, foreign>>

\* withAutoCommit: a held mutex refuses.
BeginAutoCommit(p, m) ==
  /\ proc[p] = Idle
  /\ mutex = None
  /\ used < MaxInvocations
  /\ used' = used + 1
  /\ mutex' = p
  /\ proc' = [proc EXCEPT ![p] =
       [at |-> "inspect", mode |-> "auto", inv |-> used', mut |-> m, head |-> 0,
        rev |-> RevisionOf[m], set |-> {}, log |-> None, code |-> 0, seen |-> 0,
        verdict |-> None]]
  /\ UNCHANGED <<git, work, journal, tokens, crashes, foreign>>

\* Nothing staged, and nothing dirty but a log that the command may absorb.
Inspect(p) ==
  /\ proc[p].at = "inspect"
  /\ IF /\ Staged = {}
        /\ DirtyLedger \subseteq IF CommandOf[proc[p].mut] = "create" THEN {} ELSE {Log}
     THEN Goto(p, "head") /\ UNCHANGED mutex
     ELSE AnswerWith(p, "refused")
  /\ UNCHANGED <<git, work, journal, tokens, used, crashes, foreign>>

ReadHead(p) ==
  /\ proc[p].at = "head"
  /\ proc' = [proc EXCEPT ![p].at = "verify", ![p].head = HEAD]
  /\ UNCHANGED <<git, work, journal, mutex, tokens, used, crashes, foreign>>

\* claim-verify, which appends finalizations and projects the log when it is safe.
VerifyBefore(p) ==
  /\ proc[p].at = "verify"
  /\ journal' = Finalized(journal)
  /\ IF Unsafe(journal')
     THEN AnswerWith(p, "refused") /\ UNCHANGED work
     ELSE Goto(p, "again") /\ work' = Rewritten(work, journal') /\ UNCHANGED mutex
  /\ UNCHANGED <<git, tokens, used, crashes, foreign>>

InspectAgain(p) ==
  /\ proc[p].at = "again"
  /\ IF Staged = {} /\ DirtyLedger \subseteq {Log}
     THEN Goto(p, "run") /\ UNCHANGED mutex
     ELSE AnswerWith(p, "refused")
  /\ UNCHANGED <<git, work, journal, tokens, used, crashes, foreign>>

\* The journal entries of mutation m over the bytes the working tree shows.
Entries(m, v) ==
  LET i == ItemOf[m]
      claimed == CommandOf[m] = "publish-claimed"
  IN  <<[type |-> IF claimed THEN "publish" ELSE "intent", item |-> i, op |-> m,
         att |-> Len(journal) + 1, expected |-> work[i], revision |-> RevisionOf[m]],
        [type |-> IF claimed THEN "final" ELSE "legacy", item |-> i, op |-> m,
         att |-> Len(journal) + 1, revision |-> RevisionOf[m], committed |-> TRUE,
         inv |-> v]>>

Replayed(m) ==
  CommandOf[m] = "publish-claimed"
    /\ \E k \in 1..Len(journal) : journal[k].type = "final" /\ journal[k].op = m

\* The mutation publishes the item and its terminal, and projects the log; the
\* legacy fence treats a log it cannot write as rebuildable.
Publishes(m, v) ==
  /\ ~ Unsafe(journal)
  /\ (CommandOf[m] = "create") = (work[ItemOf[m]] = Absent)
  /\ journal' = journal \o Entries(m, v)
  /\ LET written == [work EXCEPT ![ItemOf[m]] = RevisionOf[m]]
     IN  work' \in {Rewritten(written, journal')} \cup
                   IF CommandOf[m] = "publish-claimed" THEN {} ELSE {written}

\* A replayed publication answers with the outcome that was recorded.
Mutate(p) ==
  /\ proc[p].at = "run"
  /\ IF Replayed(proc[p].mut) THEN UNCHANGED <<journal, work>>
                              ELSE Publishes(proc[p].mut, proc[p].inv)
  /\ Goto(p, "locate")
  /\ UNCHANGED <<git, mutex, tokens, used, crashes, foreign>>

\* The mutation is refused, or its outcome is not known: no Git action.
MutationNotCommitted(p) ==
  /\ proc[p].at = "run"
  /\ AnswerWith(p, "refused")
  /\ UNCHANGED <<git, work, journal, tokens, used, crashes, foreign>>

-----------------------------------------------------------------------------
(* From the publication to the commit; a recovery joins at "prepare".      *)

Locate(p) ==
  /\ proc[p].at = "locate"
  /\ IF work[ItemOf[proc[p].mut]] \in {Absent, Foreign}
     THEN AnswerWith(p, "failed")                    \* no token: nothing to recover by
     ELSE /\ proc' = [proc EXCEPT ![p].at = "prepare",
                                  ![p].set = CommitSet(proc[p].mut, proc[p].rev)]
          /\ UNCHANGED mutex
  /\ UNCHANGED <<git, work, journal, tokens, used, crashes, foreign>>

\* The item still holds the published bytes, HEAD has not moved, and nothing
\* else is staged or dirty; a recovery expects what the failed attempt staged.
Prepare(p) ==
  LET job == proc[p]
  IN  /\ job.at = "prepare"
      /\ IF /\ work[ItemOf[job.mut]] = job.rev
            /\ job.mode = "auto" => HEAD = job.head
            /\ Staged \subseteq IF job.mode = "auto" THEN {} ELSE job.set
            /\ DirtyLedger \subseteq job.set
         THEN Goto(p, "log") /\ UNCHANGED <<mutex, tokens>>
         ELSE Decline(p)
      /\ UNCHANGED <<git, work, journal, used, crashes, foreign>>

\* The log carries the terminal, and is the one the token has seen.
ReadLog(p) ==
  LET job == proc[p]
  IN  /\ job.at = "log"
      /\ IF /\ CarriesTerminal(work[Log], job.mut, job.rev)
            /\ job.log \in {None, work[Log]}
         THEN /\ proc' = [proc EXCEPT ![p].at = "stage", ![p].log = work[Log]]
              /\ UNCHANGED <<mutex, tokens>>
         ELSE Decline(p)
      /\ UNCHANGED <<git, work, journal, used, crashes, foreign>>

\* git add of exactly the commit set; it fails when the index is locked, and
\* its exit status decides nothing.
StageSet(p) ==
  /\ proc[p].at = "stage"
  /\ \/ child = None /\ index' = [f \in Path |-> IF f \in proc[p].set THEN work[f] ELSE index[f]]
     \/ UNCHANGED index
  /\ Goto(p, "cached")
  /\ UNCHANGED <<commits, child, work, journal, mutex, tokens, used, crashes, foreign>>

\* The staged paths are the authority.
CheckCached(p) ==
  /\ proc[p].at = "cached"
  /\ IF Staged = proc[p].set
     THEN Goto(p, "commit") /\ UNCHANGED <<mutex, tokens>>
     ELSE Fail(p, "failed")
  /\ UNCHANGED <<git, work, journal, used, crashes, foreign>>

\* Mutated: git commit without the paths takes whatever is staged.
StartPathlessCommit(p) ==
  LET job == proc[p]
  IN  /\ job.at = "commit"
      /\ IF child = None
         THEN /\ child' = [inv |-> job.inv, mut |-> job.mut, set |-> Staged, tree |-> index]
              /\ Goto(p, "committing")
         ELSE /\ proc' = [proc EXCEPT ![p].at = "observe", ![p].code = 1]
              /\ UNCHANGED child
      /\ UNCHANGED <<commits, index, work, journal, mutex, tokens, used, crashes, foreign>>

\* git commit -m subject -- paths: the index is locked and the working-tree
\* bytes of these paths are taken; with the index locked already it fails.
StartCommit(p) ==
  LET job == proc[p]
  IN  /\ job.at = "commit"
      /\ IF child = None
         THEN /\ child' = [inv |-> job.inv, mut |-> job.mut, set |-> job.set,
                           tree |-> [f \in Path |-> IF f \in job.set THEN work[f]
                                                                     ELSE HeadTree[f]]]
              /\ Goto(p, "committing")
         ELSE /\ proc' = [proc EXCEPT ![p].at = "observe", ![p].code = 1]
              /\ UNCHANGED child
      /\ UNCHANGED <<commits, index, work, journal, mutex, tokens, used, crashes, foreign>>

\* The exit status reaches the process that started the commit, if it lives.
Exit(code) ==
  proc' = [p \in Proc |-> IF proc[p].at = "committing"
                          THEN [proc[p] EXCEPT !.at = "observe", !.code = code] ELSE proc[p]]

Changed(tree) == {f \in Path : tree[f] # HeadTree[f]}

\* git commit ends: as asked, with a subject or a tree a hook rewrote, or with
\* the ref moved and a nonzero status.
GitCommits(subject, tree, code) ==
  /\ child # None
  /\ Changed(child.tree) # {}
  /\ commits' = Append(commits, [inv |-> child.inv, subject |-> subject,
                                 changed |-> Changed(tree), tree |-> tree])
  /\ index' = [f \in Path |-> IF f \in child.set THEN child.tree[f] ELSE index[f]]
  /\ child' = None
  /\ Exit(code)
  /\ UNCHANGED <<work, journal, mutex, tokens, used, crashes, foreign>>

GitCommitEnds ==
  /\ child # None
  /\ \E code \in {0, 1} :
       \/ GitCommits(Subject(child.mut), child.tree, code)
       \/ GitCommits(None, child.tree, code)
       \/ GitCommits(Subject(child.mut), [child.tree EXCEPT ![Outside] = Absent], code)

\* A hook or the signer refuses, or there is nothing to commit.
GitCommitFails ==
  /\ child # None
  /\ child' = None
  /\ Exit(1)
  /\ UNCHANGED <<commits, index, work, journal, mutex, tokens, used, crashes, foreign>>

\* commitExactSet: HEAD is read again, whatever the exit status.
Observe(p) ==
  /\ proc[p].at = "observe"
  /\ IF HEAD = proc[p].head
     THEN Fail(p, IF proc[p].code = 0 THEN "unknown" ELSE "failed")
     ELSE /\ proc' = [proc EXCEPT ![p].at = "judge", ![p].seen = HEAD]
          /\ UNCHANGED <<mutex, tokens>>
  /\ UNCHANGED <<git, work, journal, used, crashes, foreign>>

Judge(p) ==
  /\ proc[p].at = "judge"
  /\ IF VerifyCommit(proc[p].seen, proc[p])
     THEN Goto(p, "after") /\ UNCHANGED <<mutex, tokens>>
     ELSE Fail(p, "unknown")
  /\ UNCHANGED <<git, work, journal, used, crashes, foreign>>

\* claim-verify; a claimed publication must be finalized by this very commit.
VerifyAfter(p) ==
  LET job == proc[p]
  IN  /\ job.at = "after"
      /\ journal' = Finalized(journal)
      /\ work' = Rewritten(work, journal')
      /\ AnswerWith(p,
           IF /\ ~ Unsafe(journal')
              /\ CommandOf[job.mut] = "publish-claimed" =>
                   \E k \in 1..Len(journal') : /\ journal'[k].type = "finalized"
                                               /\ journal'[k].op = job.mut
                                               /\ journal'[k].commit = job.seen
           THEN "committed" ELSE "unreconciled")
      /\ UNCHANGED <<git, tokens, used, crashes, foreign>>

-----------------------------------------------------------------------------
(* mutation-finalize.                                                      *)

\* Mutated: a recovery takes no mutex.
BeginFinalizeUnlocked(p, t) ==
  /\ proc[p] = Idle
  /\ proc' = [proc EXCEPT ![p] =
       [at |-> "recover", mode |-> "finalize", inv |-> t.inv, mut |-> t.mut, head |-> t.head,
        rev |-> t.rev, set |-> t.set, log |-> t.log, code |-> 0, seen |-> 0, verdict |-> None]]
  /\ UNCHANGED <<git, work, journal, mutex, tokens, used, crashes, foreign>>

BeginFinalize(p, t) ==
  /\ proc[p] = Idle
  /\ mutex = None
  /\ mutex' = p
  /\ proc' = [proc EXCEPT ![p] =
       [at |-> "recover", mode |-> "finalize", inv |-> t.inv, mut |-> t.mut, head |-> t.head,
        rev |-> t.rev, set |-> t.set, log |-> t.log, code |-> 0, seen |-> 0, verdict |-> None]]
  /\ UNCHANGED <<git, work, journal, tokens, used, crashes, foreign>>

\* With HEAD where it was, the token has to name the set derived anew; with HEAD
\* moved, HEAD has to be the commit itself.
Recover(p) ==
  LET job == proc[p]
  IN  /\ job.at = "recover"
      /\ CASE work[ItemOf[job.mut]] \in {Absent, Foreign} -> AnswerWith(p, "refused")
           [] OTHER ->
                IF HEAD = job.head
                THEN IF CommitSet(job.mut, job.rev) = job.set
                     THEN Goto(p, "prepare") /\ UNCHANGED mutex
                     ELSE AnswerWith(p, "refused")
                ELSE IF VerifyCommit(HEAD, job)
                     THEN /\ proc' = [proc EXCEPT ![p].at = "after", ![p].seen = HEAD]
                          /\ UNCHANGED mutex
                     ELSE AnswerWith(p, "refused")
      /\ UNCHANGED <<git, work, journal, tokens, used, crashes, foreign>>

-----------------------------------------------------------------------------
(* The rest of the world.                                                  *)

World ==
  /\ foreign < MaxForeign
  /\ foreign' = foreign + 1
  /\ UNCHANGED <<mutex, child, proc, tokens, used, crashes>>

ForeignEdit(f) ==
  /\ World
  /\ work' = [work EXCEPT ![f] = Foreign]
  /\ UNCHANGED <<commits, index, journal>>

ForeignAdd(f) ==
  /\ World
  /\ child = None
  /\ work[f] # index[f]
  /\ index' = [index EXCEPT ![f] = work[f]]
  /\ UNCHANGED <<commits, work, journal>>

ForeignCommit ==
  /\ World
  /\ child = None
  /\ Staged # {}
  /\ commits' = Append(commits, [inv |-> 0, subject |-> None, changed |-> Staged, tree |-> index])
  /\ UNCHANGED <<index, work, journal>>

\* A claim command appends to the journal and projects the log.
ClaimCommand ==
  /\ World
  /\ ~ Unsafe(journal)
  /\ journal' = Append(journal, [type |-> "claim"])
  /\ work' = Rewritten(work, journal')
  /\ UNCHANGED <<commits, index>>

\* A mutation without the flag.
PlainMutation(m) ==
  /\ World
  /\ CommandOf[m] # "publish-claimed"
  /\ Publishes(m, 0)
  /\ UNCHANGED <<commits, index>>

Step(p) ==
  \/ \E m \in Mutation : BeginAutoCommit(p, m)
  \/ \E t \in tokens : BeginFinalize(p, t)
  \/ Inspect(p) \/ ReadHead(p) \/ VerifyBefore(p) \/ InspectAgain(p)
  \/ Mutate(p) \/ MutationNotCommitted(p) \/ Locate(p)
  \/ Prepare(p) \/ ReadLog(p) \/ StageSet(p) \/ CheckCached(p) \/ StartCommit(p)
  \/ Observe(p) \/ Judge(p) \/ VerifyAfter(p) \/ Recover(p)
  \/ Return(p) \/ Crash(p)

Environment ==
  \/ \E f \in Path : ForeignEdit(f) \/ ForeignAdd(f)
  \/ ForeignCommit
  \/ ClaimCommand
  \/ \E m \in Mutation : PlainMutation(m)

AutoNext ==
  \/ \E p \in Proc : Step(p)
  \/ GitCommitEnds \/ GitCommitFails
  \/ Environment

AutoSpec == AutoInit /\ [][AutoNext]_autoVars

-----------------------------------------------------------------------------
(* Properties.                                                             *)

\* The commits git made for invocation v.
MadeBy(v) == {k \in 1..HEAD : commits[k].inv = v}

\* An answer that names a commit is true: it is one that git made for an invocation, with
\* the published bytes and their terminal and nothing else in it; not a commit of somebody
\* else, and not one a hook rewrote.
SuccessIsExact ==
  \A p \in Proc :
    proc[p].at = "done" /\ proc[p].verdict = "committed" =>
      LET k == proc[p].seen
      IN  /\ commits[k].inv # 0
          /\ commits[k].changed \subseteq {ItemOf[proc[p].mut], Log}
          /\ commits[k].tree[ItemOf[proc[p].mut]] = proc[p].rev
          /\ CarriesTerminal(commits[k].tree[Log], proc[p].mut, proc[p].rev)

\* However often its token is used, one invocation makes one commit; when a process has
\* died while its `git commit` ran on, a second recovery may add another, and never a third.
OneCommitPerInvocation ==
  \A v \in 1..used : Cardinality(MadeBy(v)) <= IF crashes = 0 THEN 1 ELSE 2

\* Unless a hook adds to it, a commit takes no path but the invocation's own,
\* whatever somebody else stages in the meantime.
OwnPathsOnly ==
  \A k \in 1..HEAD : commits[k].inv # 0 =>
    \/ commits[k].changed \subseteq LedgerPath /\ Cardinality(commits[k].changed \ {Log}) <= 1
    \/ commits[k].tree[Outside] = Absent

\* An auto-commit publishes only when what earlier ones published has been at
\* HEAD, or what superseded it has: uncommitted mutations do not pile up unnoticed.
NothingStacks ==
  [][\A p \in Proc : proc[p].at = "run" /\ proc'[p].at = "locate" =>
       \A k \in 1..Len(journal) :
         journal[k].type \in {"legacy", "final"} /\ journal[k].inv # 0 =>
           \E n \in 1..HEAD :
             commits[n].tree[journal[k].item] \in {Foreign} \cup
               {journal[l].revision :
                  l \in {a \in AuthorizingEntries(journal, journal[k].item) : a >= k}}]_autoVars

=============================================================================
