# Wowbagger: a TLA+ development

Wowbagger (`src/`) keeps a ledger of work items as Markdown files in a Git
repository and lets several agents, in several worktrees, change it. A command
is a short-lived Node process; nothing stays in memory between two commands.
What coordinates them is the file system (a lock file, a shared journal), Git,
and rules each command applies to the journal before it acts. Most modules here
are about that; three more are about what is read off a ledger while it changes, about the
adapter that runs the command for an agent host, and about the way a version of
Wowbagger itself is cut and published. Paths below are relative to `src/`; line numbers of every
definition are in `PROJECT.json` (`map`).

## 1. Inventory

| part | state it keeps | operations | what is hard | what makes it correct |
|---|---|---|---|---|
| namespace lock, `src/claim-store.js` | `<store>.lock`, `<store>.lock.recovery`, private candidate files | `withClaimLock`: link, recover a dead owner, release | two paths, seven file-system calls, death between any two | one live process inside; only dead owners evicted; a crash does not lock everybody out |
| claim journal, `src/claim-journal.js` | `journal.ndjson` in the Git common directory; the tracked log `reconcile-<ns>.md` derived from it | append, replay, project, capacity check | every command replays it; entries are decided again on replay | replay is the state; a fresh clone rebuilds the same claim |
| claim operations, `src/claim-operations.js`; commands in `src/cli.js` | per item: epoch, active tuple; per namespace: clock floor | acquire, renew, release, read | stale witnesses, death after the durable append, a wall clock set back | exclusive leases, epochs that fence, time that never goes back |
| reconciliation, `src/claim-publication.js`, `src/reconciliation-classifier.js` | none of its own (appends terminals) | resolve what died, compare checkout and HEAD with the journal, classify | the checkout that reconciles is not the one that wrote | no lost update; at most one open attempt; refusals say the truth |
| legacy mutation fence, `src/claim-coordinator.js` | intents and terminals | `withLegacyMutationFence` around create, patch, transition | worktrees that have not merged each other, crashes, foreign edits | numbers unique; chain of authorized revisions |
| claimed publication, `src/claim-publication.js` | publish-intent, publish-final, publish-finalization | `publish-claimed`, `claim-adopt`, `claim-verify` | retries, takeovers between intent and terminal | commit only under the newest epoch; one outcome per operation |
| mutation engine, `src/mutation.js` | item files, item locks | create, patch, transition, snooze, re-parent | several files per mutation, lock sets computed from unlocked reads | compare-and-swap on exact bytes; no cycle, no half mutation |
| lifecycle and readiness, `src/lifecycle.js`, `src/ready.js`, `src/dependencies.js` | none (pure) | legal transitions, ready set | dependency and parent graphs | ready items are startable |
| auto-commit, `src/git-autocommit.js` | mutex and recovery token; Git index and HEAD | commit exactly the files of a mutation, `mutation-finalize` | death between publication and commit, a `git commit` that outlives its parent, hooks, other users of the index | one commit, of the invocation's own files; an answer of success is true |
| ledger repair, `src/ledger-repair.js` | number-repair intents and finals, staged candidates | `number-repair`: give new numbers to items that share one; recover | several files, death between any two, edits that take no lock | resumable, keeps edits, a final stands for a repaired ledger |
| listing, `src/list.js`, `src/list-order.js`, `src/projection.js` | none; cursors travel with the caller | `list`: filter, order, page, cursor | items change between two pages and between two reads of one | the pages are the list |
| reports, `src/report*.js` | none (the past is replayed from today's dates) | weekly and cumulative flow, impact of an item | dates that later changes rewrite, a view narrower than the ledger | series that agree; predictions that come true; a past that stands |
| agent adapter, `src/adapter/` | redeemed nonces of a host; one child process per call | `invoke`: approve, launch, watch, map to one answer | timer, output bound, exit and close in any order | an answer that is true of what the core did; no process outlives its answer |
| release, `scripts/cut-release.js`, `scripts/lib/*`, `scripts/verify-release-tag.js` | branch, local and remote tags, registry, checkout | cut, resume, dry run, guard of `npm publish` | death between commit and tag, work merged between two attempts, a gate that leaves changes | one version is one tree, and the gate passed it |
| worktree identity, `src/worktree-identity.js`, `src/namespace.js` | identity file per worktree | create once, refuse duplicates | two first commands at once | one identity per worktree |
| schema migration, `src/schema-migration.js` and version drift | ledger files | rewrite a ledger once | - | idempotent |
| claim sync, prospective merge, `src/claim-sync.js`, `src/claim-prospective.js` | none | read journal and Git trees | - | read-only |
| capabilities, instrumentation, minting, launch, workbench | none | static answers, counters, hand-over to another program | - | - |

How they interact: every command that writes runs inside the namespace lock.
It replays the journal, reconciles (which may append terminals for what died
before it, and a clock entry), decides, appends, writes item bytes, and appends
a terminal. A read takes no lock. The journal is shared by all worktrees of a
repository; item files and HEAD are per worktree and meet only through Git.
Git commands, editors and process death interleave anywhere. `--auto-commit` wraps
such a command and a Git commit into one invocation, under a mutex of the working tree;
`number-repair` is a writer of its own, inside the namespace lock; the adapter runs
any command as a child process and sees only its pipes and its exit.

## 2. Modules

| module | models | builds on |
|---|---|---|
| `ClaimLock` | the lock protocol, one action per file-system call | - |
| `ClaimOperations` | the claim operations, replay, projection, hydration (pure operators) | - |
| `LeaseService` | what the claim commands promise about one item | `ClaimOperations` (its constants) |
| `WorkClaims` | `claim-acquire/renew/release/read/verify` over the journal, stepped | implements `LeaseService` |
| `WorkClaimsProofs` | exclusion and eviction of the lock, for any number of processes; safety of the service, and the refinement of the claim commands, for all constants | `WorkClaims`, `ClaimLock` |
| `Reconciliation` | what the journal authorizes, resolution of open attempts, the classifier (pure operators) | - |
| `ReconciliationProofs` | lemmas about journals and the attempts that wait in them | `Reconciliation` |
| `LedgerFence` | legacy mutations of several items from several worktrees, stepped; Git; adoption | `Reconciliation` |
| `LedgerFenceProofs` | one open attempt, the chain of rulings, unique numbers, for all constants | `LedgerFence`, `ReconciliationProofs` |
| `ClaimedPublication` | `publish-claimed`, stepped, against all other commands on one item | `Reconciliation`, `ClaimOperations` |
| `ClaimedPublicationProofs` | one outcome, newest epoch, authority of the lease, for all constants | `ClaimedPublication`, `ReconciliationProofs` |
| `Lifecycle` | transitions and the rules of a valid ledger (pure operators) | - |
| `AtomicMutation` | what the mutation commands promise: one item, one instant, a valid ledger before and after | `Lifecycle` |
| `ItemMutation` | create, transition, patch and parent-migrate with item locks only, stepped | implements `AtomicMutation` |
| `MutationProofs` | compare-and-swap, outcomes, valid ledgers, the refinement; pages, impact and the past that reports replay, for all constants | `ItemMutation`, `Projections` |
| `AutoCommit` | `--auto-commit` and `mutation-finalize`, await by await, against Git and its other users | `Reconciliation` |
| `LedgerRepair` | `number-repair` and its recovery, stepped, against edits | - |
| `LedgerRepairProofs` | edits are kept, finals and answers are true, one intent for each repair, for all constants | `LedgerRepair` |
| `Adapter` | `invoke`, event by event of its child process | - |
| `AdapterProofs` | true answers and no lingering core, for all constants | `Adapter` |
| `Projections` | writers with dates; readiness, `list` page by page and file by file, impact, flow | `Lifecycle` |
| `VersionSites` | what a release rewrites: version sites, manifest, changelog (pure operators) | - |
| `Release` | the cut, step by step, its operator, tags and registry | `VersionSites` |
| `CommitProofs` | what is shipped went through the gate, one tree per version, every place moves; true answers, own paths, one commit and no stacking of auto-commit, for all constants | `Release`, `AutoCommit`, `ReconciliationProofs` |
| `MC*` | symmetry sets, requests and starting ledgers for TLC | the module of the name |

The composition is by level of detail. `ClaimLock` justifies that the modules
above it have one writer at a time (`op`). `WorkClaims` steps a claim command
and shows that it is as good as the atomic service; `ClaimedPublication`
therefore takes a claim command as one action, with a current witness, and steps
the publication instead; `LedgerFence` steps the legacy mutation that is one
action (with an optional death at either side of its write) there. `AutoCommit` in
turn takes a whole mutation with its journal entries as one action and steps what is
around it.

### State and actions against the code

*ClaimLock.* `lockFile` and `recoveryFile` say whose candidate is linked at the
two paths; the token in the file makes the owner unique, so the owner is the
content. `pc` is the next file-system call. `refusal` is the exception the
recoverer's `finally` will rethrow. Assumed: a candidate is complete before it
is linked (it is written and synced first), a pid is not reused while its lock
file is there.

*WorkClaims.* The code keeps only the journal and replays it in every command.
`floor` and `record` are that replay, kept as the journal grows. `held[c]` is the tuple an agent relies on: from
the answer that showed it until the agent asks for anything else. `Begin` is
the lock, the replay and the clock entry of reconciliation; `Decide` the
operation and its durable entry, granted or refused; `Answer` the read-back.
`Barred` stands for any barrier of reconciliation (LedgerFence says which).

*LedgerFence.* A revision is a digest of bytes, so it is the content itself: a
number and a body. `Begin`, `Authorize`, `Publish`/`PublishFails`, `Verify`,
`Record` are the steps of the fence around the engine; `Refuse` is every early
return of the engine between them. Reconciliation (`Resolved`, `Unsafe`) is part
of each action that runs it. `GitMerge` offers the newer side of each item, and
either side of a conflict.

*ItemMutation.* The mode of a repository without a provisioned claim store:
`withLegacyMutationFence` returns `write()` at once and item locks are all there
is (in a provisioned one the namespace lock is around the same engine:
LedgerFence). `Read` is the unlocked read and `wanted` the closure it
calls for; `AcquireLock`/`LockHeld` are `open(file, "wx")` in ascending order;
`ClosureChanged`, `RefuseLocked` and `Decide` are what the locked read can lead to,
in the order of the code's checks; `Publish`, `Verify`, `ReleaseLock` its
last steps. `expected[p]` is the content the client inspected. A read of the ledger is
one step: the files a decision depends on are locked, and a scan that mixes
versions of the others could only refuse more. `Crash` covers a lock that cannot be
unlinked: both leave the file, and the code never breaks one.

*ClaimedPublication.* `store` is the replay of clock and claim entries and
`journal` has the others. Each command decides at an arbitrary instant. A retry
repeats the request its operation is bound to (`asked`). Candidates that are
byte-equal to the current item are not enumerated, and candidate validation is
the choice of a revision. `renew` is left to WorkClaims.

*AutoCommit.* `commits`, `index` and `work` are the branch, the index and the
working tree; the content of the log is the number of journal entries it projects. An
invocation (`proc[p]`) carries what the code carries in its variables: the mutation,
the HEAD it read, the published revision, the commit set, the log it saw. The awaits of
`withAutoCommit` are `Inspect`, `ReadHead`, `VerifyBefore`, `InspectAgain`, `Mutate`,
`Locate`, and of `stageAndCommit` `Prepare`, `ReadLog`, `StageSet`, `CheckCached`,
`StartCommit`, `Observe`, `Judge`, `VerifyAfter`; `mutation-finalize` enters by `BeginFinalize`
and `Recover` and joins at `Prepare`. `child` is the running `git commit`: it
holds the index lock, may be refused or changed by a hook, and runs on when its parent
dies. `Environment` is everything the mutex of the tree does not keep out:
edits, `git add`, `git commit`, claim commands, mutations without the flag.

*LedgerRepair.* An item's bytes are its number and the rest. `Begin` is the read
of the journal outside the lock, `Check` the checks that need none, `Enter` the
namespace lock; then `Reread`, `Stage`, `AppendIntent`, `Replace` item by item,
`Validate`, `AppendFinal`, and on the other path `Recover`, `Redo` item by item from
the one load of the ledger it decides by (`seen`), `Revalidate`. `Edit` takes no lock, as
nothing stops an editor or a checkout. `fresh` is a history of what was edited
while the lock was held: nothing in the code could tell.

*Adapter.* `call[k]` has the flags `launchCoreProcess` keeps between events,
`core[k]` is the child process, which is external: it publishes or not, writes an
envelope that tells the truth, admits it does not know, shows another item, or is garbled,
and exits, is killed or dies. `Observation` is what `close` reports, `ObservationIssue` and
`Outcome` are `process-outcome.js`. `Kill` may fail and leave the core running.

*Projections.* The writers are the rules of `Lifecycle` with the dates added. The
reader is one call of `list` after another: `Ask` lists the directory, `LoadFile` reads
one file, `AnswerPage` filters, orders, cuts the page and issues the cursor, or refuses; the
cursor of the last page may come back with another query. The ledger is called `dated`
here. Of the decisions of an item the first acceptance is kept, which is the one that
the reports look for. `Matched` is the one sequence in the order of the query, and
`Affected` what no set closed under dependents and children leaves out; the code sorts
and searches. `Ready`, `ReadyIfDone`, `WeeklyFlow` and `PointOf` are the pure parts of `ready.js`, `report-impact.js` and
`report-evidence.js`. A reader whose files were read on both sides of a mutation may
see a ledger that never was; the properties are about what it then says of it.

*Release.* `cut` is the running cut with what its process remembers, `checkout` the
tree it works in. `BeginCut` takes the preconditions, `resumeOrConfirm` and the
plan; `WriteFile`, `Gate`, `Stage`, `Commit`, `CreateTag`, `Verify` follow, each with its
refusal and what it restores; `Rehearse` is `--dry-run`. The errands are what an
operator does between two cuts: merge work (which may name the current version at a
new place, or change the manifest), commit or discard what a cut left behind, delete a
tag, abandon an untagged cut, push a tag, publish. The checkout is the cut's own while
it runs, which is how the script is meant to be run.
`VersionSites` has the plan: a tree is the places that may name a version, and the
manifest says which occurrences of the outgoing version move, stay, or are history.

## 3. Runs

| run | instance | properties | shows |
|---|---|---|---|
| `ClaimLock` | 3 processes, 2 deaths anywhere | `MutualExclusion`, `OnlyDeadOwnersAreEvicted`, `DeadOwnerIsRecovered`, `DeadRecovererIsCleared` | one live process inside, eviction of the dead only, and what a death left is cleared |
| `ClaimLock_recoverer_dies` | 4 processes, 2 deaths | `MutualExclusion` **fails** | section 4 |
| `LedgerFence` | 2 worktrees (one detached), 2 items, 2 bodies, 7 entries, 1 crash, 1 edit | `NumbersUnique`, `AtMostOnePendingAttempt`, `AuthorizedChain` | unique numbers across worktrees, one open attempt, no authorized revision overwritten unseen |
| `WorkClaims` | 2 agents, 3 instants, 2 durations, 2 epochs, 6 entries, 1 crash | `EpochsAreFences`, `NeverGoesBack`, `ImplementsLease`, `HydrationAgrees` | journal-backed commands are as good as the atomic lease service; a fresh clone agrees while the clock kept up |
| `ClaimedPublication` | 2 worktrees, 2 operations, 2 revisions, 4 entries, 1 crash, 1 edit | `OneOutcomePerOperation`, `CommitsAreCurrent`, `AuthorityIsTheHolders` | retries after a death get the one outcome; commits under the newest epoch only; during a lease only its holder changes what is authorized |
| `ItemMutation` | an epic and 3 tasks (2 may be created), 2 processes, 3 commands, 1 crash | `LedgerStaysValid`, `OutcomesAreKnown`, `NoLostUpdate`, `ImplementsAtomic` | commands with item locks only are as good as atomic ones |
| `AutoCommit` | 2 processes, a patch, a create and a claimed publication, 2 invocations, 1 death, 1 step of the world | `SuccessIsExact`, `OneCommitPerInvocation`, `OwnPathsOnly`, `NothingStacks` | success names one commit of exactly the own files; mutations do not pile up uncommitted |
| `LedgerRepair` | 3 items that share a number, 5 numbers, 2 repairs with a caller each, 2 deaths, 1 edit | `UnchangedIsTrue`, `EditsAreKept`, `FinalMeansRepaired`, `PendingIsFinished` | repair is resumable, keeps what it has not seen, and its answers and finals are true |
| `LedgerRepair_two_callers` | the same with 1 repair that 2 processes call | `JournalStaysReadable` **fails** | section 4 |
| `Adapter` | 2 invocations of one host, an approval of the request and one of another | `AnswersAreTrue`, `NothingOutlivesItsAnswer`, `EveryLaunchIsAnswered` | every order of events ends in one answer that is true of what the core did |
| `Projections` | an epic and 2 tasks, 3 starting ledgers, 3 dates, 2 mutations, pages of one row | `PagesAreTheList`, `FlowsAgree`, `CompletionReleasesItsImpact`, `PastPointsStand` | paging under change; the reports against what the writers do next |
| `Release` | 3 versions, 3 manifests, 4 starting trees, 4 commits, 1 death, 4 errands, a gate that may rewrite `package.json` and an instruction | `VersionsNameOneTree`, `ShippedWentThroughTheGate`, `CutsMoveEverySite` | a version is one tree; the gate passed it, but for what it rewrote in files of the plan itself; every listed place moved where it rewrote none |

### Bounds, and why they are enough

* Three processes give a holder, a recoverer and an intruder; a death of each of
  two of them is possible. The race behind the failing run needs two dead and
  two live processes, hence four there. The proofs cover any number.
* Two worktrees and two items are what it takes to allocate one number twice; one
  detached worktree makes `findRevisionOwner` tell its cases apart.
* Four journal entries in `ClaimedPublication` are two operations with their finals, or one
  that another command comes between. Seven in `LedgerFence` hold three attempts with their terminals, so a third
  attempt meets an item that was ruled on, died over, and ruled on again.
* Two agents with two epochs give one takeover and one refusal by exhaustion
  (`MaxEpoch`, 2^64-1 in the code). Six entries are three claim commands with
  their clock entries, or two and two verifications. The proofs have no bound.
* Three instants and two durations: a lease may outlive, meet or miss a decision.
* In `ItemMutation`, two processes are the two sides of a race, and three
  commands let one of them meet a closure that changed twice; `MaxRetries` is 2
  there (3 in the code), so that giving up is reached. The requests are those
  whose closure contains every item they refer to; section 4 has the others.
* In `AutoCommit`, two invocations let a failed one and its recovery meet a second
  one; a patch and a claimed publication of one item, and a create of another, are the three shapes
  of commit set and of terminal. One step of the world and one death put something
  between any two awaits; tokens may be used any number of times.
* In `LedgerRepair`, three items that share a number are the smallest group with two
  to move, so that a repair can be half done; five numbers leave room for a second
  repair after an edit has made a new group. Two deaths interrupt a
  repair and its recovery. Where each repair has a caller of its own, one repair meets what
  another left; in the failing run two processes call the same one.
* In `Adapter`, two calls share the nonces; nothing else is shared, so more add no
  order. The core's output is within the bound or beyond it.
* In `Projections`, pages of one row make every list of two rows a traversal with a
  cursor; two mutations change it between and during pages. Weeks of two days put week
  boundaries between three dates.
* In `Release`, two prereleases and the release of one core version reach the rule that one subject mentions another; four commits hold two cuts
  with work between them.
* `MaxTime`, `MaxEntries`, `MaxCrashes`, `MaxEdits`, `MaxCommands`, `Instant`,
  `MaxInvocations`, `MaxForeign`, `MaxMutations`, `MaxCommits`, `MaxDeaths` and `MaxErrands` are
  the only bounds in guards. `CreatesMayEndUnknown` and `CrashInRecovery` switch off the
  two situations of section 4; the passing `ClaimLock` run has
  the second one on.

### Fairness

`ClaimLock`: `FairLockSpec` asks weak fairness of each process's
next call (a live Node process is scheduled, and no call waits for another
process) and of `Start` (commands keep being issued). Nothing in the code waits:
a live holder refuses the caller at once, so no strong fairness is needed, and
none is claimed for a caller that is always refused. `Die` has no fairness.
Nothing is claimed of a system in which all processes are dead.

`LedgerRepair`: weak fairness of `Work(p)`, one step of the call or the next call of
the operator. A repair that was interrupted is finished only because somebody
asks again, as the documentation tells the operator to. The lock refuses rather than
waits, so `PendingIsFinished` excuses a repair whose calls found it held.

`Adapter`: weak fairness of the adapter's own events (the event loop turns, the timer
fires, `close` follows exit) and of the end of a process that was to be killed. The
core has none: it may hang for ever, and `EveryLaunchIsAnswered` still holds.

Deadlock is checked where some command can always run (the lock, the fence, the
claims, the publications). In `ItemMutation`, `AutoCommit`, `LedgerRepair`, `Adapter`,
`Projections` and `Release` it is not: their clients stop when their bound is used up.

## 4. Where the code falls short

The failing runs:

* `ClaimLock_recoverer_dies`. `rm(recoveryPath, {force: true})`
  (claim-store.js:172) removes whatever is there by then. After a recoverer died,
  two processes read its dead owner; one clears it and links its own recovery file;
  the other removes that. Two recoverers then remove the lock path one after
  the other, the second one from under a process already inside.
* `LedgerRepair_two_callers`. `recoverPendingRepair` (ledger-repair.js:819-833) reads the
  journal before it takes the lock. A second caller that read it between the intent and
  the final of the first enters when the first has left, finds everything done
  and appends a second final. The append validates what is in the journal and not the
  entry (claim-journal.js:58-74), so that the next read fails, and every later one
  (`Readable`). No death is needed. The design says that a repeated final "is rejected by
  idempotency, not appended twice". Edits and the truth of finals survive two callers (section 5).

What follows is no property of a run. Where a constant or an instance is named, changing it
brings the situation back; the rest is in the passing runs, whose properties do not
say otherwise.

* `LedgerFence` with `CreatesMayEndUnknown = TRUE`: a create that died after `link` is, in
  a sibling worktree, still at its expected revision (absent): it is recorded as
  aborted and the sibling allocates the number again. `NumbersUnique` fails.
* `WorkClaims` after the clock was set back: claim entries are decided again on
  replay, and the clock entries that moved the floor are not in the committed log. A
  fresh clone replays a granted takeover as refused, and a later refused acquire as
  granted: same epoch, another owner. `HydrationAgrees` is about clocks that kept up.
* `ItemMutation` with requests that add a reference: patch and parent-migrate lock their
  target and not the items the new reference names. Two patches (`a` depends on
  `b`, `b` on `a`) lock different files, each validates against a ledger without
  the other, and the ledger has a cycle: every later command answers
  `ledger-invalid`. The same hole lets a dependency be killed under a new dependent, or
  an epic be closed under a child that is migrated into it.
  Nor does the run say that a command gives its locks back on every path: the paths are one
  label in the model, and `Answer` waits for the last lock to go.
* `ClaimedPublication` with two worktrees: a published item that Git has not
  finalized is not coordinated, so a sibling with the replaced bytes may mutate
  it once the lease is over (`AuthorizedChain`). And reconciliation resolves a publication
  that died by the bytes of the checkout it runs in (claim-publication.js:599): one that died
  after its rename is, in a sibling, still at the revision it was to replace. It is
  recorded as `ledger-revision-conflict`, and whoever retries it is told `unchanged`, although
  its bytes are in place where it wrote them. The contract has reconciliation record "what was
  already true" (docs/work-claim-contract.md:1177). The run has these steps, and no property
  that says what a refusal means.
* `AutoCommit`, allowed for in `OneCommitPerInvocation`: a process dies while its `git
  commit` runs on, a recovery finds HEAD where it was and goes on to the commit, and both
  land. It takes a commit set that Git sees as changed twice: somebody has written over the
  item or the log in between, or the claim-verify of another recovery has. More than two it
  cannot be: once a commit has landed, HEAD is not where the token says.
  An answer that names a commit names one with the published bytes, which may be that
  of another invocation of the same request (`SuccessIsExact`): the test of a commit is its
  parent, its subject and its bytes, and these are equal. Not a property: a claimed
  publication that is retried with the flag after it was committed answers
  `git-commit-failed`, as its log is clean and its commit exists; a claim command between a failed commit and its recovery appends
  to the journal, and the token refuses for ever; a death between publication and commit
  leaves a dirty item and no token.
* `LedgerRepair`, allowed for in its properties: a death between
  staging and intent makes a repair_id unusable. A successor that turns out
  invalid after the items were replaced is reported as "unchanged"
  (`UnchangedIsTrue` excuses what was edited under the lock, the only way there). An edit
  made while the lock is held is overwritten (`fresh`).
* `Adapter`: the time an approval is checked against is read before the
  resolver of the approval runs, which may take long. A core that could not be spawned
  ends with the errno for an exit code, which is a contradictory observation, so the
  answer is `mutation-outcome-unknown` where `core-launch-failed` was meant.
* `Projections`: `list` and reports load file by file, so a page may show a
  ledger that never was. The snapshot of a cursor is of what was loaded, and
  the next page refuses if that is not what it loads.
* `Release`: the changed set is compared with the plan by names
  (cut-release.js:167-174, 435). A file of the plan that a step of the gate rewrites is changed
  before and after, and is staged, committed and tagged as it then is, against the
  comment above the call (432-434). `Gate` has it happen, so `ShippedWentThroughTheGate` says only that
  what is shipped is what passed but for files of the plan, and `CutsMoveEverySite`
  is about cuts that the gate left alone. `--dry-run` of a version that is in flight resumes it and creates its
  tag. A death between the creation and the verification of a tag leaves one that no rerun
  removes. A stray
  file the gate left stays after a restore, and the next cut refuses.

## 5. Proofs

`WorkClaimsProofs` is about the lock and about the commands that run in it. Of the lock,
under `RecoverersSurvive` (no process dies between linking
the recovery path and unlinking it; without it the first failing run is a
counterexample), it has `LockIsExclusive` and `EvictionIsJustified`. The invariant adds to the types that the recovery file is
owned by exactly the process that is recovering, that it is alive, that what
a recoverer is about to remove is still a dead owner's lock, and that a live
process owns the lock file from its link to its own `rm`. Exclusion is not
inductive without the third: `RemoveDeadLock` removes blindly.

Of the claim commands, it first shows that the service is type-correct, exclusive, fenced and
monotone. The invariant adds that the record carries the epoch of its own lease and
that nobody holds a tuple newer than the record, or as new and not the owner's.
Then `ClaimsImplementLease == Spec => LeaseSpec` with no proviso, and from it
those safety properties for the commands. The invariant is about the command in
flight: its decision time is persisted (so the claim entry decides at the floor
and `Decide` is `Grant`, `Extend`, `Relinquish` or a refusal), its client relies on
nothing, and once it is appended as granted nobody else owns the item (so `Answer`
is `Learn`). The variables `floor`, `record` and `held` are the service's own, so the
refinement mapping is the identity; what ties them to the journal is `Write`.

`ReconciliationProofs` has the lemmas about journals that the next two share: what
appending an entry leaves alone, and that resolving an open attempt adds the one
terminal it lacked. `Reconciliation` writes the terminals of several attempts in the
order of their intents (`InOrder`), and the lemmas show that there is one at most.

`LedgerFenceProofs`: `OneAttemptAtATime`, `RulingsFormAChain`, and `NumbersAreUnique`
under `~CreatesMayEndUnknown` (section 4 has what goes wrong without it). The
first invariant says of every intent and every adoption what the journal before it
authorized, so that an appended entry leaves it alone, and that nothing but adoptions
follows an intent that waits: they were decided by another checkout, and are why
a chain of immediate predecessors would be false. The second is about the checkouts.
Uniqueness alone is not inductive, because a create chooses its number by the
items of its own checkout. It is enough because whatever is in some tree or HEAD is
an item the journal ruled on (`FoundIsCoordinated`), the create barrier asks for all of
these (`CreateIsAlone`), and no command changes the number an item has
(`RewriteKeepsNumber`). A create between its publication and its terminal is the one
exception, which is why one that ends unknown breaks the property.

`ClaimedPublicationProofs`: `OutcomesAreFinal`, `CommitsNeedTheNewestEpoch`,
`LeaseHoldsAuthority`, for any agents, worktrees and operations. At most one
publication waits for its terminal, under the epoch of the record; the one in the
lock is the last entry; and no legacy attempt waits while a lease is live, because the
checkout that granted the lease ruled on it first. The last is what keeps a dead legacy
command from changing what is authorized under somebody's lease. The first says as well that
the comparison of epochs in recovery (claim-publication.js:572) never fires among these commands: whoever moves the
epoch has resolved what waited. It would otherwise refuse bytes that are in place.

`MutationProofs`: `UpdatesAreNotLost`, `NoOutcomeIsUnknown`, for
any requests, the relation patches included. The invariant says that a command
between its decision and its read-back has its name in the lock file of its
target, so that the target is still the content it compared with, or published.
A step is shown to be framed first (it touches no other process's variables
or locks, and writes only where it holds the lock), which leaves one
argument for all the other processes. `LedgersStayValid` and `CommandsAreAtomic` are
under `CoveredOnly`: creates, transitions, and the patches and migrations that only
drop references, which is what the run has (`CoveredRequests`); section 4 has what others do. The
invariant says that a command past its decision holds every lock its decision calls for
now, that its preconditions hold, and that its proposal is what it would propose
again. Another process's publication keeps that because two commands whose closures
are disjoint commute (`DisjointCommute`): neither refers to what the other changes, so
that no cycle, no closed epic with an open child and no dropped dependency can come of the two
together that neither made alone.

The same module has the three theorems about `Projections`, with no proviso. Each step
writes one item at most (`Written`), and what it may do to that item is enough for the
first two (`WriteEffect`): creation and place stay, a date that is set is that of
the write, and only a patch changes dependencies, which completes nothing.

* `ThePastStands`: the invariant is that ledgers stay valid with their dates
  (`DatedInv`). It rules out that an item goes from one terminal date to another,
  because what has one is in a status that leads back to the backlog or nowhere.
* `ImpactIsWhatCompletionReleases`: readiness of the other items reads the status of
  the candidate, its parent link and that it exists (`SameReadiness`), and what becomes ready had it for
  a dependency (`ReleasedIsDependent`). Completion makes no ancestor fit, so the children
  that `affectedIds` follows are looked at in vain.
* `EveryTraversalIsTheList`: the rows so far are the first of the list of the snapshot, up to the
  offset of the cursor (`Traversed`). That there is a list in that order is a lemma about
  finite sets (`OrderedEnumeration`); that the order is total needs the tie-break by ID.

`AdapterProofs`: `AdapterTellsTheTruth` and `CoresDoNotLinger`, for any invocations and
approvals. Invocations share only the nonces, so that the invariant is about one call
and its core: there is no core before the launch and none after the answer; what was
written is true of what was published, and what was captured was written; and a call
that saw an error of a core that did start has seen the timer or the bound, because only a
kill raises one. The last is what makes `core-launch-failed` safe to say.

`LedgerRepairProofs`: `EditsSurviveRepair`, `FinalsAreTrue`, `UnchangedAnswersAreTrue` and
`RepairsHaveOneIntent`, for any callers. The first invariant says that whoever is past the
lock holds it, that no intent is there while one is being staged, and that an item still
to be replaced is, unless it was edited under the lock, what the request, the intent or the
load of recovery saw of it. `RepairsHaveOneIntent` is the half of `Readable` that
survives a second caller, since the journal is read again under the lock before anything is
staged; the other half, one final, is what `LedgerRepair_two_callers` refutes. The second invariant is what the finals and answers
rest on: an intent records what was staged; what was staged makes a valid ledger of the one
that is there, while nobody edits; each item that is done with holds its staged bytes;
and a call has written nothing before its intent.

`CommitProofs` is about the two parts that answer for Git commits.

Of the release: `WhatIsShippedWentThrough`, for any trees, manifests and versions, any
errands between two cuts and anything the gate rewrites; `VersionsAreOneTree`, under
`PackageMoves` and `GateKeepsPackage`; and `EverySiteMoves`,
under `PackageMoves` and `ChangelogIsHistory`. The first invariant says that a draft is
what the plan makes of the tip of the branch, file by file, until the gate
(`DraftFollowsPlan`), that what is to be committed differs from what passed in files of
the plan only (`DraftIsGated`), and that the same holds of the cuts on the branch
(`CutsWentThrough`). The second orders the branch: versions do not fall along it
(`VersionsAdvance`), a version is cut once (`OneCutEach`), and each place names the version
of the cut it is in (`NamesAgree`). A cut finds the one before it by the version
that package.json names, hence the first proviso: no retained site is there. The second is
that the changelog has no mutable site: the script only counts the occurrences of the
incoming version, and one that moved in the changelog and one nobody listed elsewhere
would balance. `scripts/release-version-sites.json` meets both (6-9, 90-93).
`GateKeepsPackage` says that no step of the gate rewrites the version of package.json, which none of
`releaseGateSteps` is meant to. One that set it back would have the next cut repeat a version
on the branch, and `VersionsAdvance` would be lost; the run lets it happen.

Of auto-commit: `AnswersAreExact`, `CommitsTakeTheirOwn`, `MutationsDoNotStack` and
`OneCommitEach`, with no proviso. Three invariants, each of which has the one before it:

* `GitInv` says what a job or a token knows, for as long as it exists, whoever has moved
  HEAD since: the commit it started from is on the branch, its set is the log and at
  most its item, the log it saw carries its terminal, and what it left out of the set has
  had the published bytes at HEAD (`Knows`). Branch and journal only grow, so that all
  of this stays. A running `git commit` holds the index, so HEAD stands until it ends, and
  what it changes beyond its set is what a hook adds (`ChildSound`).
* `StackInv` adds that whoever is busy is the one in the mutex, that each published item
  has in the working tree its bytes, what superseded them, or what somebody wrote over them
  (`WorkHolds`), and that between the second inspection and the publication the same is
  true of some commit (`RunSound`).
* `CountInv` counts, for one invocation, the commits there are, the one that is being
  made and the one that is still to come. The sum stays at one while nobody dies, because
  then a running git has somebody who waits for it (`Waited`) in the mutex. A
  recovery goes on to a commit only where HEAD is still the commit its token
  names, and the commits of an invocation come after that one (`AllAhead`), so that there
  is none: what there may be is the git of a process that died, which makes two. The
  claim that there is one whenever nobody else touches the repository was tried first
  and is false; TLC found the second commit in an instance with a patch and a claimed
  publication of the same bytes, three invocations and two deaths.

Besides the provisos named above, the proofs assume the `ASSUME`s on constants in the modules
and nothing else. Some of those say only that a marker is not a value: `NoItem` no item (Lifecycle),
`NoItem` no dated item (Projections), `Absent` no content and `NoOp` no command (LedgerFence), `None` no process (LedgerRepair,
AutoCommit) and no subject (AutoCommit), `Nothing` and `AnyVersion` no version (VersionSites); they hold of
the `null` and the missing file they stand for.

The 35 theorems a reader should know of are listed in `PROJECT.json`. Thirty-one state a
property that a run checks, one of them (`EpochsAreFences`) of the service and of the
commands; `ClaimHoldersAreActive`, `ClaimsAreExclusive`, `TypesAreKept` and
`RepairsHaveOneIntent` are the rest, and need no run.

Only model-checked:

* liveness: the prover has no support for it under fairness;
* `HydrationAgrees`: replay is a fold over the journal, and what a fold computes for
  every journal needs induction over data, which the provers cannot instantiate;
* `FlowsAgree` (`Projections`): it compares sums over the weeks of a report, and a sum is a
  fold.

## 6. What is abstracted, and what is not modelled

* One durable append is one step. A torn last line (claim-journal.js:213) is not
  modelled; nor is journal capacity, except as a bound.
* Files are contents; parsing, rendering, the wording of findings and the
  derived files (claim-state snapshot, tracked log as a working-tree file) are
  left out. The log is modelled as the projection a commit would carry.
* `WorkClaims` and `ClaimedPublication` have one item: a claim record is per item
  and only the floor is shared, which `ClaimVerify` moves.
* `ItemMutation` has ledgers of schema version 2, and leaves out dates, `related`,
  decisions but an epic's rollup, and every rule about one item alone. snooze and
  the patches of other fields have the locks and the write of a patch.
* `AutoCommit`: HEAD only advances (no reset, no branch switch), and the mutation with
  its journal entries is one step.
* `LedgerRepair`: one load of the ledger is one step, and the repository root is taken
  to be right (the code derives it from the Git common directory, which is another place for a
  linked worktree). A repair with `--auto-commit` is left out.
* `Adapter`: the checks of request, paths and limits before the approval are one
  step that passes or refuses. `describe`, manifest, handoff and context keep no state.
* `Projections`: titles, numbers and the bounds of rows; forecasts, cycle times,
  sequencing and every rendering.
* `Release`: branch and upstream checks, dist-tags (`release-channels.js`), files that
  cannot be read. An identifier of a prerelease is a number or a word, numbers before words;
  a word that starts with a digit or a hyphen is not modelled. The script compares it with a number as a
  string (`compareVersions`, scripts/cut-release.js:54), which is no order: "9" is before
  "10", "10" before "1a" and "1a" before "9".
* Not modelled: worktree identity, schema migration, claim sync and prospective
  merge, capabilities, instrumentation, minting, launch, workbench and the parsing of
  options (see `components` in `PROJECT.json` with the reason for each).

## 7. Plan

Done: the lock, the lease service and the claim commands, reconciliation, the legacy
fence, claimed publication, the item locks, ledger repair and the adapter, all with their
proofs; auto-commit, the release and the projections with theirs. Every property of a passing run
that is neither liveness nor a fold is stated by a theorem.

To model next: journal capacity in `LedgerFence` (the reserve of three entries,
claim-coordinator.js:134-138) and the torn line; `WorktreeIdentity`; the repair that
commits; dist-tags of a release.
