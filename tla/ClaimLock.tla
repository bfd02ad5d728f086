------------------------------ MODULE ClaimLock ------------------------------
(***************************************************************************)
(* The namespace file lock of claim-store.js.  A process writes a private  *)
(* candidate file, then hard-links it to the lock path; `link` fails with  *)
(* EEXIST when somebody else's link is there.  A lock whose owner process  *)
(* is dead is removed by a recoverer, which first links its candidate to a *)
(* second path, the recovery path.  Every file-system call is one atomic   *)
(* step; between two calls any other process may run, or this one may die. *)
(*                                                                         *)
(* A file holds the owner's pid and a fresh token, so a file is modelled   *)
(* by the process whose candidate was linked there.  The candidate is      *)
(* fully written and synced before the first link, so a linked file is     *)
(* always readable.  A process that left the lock, or was refused, may     *)
(* come back as a new command; a dead process never runs again, and its    *)
(* pid is not given to another one.                                        *)
(***************************************************************************)
EXTENDS FiniteSets, Naturals

CONSTANTS
  Proc,              \* the processes that run wowbagger commands
  NoOne,             \* no file at a path, nobody inside the lock
  MaxDeaths,         \* how many processes may die
  CrashInRecovery    \* may a process die while its recovery file exists?

ASSUME ClaimLockAssumption ==
  /\ NoOne \notin Proc
  /\ MaxDeaths \in Nat
  /\ CrashInRecovery \in BOOLEAN

VARIABLES
  lockFile,      \* whose candidate is linked at `<store>.lock`
  recoveryFile,  \* whose candidate is linked at `<store>.lock.recovery`
  pc,            \* what each process does next
  dead,          \* the processes that died
  refusal        \* whether the recoverer will throw CLAIM_LOCK_HELD after its finally

lockVars == <<lockFile, recoveryFile, pc, dead, refusal>>

Steps == {"idle", "readRecovery", "removeDeadRecovery", "linkLock",
          "linkRecovery", "readLockOwner", "removeDeadLock",
          "removeOwnRecovery", "inside", "readOwnLock", "removeOwnLock"}

\* The steps a process takes between linking the recovery path and removing it.
RecoverySteps == {"readLockOwner", "removeDeadLock", "removeOwnRecovery"}

Goto(p, from, to) ==
  /\ pc[p] = from
  /\ p \notin dead
  /\ pc' = [pc EXCEPT ![p] = to]

LockInit ==
  /\ lockFile = NoOne
  /\ recoveryFile = NoOne
  /\ pc = [p \in Proc |-> "idle"]
  /\ dead = {}
  /\ refusal = [p \in Proc |-> FALSE]

-----------------------------------------------------------------------------
(* withClaimLock and acquireClaimLock, one action per file-system call.    *)

\* A command starts: it writes and syncs its candidate file.
Start(p) ==
  /\ Goto(p, "idle", "readRecovery")
  /\ UNCHANGED <<lockFile, recoveryFile, dead, refusal>>

\* Mutated: a recovery file refuses the caller whoever owns it.
ReadRecoveryOfAnyone(p) ==
  /\ \/ recoveryFile = NoOne /\ Goto(p, "readRecovery", "linkLock")
     \/ recoveryFile # NoOne /\ Goto(p, "readRecovery", "idle")
  /\ UNCHANGED <<lockFile, recoveryFile, dead, refusal>>

\* Head of the loop: a live recoverer refuses the caller, a dead one is cleared.
ReadRecovery(p) ==
  /\ \/ recoveryFile = NoOne /\ Goto(p, "readRecovery", "linkLock")
     \/ recoveryFile \in dead /\ Goto(p, "readRecovery", "removeDeadRecovery")
     \/ recoveryFile \in Proc \ dead /\ Goto(p, "readRecovery", "idle")
  /\ UNCHANGED <<lockFile, recoveryFile, dead, refusal>>

\* `rm(recoveryPath, { force: true })`: removes whatever is there by now.
RemoveDeadRecovery(p) ==
  /\ Goto(p, "removeDeadRecovery", "readRecovery")
  /\ recoveryFile' = NoOne
  /\ UNCHANGED <<lockFile, dead, refusal>>

\* Mutated: rename(2) replaces the lock file, where link(2) fails.
RenameOntoLock(p) ==
  /\ Goto(p, "linkLock", "inside")
  /\ lockFile' = p
  /\ UNCHANGED <<recoveryFile, dead, refusal>>

LinkLock(p) ==
  /\ \/ /\ lockFile = NoOne
        /\ lockFile' = p
        /\ Goto(p, "linkLock", "inside")
     \/ /\ lockFile # NoOne
        /\ Goto(p, "linkLock", "linkRecovery")
        /\ UNCHANGED lockFile
  /\ UNCHANGED <<recoveryFile, dead, refusal>>

LinkRecovery(p) ==
  /\ \/ /\ recoveryFile = NoOne
        /\ recoveryFile' = p
        /\ Goto(p, "linkRecovery", "readLockOwner")
     \/ /\ recoveryFile # NoOne
        /\ Goto(p, "linkRecovery", "readRecovery")
        /\ UNCHANGED recoveryFile
  /\ UNCHANGED <<lockFile, dead, refusal>>

\* Mutated: the owner's process is not looked at.
ReadLockOwnerPresumedDead(p) ==
  /\ \/ lockFile # NoOne /\ Goto(p, "readLockOwner", "removeDeadLock") /\ UNCHANGED refusal
     \/ /\ lockFile = NoOne
        /\ Goto(p, "readLockOwner", "removeOwnRecovery")
        /\ refusal' = [refusal EXCEPT ![p] = TRUE]
  /\ UNCHANGED <<lockFile, recoveryFile, dead>>

\* Mutated: a held lock is refused whoever holds it.
ReadLockOwnerRefused(p) ==
  /\ Goto(p, "readLockOwner", "removeOwnRecovery")
  /\ refusal' = [refusal EXCEPT ![p] = TRUE]
  /\ UNCHANGED <<lockFile, recoveryFile, dead>>

\* Under the recovery file: only a dead owner's lock is removed.
ReadLockOwner(p) ==
  /\ \/ lockFile \in dead /\ Goto(p, "readLockOwner", "removeDeadLock") /\ UNCHANGED refusal
     \/ /\ lockFile \notin dead
        /\ Goto(p, "readLockOwner", "removeOwnRecovery")
        /\ refusal' = [refusal EXCEPT ![p] = TRUE]
  /\ UNCHANGED <<lockFile, recoveryFile, dead>>

RemoveDeadLock(p) ==
  /\ Goto(p, "removeDeadLock", "removeOwnRecovery")
  /\ lockFile' = NoOne
  /\ UNCHANGED <<recoveryFile, dead, refusal>>

\* The `finally` of the recoverer, then the pending throw or the next round.
RemoveOwnRecovery(p) ==
  /\ Goto(p, "removeOwnRecovery", IF refusal[p] THEN "idle" ELSE "readRecovery")
  /\ recoveryFile' = NoOne
  /\ refusal' = [refusal EXCEPT ![p] = FALSE]
  /\ UNCHANGED <<lockFile, dead>>

\* The callback returns or throws: the hold is invalidated first.
Finish(p) ==
  /\ Goto(p, "inside", "readOwnLock")
  /\ UNCHANGED <<lockFile, recoveryFile, dead, refusal>>

ReadOwnLock(p) ==
  /\ Goto(p, "readOwnLock", IF lockFile = p THEN "removeOwnLock" ELSE "idle")
  /\ UNCHANGED <<lockFile, recoveryFile, dead, refusal>>

RemoveOwnLock(p) ==
  /\ Goto(p, "removeOwnLock", "idle")
  /\ lockFile' = NoOne
  /\ UNCHANGED <<recoveryFile, dead, refusal>>

\* A process dies between two calls and leaves its files behind.
Die(p) ==
  /\ p \notin dead
  /\ Cardinality(dead) < MaxDeaths
  /\ CrashInRecovery \/ pc[p] \notin RecoverySteps
  /\ dead' = dead \cup {p}
  /\ UNCHANGED <<lockFile, recoveryFile, pc, refusal>>

LockStep(p) ==
  \/ ReadRecovery(p) \/ RemoveDeadRecovery(p) \/ LinkLock(p) \/ LinkRecovery(p)
  \/ ReadLockOwner(p) \/ RemoveDeadLock(p) \/ RemoveOwnRecovery(p)
  \/ Finish(p) \/ ReadOwnLock(p) \/ RemoveOwnLock(p)

LockNext == \E p \in Proc : Start(p) \/ LockStep(p) \/ Die(p)

LockSpec == LockInit /\ [][LockNext]_lockVars

\* Every live process keeps running, and commands keep being issued.
FairLockSpec == LockSpec /\ \A p \in Proc : WF_lockVars(LockStep(p)) /\ WF_lockVars(Start(p))

-----------------------------------------------------------------------------
(* Properties.                                                             *)

LockTypeOK ==
  /\ lockFile \in Proc \cup {NoOne}
  /\ recoveryFile \in Proc \cup {NoOne}
  /\ pc \in [Proc -> Steps]
  /\ dead \subseteq Proc
  /\ refusal \in [Proc -> BOOLEAN]

Inside == {p \in Proc \ dead : pc[p] = "inside"}

\* At most one live process runs inside the lock: what every journal append,
\* publication and reconciliation relies on (claim-store.js:115-121).
MutualExclusion == \A p, q \in Inside : p = q

\* Nobody ever removes or replaces the lock file of a live holder, so a holder
\* can always prove its hold and its own release finds its own token.
HolderKeepsItsFile == \A p \in Inside : lockFile = p

\* Recovery removes a lock only when its owner is dead: a step that clears the
\* lock path of a process other than the one taking it clears a dead owner's.
OnlyDeadOwnersAreEvicted ==
  [][\A p \in Proc : lockFile = p /\ lockFile' # p =>
        p \in dead \/ pc[p] = "removeOwnLock"]_lockVars

\* A lock left by a crash is recovered: as long as commands keep being issued
\* and one process survives, a dead owner does not hold the ledger forever.
DeadOwnerIsRecovered ==
  \A p \in Proc : (lockFile = p /\ p \in dead) ~> (lockFile # p)

\* So is a recovery file left by a crash.
DeadRecovererIsCleared ==
  \A p \in Proc : (recoveryFile = p /\ p \in dead) ~> (recoveryFile # p)
=============================================================================
