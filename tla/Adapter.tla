------------------------------- MODULE Adapter -------------------------------
(***************************************************************************)
(* src/adapter: `invoke`, by which an agent host has the core run one      *)
(* command.  A mutation needs the consumer's approval, good for one launch;*)
(* the core runs as a child process, fed through a pipe, under a timer and *)
(* a bound on its output; and what was seen of the process is mapped to one*)
(* answer.  The core of a mutation may have published when it is killed, or*)
(* when its answer is lost: the adapter may not call that a failure.       *)
(*                                                                         *)
(* Several invocations of one host run at a time and share the set of      *)
(* redeemed nonces.  Each event of the child process is a step.  The core  *)
(* is external: it takes its request, publishes or not, writes one envelope*)
(* that says which, and exits; or it dies anywhere on the way.  The checks *)
(* of the request, of paths and of limits that precede the approval refuse *)
(* or pass; they keep no state.                                            *)
(***************************************************************************)
EXTENDS Naturals, FiniteSets

CONSTANTS
  Invocation,    \* calls of invokeAdapter
  BindingOf,     \* BindingOf[k]: the canonical invocation an approval has to name
  Approval,      \* the approvals the consumer gave: [nonce, binding]
  None

ASSUME AdapterAssumption ==
  /\ DOMAIN BindingOf = Invocation
  /\ \A a, c \in Approval : a.nonce = c.nonce => a = c

VARIABLES
  call,      \* call[k]: the invocation and what it has seen of its process
  core,      \* core[k]: the child process
  redeemed   \* redeemedNonces of the host

vars == <<call, core, redeemed>>

Mutation(k) == call[k].command = "patch"

NewCall ==
  [at |-> "idle", command |-> None, nonce |-> None, started |-> FALSE, error |-> FALSE,
   delivery |-> "unread", latched |-> FALSE, timedOut |-> FALSE, exceeded |-> FALSE,
   captured |-> "nothing", answer |-> None]
NoCore == [at |-> "none", applied |-> FALSE, wrote |-> "nothing", big |-> FALSE]

Init ==
  /\ call = [k \in Invocation |-> NewCall]
  /\ core = [k \in Invocation |-> NoCore]
  /\ redeemed = {}

\* Of what was seen, an answer keeps what it passes on.
Answer(k, answer) ==
  call' = [call EXCEPT ![k] = [NewCall EXCEPT !.at = "done", !.answer = answer,
                                              !.command = call[k].command,
                                              !.nonce = call[k].nonce,
                                              !.captured = call[k].captured]]

-----------------------------------------------------------------------------
(* Up to the launch.                                                       *)

\* The checks that precede the approval.
Begin(k, command) ==
  /\ call[k].at = "idle"
  /\ \/ call' = [call EXCEPT ![k].at = "done", ![k].command = command, ![k].answer = "refused"]
     \/ call' = [call EXCEPT ![k].at = IF command = "patch" THEN "approve" ELSE "launch",
                             ![k].command = command]
  /\ UNCHANGED <<core, redeemed>>

\* verifyTrustedApproval of what the host, asked, has come up with.  The nonce is
\* redeemed before the launch and stays so, whatever the launch comes to.
Authorize(k, a) ==
  /\ call[k].at = "approve"
  /\ IF a.nonce \notin redeemed /\ a.binding = BindingOf[k]
     THEN /\ call' = [call EXCEPT ![k].at = "launch", ![k].nonce = a.nonce]
          /\ redeemed' = redeemed \cup {a.nonce}
     ELSE Answer(k, "refused") /\ UNCHANGED redeemed
  /\ UNCHANGED core

\* The host has none, its resolver throws, or it is not of this time: the clock
\* that decides was read when the invocation began.
NotApproved(k) ==
  /\ call[k].at = "approve"
  /\ Answer(k, "refused")
  /\ UNCHANGED <<core, redeemed>>

-----------------------------------------------------------------------------
(* launchCoreProcess.                                                      *)

Running(k) == call[k].at = "running"
Alive(k) == core[k].at \in {"new", "decided", "written"}

\* spawn: the core starts, or an `error` event says that it did not.
Launch(k) ==
  /\ call[k].at = "launch"
  /\ \/ /\ call' = [call EXCEPT ![k].at = "running", ![k].started = TRUE]
        /\ core' = [core EXCEPT ![k].at = "new"]
     \/ /\ call' = [call EXCEPT ![k].at = "running", ![k].error = TRUE]
        /\ core' = [core EXCEPT ![k].at = "failed"]
  /\ UNCHANGED redeemed

\* The launch itself throws, which is an observation of its own.
LaunchThrows(k) ==
  call[k].at = "launch" /\ Answer(k, "core-launch-failed") /\ UNCHANGED <<core, redeemed>>

\* The write of the request settles: delivered, or failed at a closed pipe.  A
\* fact that is latched stays.  For a mutation it is not consulted.
InputSettles(k) ==
  /\ ~ Mutation(k)
  /\ Running(k) /\ call[k].started /\ ~ call[k].latched
  /\ core[k].at # "new"
  /\ call' = [call EXCEPT ![k].latched = TRUE,
                          ![k].delivery = IF core[k].at \in {"decided", "written"}
                                          THEN "delivered" ELSE "failed"]
  /\ UNCHANGED <<core, redeemed>>

\* terminate: the delivery is latched, then the process tree killed, unless the
\* core has exited; a kill that fails leaves it running and raises `error`.
Kill(k, changes) ==
  \/ /\ call' = [call EXCEPT ![k] = [changes EXCEPT !.latched = ~ Mutation(k)]]
     /\ core' = IF Alive(k) THEN [core EXCEPT ![k].at = "killed"] ELSE core
  \/ /\ Alive(k)
     /\ call' = [call EXCEPT ![k] = [changes EXCEPT !.latched = ~ Mutation(k), !.error = TRUE]]
     /\ UNCHANGED core

\* Mutated: the kill is left to whoever sees too much output.
TimerOnlyNotes(k) ==
  /\ Running(k) /\ ~ call[k].timedOut
  /\ call' = [call EXCEPT ![k].timedOut = TRUE]
  /\ call[k].captured # "nothing"
  /\ UNCHANGED <<core, redeemed>>

\* The timer fires, also between the exit of the core and `close`.
TimerFires(k) ==
  /\ Running(k) /\ ~ call[k].timedOut
  /\ Kill(k, [call[k] EXCEPT !.timedOut = TRUE])
  /\ UNCHANGED redeemed

\* appendBounded: output is captured up to the limit, and beyond it the core
\* terminated.
Data(k) ==
  /\ Running(k)
  /\ core[k].wrote # call[k].captured /\ ~ call[k].exceeded
  /\ IF core[k].big
     THEN Kill(k, [call[k] EXCEPT !.exceeded = TRUE])
     ELSE /\ call' = [call EXCEPT ![k].captured = core[k].wrote]
          /\ UNCHANGED core
  /\ UNCHANGED redeemed

-----------------------------------------------------------------------------
(* mapProcessOutcome.                                                      *)

\* What `close` reports.  A core that did not start has the errno for a status.
Observation(k) ==
  LET c == call[k]
      terminated == c.exceeded \/ c.timedOut
  IN  [started |-> c.started /\ ~ c.error,
       exit |-> CASE core[k].at = "failed" /\ ~ terminated -> "errno"
                  [] core[k].at = "exited" /\ ~ terminated -> "status"
                  [] OTHER -> "null",
       signal |-> core[k].at = "killed" /\ ~ terminated,
       timedOut |-> c.timedOut,
       complete |-> ~ c.exceeded,
       delivery |-> c.delivery,
       envelope |-> IF c.exceeded THEN "garbled" ELSE c.captured]

\* observationIssue: contradictory observations prove nothing.
ObservationIssue(o) ==
  \/ o.exit = "errno"
  \/ ~ o.started /\ (o.exit # "null" \/ o.signal \/ o.timedOut \/ ~ o.complete)
  \/ o.started /\ o.exit # "null" /\ (o.timedOut \/ o.signal)
  \/ o.started /\ o.exit = "null" /\ ~ (o.timedOut \/ o.signal \/ ~ o.complete)

\* validCoreMutationEnvelope: an exact shape, an exit status and a state that agree.
WellFormed == {"committed", "unchanged", "unknown", "foreign"}

\* What a success shows is the item that the request asks for.
Correlated(envelope) == envelope # "foreign"

Envelopes == {e \in WellFormed : Correlated(e)}

Ambiguous(o) ==
  o.timedOut \/ o.signal \/ ~ o.complete \/ o.envelope \notin Envelopes \ {"unknown"}

\* Mutated: a core that reported an error never started.
OutcomeByStart(k, o) ==
  CASE ~ o.started -> "core-launch-failed"
    [] o.started /\ (ObservationIssue(o) \/ Ambiguous(o)) -> "mutation-outcome-unknown"
    [] OTHER -> "ok"

\* mapProcessOutcome: a mutation is unknown unless the observation is consistent
\* and proves that it did not start, or shows a whole answer of the core; for a
\* read the first condition that spoils it is named.
Outcome(k, o) ==
  CASE ObservationIssue(o) ->
         IF Mutation(k) THEN "mutation-outcome-unknown" ELSE "core-observation-incomplete"
    [] ~ ObservationIssue(o) /\ ~ o.started -> "core-launch-failed"
    [] ~ ObservationIssue(o) /\ o.started /\ Mutation(k) ->
         IF Ambiguous(o) THEN "mutation-outcome-unknown" ELSE "ok"
    [] OTHER ->
         IF o.timedOut
         THEN IF o.delivery = "delivered" THEN "core-timeout" ELSE "core-observation-incomplete"
         ELSE IF o.signal THEN "core-signaled"
         ELSE IF ~ o.complete THEN "output-limit-exceeded"
         ELSE IF o.envelope \notin Envelopes THEN "core-protocol-error" ELSE "ok"

\* Mutated: the answer goes out with the `exit` of the core or the timer, before
\* the process is known to be gone.
CloseEarly(k) ==
  /\ Running(k)
  /\ core[k].at \in {"failed", "exited", "killed"} \/ call[k].timedOut
  /\ Answer(k, Outcome(k, Observation(k)))
  /\ UNCHANGED <<core, redeemed>>

\* `close`: the process is gone and its output was read to the end.
Close(k) ==
  /\ Running(k)
  /\ core[k].at \in {"failed", "exited", "killed"}
  /\ core[k].wrote = call[k].captured \/ call[k].exceeded
  /\ Answer(k, Outcome(k, Observation(k)))
  /\ core' = [core EXCEPT ![k] = [NoCore EXCEPT !.at = "gone", !.applied = core[k].applied]]
  /\ UNCHANGED redeemed

-----------------------------------------------------------------------------
(* The core, and the world.                                                *)

CoreStep(k, changes) ==
  /\ core' = [core EXCEPT ![k] = changes]
  /\ UNCHANGED <<call, redeemed>>

\* It takes its request and publishes, or does not; a read never does.
CoreDecides(k) ==
  /\ core[k].at = "new"
  /\ \E applied \in IF Mutation(k) THEN BOOLEAN ELSE {FALSE} :
       CoreStep(k, [core[k] EXCEPT !.at = "decided", !.applied = applied])

\* It writes the truth, or says that it does not know, or shows another item than
\* was asked for, or something else gets into its output; more than the limit,
\* perhaps.  It may refuse unread.
CoreWrites(k) ==
  /\ core[k].at \in {"new", "decided"}
  /\ \E big \in BOOLEAN :
     \E envelope \in {IF core[k].applied THEN "committed" ELSE "unchanged",
                      "unknown", "foreign", "garbled"} :
       CoreStep(k, [core[k] EXCEPT !.at = "written", !.wrote = envelope, !.big = big])

CoreExits(k) ==
  core[k].at = "written" /\ CoreStep(k, [core[k] EXCEPT !.at = "exited"])

\* Killed by somebody else, or out of memory; what it wrote may be cut short.
CoreDies(k) ==
  /\ Alive(k)
  /\ \E wrote \in {core[k].wrote} \cup (IF call[k].captured = "nothing" THEN {"garbled"} ELSE {}) :
       CoreStep(k, [core[k] EXCEPT !.at = "killed", !.wrote = wrote])

Adapt(k) == Launch(k) \/ LaunchThrows(k) \/ NotApproved(k) \/ TimerFires(k) \/ Data(k) \/ Close(k)

Next ==
  \E k \in Invocation :
       \/ \E command \in {"patch", "inspect"} : Begin(k, command)
       \/ Adapt(k) \/ InputSettles(k)
       \/ \E a \in Approval : Authorize(k, a)
       \/ CoreDecides(k) \/ CoreWrites(k) \/ CoreExits(k) \/ CoreDies(k)

\* The event loop of the adapter turns, its timer fires, and a process that was
\* killed in vain ends some day; the core itself may hang.
Ends(k) == CoreDies(k) /\ call[k].timedOut

Spec == Init /\ [][Next]_vars /\ \A k \in Invocation : WF_vars(Adapt(k)) /\ WF_vars(Ends(k))

-----------------------------------------------------------------------------
(* Properties.                                                             *)

\* The answer about a mutation is true, and stays true: one that names a failure
\* or passes the core's "unchanged" on means that nothing was published then or
\* later, one that passes "committed" on that it was.  Whatever else happened is
\* "mutation-outcome-unknown" (adapter-contract.md, section 6).
AnswersAreTrue ==
  \A k \in Invocation : Mutation(k) /\ call[k].at = "done" =>
    CASE call[k].answer = "ok" -> core[k].applied = (call[k].captured = "committed")
      [] call[k].answer \in {"refused", "core-launch-failed"} -> ~ core[k].applied
      [] OTHER -> call[k].answer = "mutation-outcome-unknown"

\* A process that has an answer is gone: nobody waits for an answer and meets a
\* core that still writes.
NothingOutlivesItsAnswer ==
  \A k \in Invocation : call[k].at = "done" => ~ Alive(k)

\* Every launch is answered, even when the core hangs.
EveryLaunchIsAnswered ==
  \A k \in Invocation : call[k].at = "launch" ~> call[k].at = "done"
=============================================================================
