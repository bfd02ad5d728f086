---------------------------- MODULE AdapterProofs ----------------------------
(***************************************************************************)
(* What the adapter answers about a mutation is true, and the core is gone *)
(* by then: for any number of invocations that share the nonces of a host, *)
(* any approvals, and every order of the events of the child processes.    *)
(*                                                                         *)
(* One invocation moves at a time, and touches its own call and core only. *)
(* So the invariant is about the pair of one call and its core, and a step *)
(* is shown to keep it for the pair that moves.                            *)
(***************************************************************************)
EXTENDS Adapter, TLAPS

Written == {"nothing", "committed", "unchanged", "unknown", "foreign", "garbled"}

Answers ==
  {"ok", "refused", "core-launch-failed", "mutation-outcome-unknown", "core-timeout",
   "core-observation-incomplete", "core-signaled", "output-limit-exceeded",
   "core-protocol-error"}

Nonces == {None} \cup {a.nonce : a \in Approval}

CallRecord ==
  [at : {"idle", "approve", "launch", "running", "done"},
   command : {None, "patch", "inspect"},
   nonce : Nonces,
   started : BOOLEAN, error : BOOLEAN, delivery : {"unread", "delivered", "failed"},
   latched : BOOLEAN, timedOut : BOOLEAN, exceeded : BOOLEAN,
   captured : Written, answer : {None} \cup Answers]

CoreRecord ==
  [at : {"none", "new", "failed", "decided", "written", "exited", "killed", "gone"},
   applied : BOOLEAN, wrote : Written, big : BOOLEAN]

Types == call \in [Invocation -> CallRecord] /\ core \in [Invocation -> CoreRecord]

\* An envelope of a core is true of it, or says nothing.
Truthful(envelope, d) ==
  (envelope = "committed" => d.applied) /\ (envelope = "unchanged" => ~ d.applied)

\* The life of the core follows that of the call: none before the launch, none left
\* after the answer.
InStep(c, d) ==
  /\ c.at \in {"idle", "approve", "launch"} =>
       /\ d.at = "none"
       /\ ~ c.started /\ ~ c.error /\ ~ c.timedOut /\ ~ c.exceeded /\ c.captured = "nothing"
  /\ c.at = "running" => d.at \notin {"none", "gone"}
  /\ c.at = "done" => d.at \in {"none", "gone"}

\* What was published and written so far, and what was read of it.
HasWritten(c, d) ==
  /\ d.at \in {"none", "failed", "new"} => ~ d.applied
  /\ d.at \in {"none", "failed", "new", "decided"} => d.wrote = "nothing" /\ c.captured = "nothing"
  /\ Truthful(d.wrote, d) /\ Truthful(c.captured, d)

\* A core that did start is taken for one that did not only after a kill.
ErrorsExplained(c, d) ==
  c.at = "running" => /\ c.started = (d.at # "failed")
                      /\ c.started /\ c.error => c.timedOut \/ c.exceeded

\* AnswersAreTrue, of one invocation.
AnswerIsTrue(c, d) ==
  c.command = "patch" /\ c.at = "done" =>
    /\ c.answer \in {"ok", "refused", "core-launch-failed", "mutation-outcome-unknown"}
    /\ c.answer = "ok" => d.applied = (c.captured = "committed")
    /\ c.answer \in {"refused", "core-launch-failed"} => ~ d.applied

Sound(c, d) ==
  InStep(c, d) /\ HasWritten(c, d) /\ ErrorsExplained(c, d) /\ AnswerIsTrue(c, d)

IInv == Types /\ \A k \in Invocation : Sound(call[k], core[k])

\* Only invocation k moves.
Moves(k) ==
  /\ call' = [call EXCEPT ![k] = call'[k]]
  /\ core' = [core EXCEPT ![k] = core'[k]]

-----------------------------------------------------------------------------
\* Nothing has happened yet, of any invocation.
LEMMA InitSound == Init => IInv
<1> SUFFICES ASSUME Init PROVE IInv
  OBVIOUS
<1>1. NewCall \in CallRecord /\ NoCore \in CoreRecord
  BY DEF NewCall, NoCore, CallRecord, CoreRecord, Written, Nonces
<1>2. Sound(NewCall, NoCore)
  BY DEF NewCall, NoCore, Sound, InStep, HasWritten, ErrorsExplained, AnswerIsTrue, Truthful
<1> QED
  BY <1>1, <1>2 DEF Init, IInv, Types

\* It is enough to look at the invocation that moves.
LEMMA OthersStay ==
  ASSUME IInv, NEW k \in Invocation, Moves(k),
         call'[k] \in CallRecord, core'[k] \in CoreRecord, Sound(call'[k], core'[k])
  PROVE  IInv'
<1>1. Types'
  BY DEF IInv, Types, Moves
<1>2. \A j \in Invocation : Sound(call'[j], core'[j])
  BY DEF IInv, Types, Moves
<1> QED
  BY <1>1, <1>2 DEF IInv, Sound, InStep, HasWritten, ErrorsExplained, AnswerIsTrue, Truthful

\* A refusal before the launch, and a launch that throws, published nothing.
LEMMA AnswerBeforeLaunch ==
  ASSUME IInv, NEW k \in Invocation, call[k].at \in {"approve", "launch"},
         NEW answer \in {"refused", "core-launch-failed"},
         Answer(k, answer), UNCHANGED core
  PROVE  IInv'
<1> DEFINE c == [NewCall EXCEPT !.at = "done", !.answer = answer,
                                !.command = call[k].command, !.nonce = call[k].nonce,
                                !.captured = call[k].captured]
<1>1. call[k] \in CallRecord /\ core[k] \in CoreRecord /\ Sound(call[k], core[k])
  BY DEF IInv, Types
<1>2. Moves(k) /\ call'[k] = c /\ core'[k] = core[k]
  BY DEF Answer, Moves, IInv, Types
<1>3. answer \in Answers
  BY DEF Answers
<1>4. c \in CallRecord /\ c.at = "done" /\ c.answer = answer /\ c.captured = call[k].captured
  BY <1>1, <1>3 DEF CallRecord, NewCall, Written
<1>5. core[k].at = "none" /\ HasWritten(c, core[k]) /\ ~ core[k].applied
  BY <1>1, <1>4 DEF Sound, InStep, HasWritten
<1>6. Sound(c, core[k])
  BY <1>4, <1>5 DEF Sound, InStep, ErrorsExplained, AnswerIsTrue
<1> QED
  BY <1>1, <1>2, <1>4, <1>6, OthersStay

\* The steps up to the launch.
LEMMA BeforeLaunch ==
  ASSUME IInv, NEW k \in Invocation, NEW command \in {"patch", "inspect"}, Begin(k, command)
  PROVE  IInv'
<1> USE DEF IInv, Types
<1>1. Moves(k) /\ core'[k] = core[k] /\ call[k].at = "idle"
  BY DEF Begin, Moves
<1>2. call'[k] \in CallRecord
  BY DEF Begin, CallRecord, Answers
<1>3. Sound(call'[k], core'[k])
  BY <1>1 DEF Begin, Sound, InStep, HasWritten, ErrorsExplained, AnswerIsTrue, Truthful, CallRecord
<1> QED
  BY <1>1, <1>2, <1>3, OthersStay

LEMMA AuthorizeSound ==
  ASSUME IInv, NEW k \in Invocation, NEW a \in Approval, Authorize(k, a)
  PROVE  IInv'
<1>1. CASE a.nonce \notin redeemed /\ a.binding = BindingOf[k]
  <2>1. call' = [call EXCEPT ![k].at = "launch", ![k].nonce = a.nonce] /\ core' = core
    BY <1>1 DEF Authorize
  <2>2. /\ call[k] \in CallRecord /\ core[k] \in CoreRecord /\ Sound(call[k], core[k])
        /\ call[k].at = "approve"
    BY DEF IInv, Types, Authorize
  <2>3. Moves(k) /\ core'[k] = core[k]
    BY <2>1 DEF Moves, IInv, Types
  <2>4. call'[k] = [call[k] EXCEPT !.at = "launch", !.nonce = a.nonce]
    BY <2>1 DEF IInv, Types
  <2>5. call'[k] \in CallRecord
    <3>1. a.nonce \in Nonces
      BY DEF Nonces
    <3> QED
      BY <2>2, <2>4, <3>1 DEF CallRecord
  <2>6. Sound(call'[k], core'[k])
    <3>1. /\ call'[k].at = "launch" /\ call'[k].started = call[k].started
          /\ call'[k].error = call[k].error /\ call'[k].timedOut = call[k].timedOut
          /\ call'[k].exceeded = call[k].exceeded /\ call'[k].captured = call[k].captured
      BY <2>2, <2>4 DEF CallRecord
    <3> QED
      BY <2>2, <2>3, <3>1
         DEF Sound, InStep, HasWritten, ErrorsExplained, AnswerIsTrue, Truthful
  <2> QED
    BY <2>2, <2>3, <2>5, <2>6, OthersStay
<1>2. CASE ~ (a.nonce \notin redeemed /\ a.binding = BindingOf[k])
  BY <1>2, AnswerBeforeLaunch DEF Authorize
<1> QED
  BY <1>1, <1>2

-----------------------------------------------------------------------------
(* What the child process does.                                            *)

\* A core that starts has done nothing; one that does not start never will.
LEMMA LaunchSound ==
  ASSUME IInv, NEW k \in Invocation, Launch(k)
  PROVE  IInv'
<1>1. /\ call[k] \in CallRecord /\ core[k] \in CoreRecord /\ Sound(call[k], core[k])
      /\ call[k].at = "launch"
  BY DEF IInv, Types, Launch
<1>2. /\ core[k].at = "none" /\ ~ call[k].started /\ ~ call[k].error /\ ~ call[k].timedOut
      /\ ~ call[k].exceeded /\ call[k].captured = "nothing"
      /\ ~ core[k].applied /\ core[k].wrote = "nothing"
  BY <1>1 DEF Sound, InStep, HasWritten
<1>3. CASE /\ call' = [call EXCEPT ![k].at = "running", ![k].started = TRUE]
           /\ core' = [core EXCEPT ![k].at = "new"]
  <2>1. Moves(k) /\ call'[k] = [call[k] EXCEPT !.at = "running", !.started = TRUE]
                 /\ core'[k] = [core[k] EXCEPT !.at = "new"]
    BY <1>3 DEF Moves, IInv, Types
  <2>2. /\ call'[k] \in CallRecord
        /\ call'[k].at = "running" /\ call'[k].started = TRUE /\ call'[k].error = FALSE
        /\ call'[k].captured = "nothing"
    BY <1>1, <1>2, <2>1 DEF CallRecord
  <2>3. /\ core'[k] \in CoreRecord
        /\ core'[k].at = "new" /\ ~ core'[k].applied /\ core'[k].wrote = "nothing"
    BY <1>1, <1>2, <2>1 DEF CoreRecord
  <2>4. Sound(call'[k], core'[k])
    BY <2>2, <2>3 DEF Sound, InStep, HasWritten, ErrorsExplained, AnswerIsTrue, Truthful
  <2> QED
    BY <2>1, <2>2, <2>3, <2>4, OthersStay
<1>4. CASE /\ call' = [call EXCEPT ![k].at = "running", ![k].error = TRUE]
           /\ core' = [core EXCEPT ![k].at = "failed"]
  <2>1. Moves(k) /\ call'[k] = [call[k] EXCEPT !.at = "running", !.error = TRUE]
                 /\ core'[k] = [core[k] EXCEPT !.at = "failed"]
    BY <1>4 DEF Moves, IInv, Types
  <2>2. /\ call'[k] \in CallRecord
        /\ call'[k].at = "running" /\ call'[k].started = FALSE /\ call'[k].captured = "nothing"
    BY <1>1, <1>2, <2>1 DEF CallRecord
  <2>3. /\ core'[k] \in CoreRecord
        /\ core'[k].at = "failed" /\ ~ core'[k].applied /\ core'[k].wrote = "nothing"
    BY <1>1, <1>2, <2>1 DEF CoreRecord
  <2>4. Sound(call'[k], core'[k])
    BY <2>2, <2>3 DEF Sound, InStep, HasWritten, ErrorsExplained, AnswerIsTrue, Truthful
  <2> QED
    BY <2>1, <2>2, <2>3, <2>4, OthersStay
<1> QED
  BY <1>3, <1>4 DEF Launch

\* A step of the core: the call has seen nothing of it yet.
LEMMA CoreStepSound ==
  ASSUME IInv, NEW k \in Invocation, NEW d \in CoreRecord, CoreStep(k, d),
         core[k].at \in {"new", "decided", "written"},
         d.at \in {"decided", "written", "exited", "killed"},
         HasWritten(call[k], d)
  PROVE  IInv'
<1> USE DEF IInv, Types
<1>1. Moves(k) /\ call'[k] = call[k] /\ core'[k] = d
  BY DEF CoreStep, Moves
<1>2. call[k].at = "running"
  BY DEF Sound, InStep, CallRecord
<1>3. Sound(call[k], d)
  BY <1>2 DEF Sound, InStep, ErrorsExplained, AnswerIsTrue
<1> QED
  BY <1>1, <1>3, OthersStay

\* The core is external: of its steps it is used that an envelope is written after
\* the decision, and is true.
LEMMA CoreSound ==
  ASSUME IInv, NEW k \in Invocation, CoreDecides(k) \/ CoreWrites(k) \/ CoreExits(k) \/ CoreDies(k)
  PROVE  IInv'
<1>1. core[k] \in CoreRecord /\ HasWritten(call[k], core[k])
  BY DEF IInv, Types, Sound
<1>2. CASE CoreDecides(k)
  <2>1. PICK applied \in BOOLEAN :
          CoreStep(k, [core[k] EXCEPT !.at = "decided", !.applied = applied])
    BY <1>2 DEF CoreDecides
  <2> DEFINE d == [core[k] EXCEPT !.at = "decided", !.applied = applied]
  <2>2. d \in CoreRecord /\ d.at = "decided" /\ d.wrote = core[k].wrote /\ core[k].at = "new"
    BY <1>1, <1>2 DEF CoreRecord, CoreDecides
  <2>3. HasWritten(call[k], d)
    BY <1>1, <2>2 DEF HasWritten, Truthful
  <2> QED
    BY <2>1, <2>2, <2>3, CoreStepSound
<1>3. CASE CoreWrites(k)
  <2>1. PICK big \in BOOLEAN,
             envelope \in {IF core[k].applied THEN "committed" ELSE "unchanged",
                           "unknown", "foreign", "garbled"} :
          CoreStep(k, [core[k] EXCEPT !.at = "written", !.wrote = envelope, !.big = big])
    BY <1>3 DEF CoreWrites
  <2> DEFINE d == [core[k] EXCEPT !.at = "written", !.wrote = envelope, !.big = big]
  <2>2. /\ d \in CoreRecord /\ d.at = "written"
        /\ d.wrote = envelope /\ d.applied = core[k].applied
        /\ core[k].at \in {"new", "decided"}
    BY <1>1, <1>3 DEF CoreRecord, CoreWrites, Written
  <2>3. HasWritten(call[k], d)
    BY <1>1, <2>2 DEF HasWritten, Truthful
  <2> QED
    BY <2>1, <2>2, <2>3, CoreStepSound
<1>4. CASE CoreExits(k)
  <2> DEFINE d == [core[k] EXCEPT !.at = "exited"]
  <2>1. CoreStep(k, d) /\ core[k].at = "written"
    BY <1>4 DEF CoreExits
  <2>2. /\ d \in CoreRecord /\ d.at = "exited"
        /\ d.wrote = core[k].wrote /\ d.applied = core[k].applied
    BY <1>1 DEF CoreRecord
  <2>3. HasWritten(call[k], d)
    BY <1>1, <2>2 DEF HasWritten, Truthful
  <2> QED
    BY <2>1, <2>2, <2>3, CoreStepSound
<1>5. CASE CoreDies(k)
  <2>1. PICK wrote \in {core[k].wrote, "garbled"} :
          CoreStep(k, [core[k] EXCEPT !.at = "killed", !.wrote = wrote])
    BY <1>5 DEF CoreDies
  <2> DEFINE d == [core[k] EXCEPT !.at = "killed", !.wrote = wrote]
  <2>2. /\ d \in CoreRecord /\ d.at = "killed"
        /\ d.wrote = wrote /\ d.applied = core[k].applied
    BY <1>1 DEF CoreRecord, Written
  <2>3. HasWritten(call[k], d)
    BY <1>1, <2>2 DEF HasWritten, Truthful
  <2>4. core[k].at \in {"new", "decided", "written"}
    BY <1>5 DEF CoreDies, Alive
  <2> QED
    BY <2>1, <2>2, <2>3, <2>4, CoreStepSound
<1> QED
  BY <1>2, <1>3, <1>4, <1>5

\* What a kill notes of itself.
Notes(n, c) ==
  \E latched \in BOOLEAN : \/ n = [c EXCEPT !.latched = latched]
                           \/ n = [c EXCEPT !.latched = latched, !.error = TRUE]

\* It leaves the rest of the call as it was.
LEMMA KillNotes ==
  ASSUME NEW c \in CallRecord, NEW n, Notes(n, c)
  PROVE  /\ n \in CallRecord
         /\ n.at = c.at /\ n.started = c.started /\ n.captured = c.captured
         /\ n.timedOut = c.timedOut /\ n.exceeded = c.exceeded
<1>1. ASSUME NEW latched \in BOOLEAN, n = [c EXCEPT !.latched = latched]
      PROVE  /\ n \in CallRecord
             /\ n.at = c.at /\ n.started = c.started /\ n.captured = c.captured
             /\ n.timedOut = c.timedOut /\ n.exceeded = c.exceeded
  BY <1>1 DEF CallRecord
<1>2. ASSUME NEW latched \in BOOLEAN, n = [c EXCEPT !.latched = latched, !.error = TRUE]
      PROVE  /\ n \in CallRecord
             /\ n.at = c.at /\ n.started = c.started /\ n.captured = c.captured
             /\ n.timedOut = c.timedOut /\ n.exceeded = c.exceeded
  BY <1>2 DEF CallRecord
<1> QED
  BY <1>1, <1>2 DEF Notes

\* A kill, by the timer or the bound on the output: a core that was running may be
\* killed, and a call may take note of what happened to it.
LEMMA KillSound ==
  ASSUME IInv, NEW k \in Invocation, Running(k), NEW c \in CallRecord,
         c.at = call[k].at, c.started = call[k].started, c.error = call[k].error,
         c.captured = call[k].captured, c.timedOut \/ c.exceeded, Kill(k, c)
  PROVE  IInv'
<1> USE DEF IInv, Types
<1> DEFINE killed == [core[k] EXCEPT !.at = "killed"]
<1>1. Notes(call'[k], c)
  BY DEF Kill, Notes, Mutation
<1>2. core'[k] = core[k] \/ (core'[k] = killed /\ Alive(k))
  BY DEF Kill
<1>3. Moves(k)
  BY DEF Kill, Moves
<1>4. /\ call'[k] \in CallRecord
      /\ call'[k].at = c.at /\ call'[k].started = c.started /\ call'[k].captured = c.captured
      /\ call'[k].timedOut = c.timedOut /\ call'[k].exceeded = c.exceeded
  BY <1>1, KillNotes
<1>5. /\ core'[k] \in CoreRecord
      /\ core'[k].applied = core[k].applied /\ core'[k].wrote = core[k].wrote
      /\ core'[k].at = core[k].at \/ (core'[k].at = "killed" /\ Alive(k))
  BY <1>2 DEF CoreRecord
<1>6. Sound(call[k], core[k]) /\ call'[k].at = "running" /\ (core[k].at = "failed" => ~ Alive(k))
  BY <1>4 DEF Running, Alive
<1>7. InStep(call'[k], core'[k]) /\ HasWritten(call'[k], core'[k])
  BY <1>4, <1>5, <1>6 DEF Sound, InStep, HasWritten, Truthful, Alive, Running
<1>8. Sound(call'[k], core'[k])
  BY <1>4, <1>5, <1>6, <1>7 DEF Sound, ErrorsExplained, AnswerIsTrue, Running
<1> QED
  BY <1>3, <1>4, <1>5, <1>8, OthersStay

\* The bytes of a core that is gone are read as they were written, and the delivery
\* of a request says nothing about them.
LEMMA ReadingSound ==
  ASSUME IInv, NEW k \in Invocation, InputSettles(k) \/ Data(k)
  PROVE  IInv'
<1>1. call[k] \in CallRecord /\ core[k] \in CoreRecord /\ Sound(call[k], core[k]) /\ Running(k)
  BY DEF IInv, Types, InputSettles, Data
<1>2. CASE InputSettles(k)
  <2>1. PICK delivery \in {"delivered", "failed"} :
          call' = [call EXCEPT ![k].latched = TRUE, ![k].delivery = delivery]
    BY <1>2 DEF InputSettles
  <2>2. Moves(k) /\ core'[k] = core[k]
    BY <1>2, <2>1 DEF InputSettles, Moves, IInv, Types
  <2>3. /\ call'[k] \in CallRecord
        /\ call'[k].at = call[k].at /\ call'[k].started = call[k].started
        /\ call'[k].error = call[k].error /\ call'[k].captured = call[k].captured
        /\ call'[k].timedOut = call[k].timedOut /\ call'[k].exceeded = call[k].exceeded
    BY <1>1, <2>1 DEF IInv, Types, CallRecord
  <2>4. Sound(call'[k], core[k])
    BY <1>1, <2>3 DEF Sound, InStep, HasWritten, ErrorsExplained, AnswerIsTrue, Truthful, Running
  <2> QED
    BY <1>1, <2>2, <2>3, <2>4, OthersStay
<1>3. CASE Data(k) /\ core[k].big
  <2> DEFINE c == [call[k] EXCEPT !.exceeded = TRUE]
  <2>1. Kill(k, c)
    BY <1>3 DEF Data
  <2>2. /\ c \in CallRecord /\ c.exceeded
        /\ c.at = call[k].at /\ c.started = call[k].started /\ c.error = call[k].error
        /\ c.captured = call[k].captured
    BY <1>1 DEF CallRecord
  <2> QED
    BY <1>1, <2>1, <2>2, KillSound
<1>4. CASE Data(k) /\ ~ core[k].big
  <2>1. call' = [call EXCEPT ![k].captured = core[k].wrote] /\ UNCHANGED core
    BY <1>4 DEF Data
  <2>2. Moves(k) /\ core'[k] = core[k]
    BY <2>1 DEF Moves, IInv, Types
  <2>3. /\ call'[k] \in CallRecord
        /\ call'[k].at = call[k].at /\ call'[k].started = call[k].started
        /\ call'[k].error = call[k].error /\ call'[k].captured = core[k].wrote
        /\ call'[k].timedOut = call[k].timedOut /\ call'[k].exceeded = call[k].exceeded
    BY <1>1, <2>1 DEF IInv, Types, CallRecord, CoreRecord
  <2>4. HasWritten(call'[k], core[k])
    <3>1. HasWritten(call[k], core[k]) /\ call'[k].captured = core[k].wrote
      BY <1>1, <2>3 DEF Sound
    <3> QED
      BY <3>1 DEF HasWritten
  <2>5. Sound(call'[k], core[k])
    BY <1>1, <2>3, <2>4 DEF Sound, InStep, ErrorsExplained, AnswerIsTrue, Running
  <2> QED
    BY <1>1, <2>2, <2>3, <2>5, OthersStay
<1> QED
  BY <1>2, <1>3, <1>4

LEMMA TimerSound ==
  ASSUME IInv, NEW k \in Invocation, TimerFires(k)
  PROVE  IInv'
<1> DEFINE c == [call[k] EXCEPT !.timedOut = TRUE]
<1>1. call[k] \in CallRecord
  BY DEF IInv, Types
<1>2. /\ c \in CallRecord /\ c.timedOut
      /\ c.at = call[k].at /\ c.started = call[k].started /\ c.error = call[k].error
      /\ c.captured = call[k].captured
  BY <1>1 DEF CallRecord
<1> QED
  BY <1>2, KillSound DEF TimerFires

-----------------------------------------------------------------------------
(* The answer.                                                             *)

\* What an answer about a mutation lets conclude of the observation it is of.
LEMMA OutcomeOfMutation ==
  ASSUME NEW k \in Invocation, Mutation(k), NEW o
  PROVE  /\ Outcome(k, o) \in {"ok", "core-launch-failed", "mutation-outcome-unknown"}
         /\ Outcome(k, o) = "ok" => ~ Ambiguous(o)
         /\ Outcome(k, o) = "core-launch-failed" => ~ ObservationIssue(o) /\ ~ o.started
<1>1. CASE ObservationIssue(o)
  BY <1>1 DEF Outcome
<1>2. CASE ~ ObservationIssue(o) /\ ~ o.started
  BY <1>2 DEF Outcome
<1>3. CASE ~ ObservationIssue(o) /\ o.started
  BY <1>3 DEF Outcome
<1> QED
  BY <1>1, <1>2, <1>3

LEMMA OutcomeIsAnAnswer ==
  ASSUME NEW k \in Invocation, NEW o
  PROVE  Outcome(k, o) \in Answers
<1>1. CASE ObservationIssue(o)
  BY <1>1 DEF Outcome, Answers
<1>2. CASE ~ ObservationIssue(o) /\ ~ o.started
  BY <1>2 DEF Outcome, Answers
<1>3. CASE ~ ObservationIssue(o) /\ o.started /\ Mutation(k)
  BY <1>3 DEF Outcome, Answers
<1>4. CASE ~ ObservationIssue(o) /\ o.started /\ ~ Mutation(k)
  BY <1>4 DEF Outcome, Answers
<1> QED
  BY <1>1, <1>2, <1>3, <1>4

\* `close`, of a core that is gone.
LEMMA CloseSound ==
  ASSUME IInv, NEW k \in Invocation, Close(k)
  PROVE  IInv'
<1> DEFINE o == Observation(k)
           c == [NewCall EXCEPT !.at = "done", !.answer = Outcome(k, o),
                                !.command = call[k].command, !.nonce = call[k].nonce,
                                !.captured = call[k].captured]
           d == [NoCore EXCEPT !.at = "gone", !.applied = core[k].applied]
<1>1. call[k] \in CallRecord /\ core[k] \in CoreRecord /\ Sound(call[k], core[k]) /\ Running(k)
  BY DEF IInv, Types, Close
<1>2. call' = [call EXCEPT ![k] = c] /\ core' = [core EXCEPT ![k] = d]
  BY DEF Close, Answer
<1>3. Moves(k) /\ call'[k] = c /\ core'[k] = d
  BY <1>2 DEF Moves, IInv, Types
<1>4. /\ c \in CallRecord /\ c.at = "done" /\ c.command = call[k].command
      /\ c.answer = Outcome(k, o) /\ c.captured = call[k].captured
  BY <1>1, OutcomeIsAnAnswer DEF CallRecord, NewCall, Written
<1>5. d \in CoreRecord /\ d.at = "gone" /\ d.applied = core[k].applied /\ d.wrote = "nothing"
  BY <1>1 DEF CoreRecord, NoCore, Written
<1>6. /\ o.started = (call[k].started /\ ~ call[k].error)
      /\ o.timedOut = call[k].timedOut
      /\ o.complete = ~ call[k].exceeded
      /\ ~ call[k].exceeded => o.envelope = call[k].captured
      /\ core[k].at = "failed" /\ ~ call[k].timedOut /\ ~ call[k].exceeded => o.exit = "errno"
  BY DEF Observation
<1>7. ASSUME Mutation(k), Outcome(k, o) = "ok"
      PROVE  core[k].applied = (call[k].captured = "committed")
  <2>1. ~ Ambiguous(o)
    BY <1>7, OutcomeOfMutation
  <2>2. call[k].captured \in {"committed", "unchanged"}
    BY <1>6, <2>1 DEF Ambiguous, Envelopes, WellFormed, Correlated
  <2> QED
    BY <1>1, <2>2 DEF Sound, HasWritten, Truthful, CoreRecord
<1>8. ASSUME Mutation(k) PROVE Outcome(k, o) # "core-launch-failed"
  <2>1. SUFFICES ASSUME ~ ObservationIssue(o), ~ o.started PROVE FALSE
    BY <1>8, OutcomeOfMutation
  <2>2. ~ o.timedOut /\ o.complete /\ o.exit # "errno"
    BY <2>1 DEF ObservationIssue
  <2>3. ~ call[k].timedOut /\ ~ call[k].exceeded
    BY <1>6, <2>2
  <2>4. ~ call[k].started
    BY <1>1, <1>6, <2>1, <2>3 DEF Sound, ErrorsExplained, Running
  <2>5. core[k].at = "failed"
    BY <1>1, <2>4 DEF Sound, ErrorsExplained, Running
  <2> QED
    BY <1>6, <2>2, <2>3, <2>5
<1>9. AnswerIsTrue(c, d)
  <2> SUFFICES ASSUME Mutation(k) PROVE AnswerIsTrue(c, d)
    BY <1>4 DEF AnswerIsTrue, Mutation
  <2>1. c.answer \in {"ok", "mutation-outcome-unknown"}
    BY <1>4, <1>8, OutcomeOfMutation
  <2> QED
    BY <1>4, <1>5, <1>7, <2>1 DEF AnswerIsTrue
<1>10. HasWritten(c, d)
  BY <1>1, <1>4, <1>5 DEF Sound, HasWritten, Truthful
<1>11. Sound(c, d)
  BY <1>4, <1>5, <1>9, <1>10 DEF Sound, InStep, ErrorsExplained
<1> QED
  BY <1>3, <1>4, <1>5, <1>11, OthersStay

-----------------------------------------------------------------------------
(* The theorems.                                                           *)

LEMMA Invariance == Spec => []IInv
<1>1. IInv /\ [Next]_vars => IInv'
  <2> SUFFICES ASSUME IInv, [Next]_vars PROVE IInv'
    OBVIOUS
  <2>1. CASE UNCHANGED vars
    BY <2>1 DEF vars, IInv, Types, Sound, InStep, HasWritten, ErrorsExplained, AnswerIsTrue, Truthful
  <2>2. ASSUME NEW k \in Invocation, NEW command \in {"patch", "inspect"}, Begin(k, command)
        PROVE  IInv'
    BY <2>2, BeforeLaunch
  <2>3. ASSUME NEW k \in Invocation, NEW a \in Approval, Authorize(k, a) PROVE IInv'
    BY <2>3, AuthorizeSound
  <2>4. ASSUME NEW k \in Invocation, NotApproved(k) \/ LaunchThrows(k) PROVE IInv'
    BY <2>4, AnswerBeforeLaunch DEF NotApproved, LaunchThrows
  <2>5. ASSUME NEW k \in Invocation, Launch(k) PROVE IInv'
    BY <2>5, LaunchSound
  <2>6. ASSUME NEW k \in Invocation, TimerFires(k) PROVE IInv'
    BY <2>6, TimerSound
  <2>7. ASSUME NEW k \in Invocation, InputSettles(k) \/ Data(k) PROVE IInv'
    BY <2>7, ReadingSound
  <2>8. ASSUME NEW k \in Invocation, Close(k) PROVE IInv'
    BY <2>8, CloseSound
  <2>9. ASSUME NEW k \in Invocation,
               CoreDecides(k) \/ CoreWrites(k) \/ CoreExits(k) \/ CoreDies(k)
        PROVE  IInv'
    BY <2>9, CoreSound
  <2> QED
    BY <2>1, <2>2, <2>3, <2>4, <2>5, <2>6, <2>7, <2>8, <2>9 DEF Next, Adapt
<1> QED
  BY <1>1, InitSound, PTL DEF Spec

\* The answer about a mutation is true: `invoke` of src/adapter names a failure, or
\* passes an answer of the core on, only when that is what the core did.
THEOREM AdapterTellsTheTruth == Spec => []AnswersAreTrue
<1>1. IInv => AnswersAreTrue
  <2> SUFFICES ASSUME IInv, NEW k \in Invocation, Mutation(k), call[k].at = "done"
               PROVE  CASE call[k].answer = "ok" -> core[k].applied = (call[k].captured = "committed")
                        [] call[k].answer \in {"refused", "core-launch-failed"} -> ~ core[k].applied
                        [] OTHER -> call[k].answer = "mutation-outcome-unknown"
    BY DEF AnswersAreTrue
  <2>1. AnswerIsTrue(call[k], core[k]) /\ call[k].command = "patch"
    BY DEF IInv, Sound, Mutation
  <2> QED
    BY <2>1 DEF AnswerIsTrue
<1> QED
  BY <1>1, Invariance, PTL

\* No core is alive once its call is answered.
THEOREM CoresDoNotLinger == Spec => []NothingOutlivesItsAnswer
<1>1. IInv => NothingOutlivesItsAnswer
  BY DEF IInv, Sound, InStep, NothingOutlivesItsAnswer, Alive
<1> QED
  BY <1>1, Invariance, PTL

=============================================================================
