----------------------------- MODULE ModelClient -----------------------------
(***************************************************************************)
(* The client of the model provider: one evaluation is up to three         *)
(* attempts within one logical deadline.  The client sends a request,      *)
(* waits for its answer or for the attempt's timeout, backs off and tries  *)
(* again; the first usable answer of a run pins the model that all later   *)
(* evaluations must come from.                                             *)
(*                                                                         *)
(* A question is the set of its admissible answers, and the provider       *)
(* answers a set of questions or something else.                           *)
(***************************************************************************)
EXTENDS Naturals

CONSTANTS
  Models,          \* the models the provider may answer with
  Unpinned,        \* no model is pinned yet
  RetryDelays,     \* the delays the provider may ask for
  BACKOFF,         \* the delay before another attempt
  ATTEMPT_TIMEOUT, \* how long one attempt may take
  LOGICAL_TIMEOUT, \* how long one evaluation may take
  MaxTime          \* bound on the clock

ASSUME ClientAssumption ==
  /\ Unpinned \notin Models
  /\ RetryDelays \subseteq Nat
  /\ {BACKOFF, ATTEMPT_TIMEOUT, LOGICAL_TIMEOUT, MaxTime} \subseteq Nat

VARIABLES
  now,      \* the clock, which stands still while the run is paused
  pinned,   \* the model the run is pinned to
  call,     \* the evaluation in progress, or how it ended
  models,   \* history: the models whose answers were used
  asked     \* history: when the evaluation began

clientVars == <<now, pinned, call, models, asked>>

(* Phases: "idle", "sending", "waiting", "backoff", "answered", "failed".   *)
Idle == [phase |-> "idle", questions |-> <<>>, attempt |-> 0, logical |-> 0, until |-> 0,
         answers |-> <<>>, error |-> "none"]

Earlier(m, n) == IF m < n THEN m ELSE n

(* Mutant of Evaluate: only the run's own deadline ends an evaluation.      *)
EvaluateWithinRun(questions, deadline) ==
  /\ call' = [Idle EXCEPT !.phase = "sending", !.questions = questions, !.logical = deadline]
  /\ asked' = now

Evaluate(questions, deadline) ==
  /\ call' = [Idle EXCEPT !.phase = "sending", !.questions = questions,
                          !.logical = Earlier(deadline, now + LOGICAL_TIMEOUT)]
  /\ asked' = now

CanRetry == call.attempt < 2

Fail(error) == call' = [Idle EXCEPT !.phase = "failed", !.error = error]

(* Another attempt must begin before the logical deadline.                  *)
WaitBeforeRetry(delay) ==
  IF now + delay >= call.logical
    THEN Fail("deadline")
    ELSE call' = [call EXCEPT !.phase = "backoff", !.until = now + delay]

RetryOr(error, delay) == IF CanRetry THEN WaitBeforeRetry(delay) ELSE Fail(error)

(* An attempt is sent if time is left, and waits for no more than that.     *)
Send ==
  /\ call.phase = "sending"
  /\ IF call.logical < now
       THEN Fail("deadline")
       ELSE call' = [call EXCEPT !.phase = "waiting",
                       !.until = Earlier(now + ATTEMPT_TIMEOUT, call.logical)]
  /\ UNCHANGED <<now, pinned, models, asked>>

WakeUp ==
  /\ call.phase = "backoff" /\ call.until <= now
  /\ call' = [call EXCEPT !.phase = "sending", !.attempt = @ + 1]
  /\ UNCHANGED <<now, pinned, models, asked>>

Waiting == call.phase = "waiting"
InTime == Waiting /\ now <= call.until

(* Every question has an answer that is admissible, and no other has one.   *)
Usable(answers) ==
  /\ DOMAIN answers = DOMAIN call.questions
  /\ \A id \in DOMAIN answers : answers[id] \in call.questions[id]

(* Mutant of Answered: the model of a later answer may be another one.      *)
AnsweredByAny(model, answers) ==
  /\ IF Usable(answers)
       THEN /\ call' = [Idle EXCEPT !.phase = "answered", !.answers = answers]
            /\ pinned' = model
            /\ models' = models \cup {model}
       ELSE /\ RetryOr("invalid_response", BACKOFF)
            /\ UNCHANGED <<pinned, models>>
  /\ UNCHANGED <<now, asked>>

(* An answer that cannot be used, or of another model, is asked for again;  *)
(* only one that can be used pins the model.                                *)
Answered(model, answers) ==
  /\ IF Usable(answers) /\ pinned \in {Unpinned, model}
       THEN /\ call' = [Idle EXCEPT !.phase = "answered", !.answers = answers]
            /\ pinned' = model
            /\ models' = models \cup {model}
       ELSE /\ RetryOr(IF Usable(answers) THEN "model_changed" ELSE "invalid_response", BACKOFF)
            /\ UNCHANGED <<pinned, models>>
  /\ UNCHANGED <<now, asked>>

(* The provider is overloaded or broken, and may say when to come back; or  *)
(* it cannot be connected to.                                               *)
TurnedAway ==
  /\ \E delay \in RetryDelays \cup {BACKOFF} : RetryOr("unavailable", delay)
  /\ UNCHANGED <<now, pinned, models, asked>>

(* The request is refused for good, by its shape or otherwise.              *)
Refused ==
  /\ \E error \in {"invalid_response", "unavailable"} : Fail(error)
  /\ UNCHANGED <<now, pinned, models, asked>>

TimedOut ==
  /\ Waiting /\ call.until <= now
  /\ RetryOr("unavailable", BACKOFF)
  /\ UNCHANGED <<now, pinned, models, asked>>

(* A clock that passes every deadline, and goes no further than the bound.  *)
Tick ==
  /\ now < MaxTime
  /\ now' = now + 1
  /\ UNCHANGED <<pinned, call, models, asked>>

(* Mutant of ClientStep: an answer is waited for as long as it takes.       *)
ClientStepPatiently == Send \/ WakeUp

(* What the client does by itself, and what the provider may do.            *)
ClientStep == Send \/ WakeUp \/ TimedOut

ProviderStep(Answers(_)) ==
  InTime /\
    \/ \E answers \in Answers(call.questions) : \E model \in Models : Answered(model, answers)
    \/ TurnedAway
    \/ Refused

InitClient == now = 0 /\ pinned = Unpinned /\ call = Idle /\ models = {} /\ asked = 0
=============================================================================
