------------------------------ MODULE JudgedRun ------------------------------
(***************************************************************************)
(* A run of one structured step and its final verification, on a page that *)
(* changes by itself: what is observed is judged, what was judged is acted *)
(* on, and what was verified is reported, each a while after the one       *)
(* before.  The permits' replay rule, several steps and natural step       *)
(* conditions are StepDriver's, the browser's own steps OwnedBrowser's.    *)
(*                                                                         *)
(* A page has two sides: what a capture of it lists, and what a capture    *)
(* that left nothing out would list.                                       *)
(***************************************************************************)
EXTENDS Targeting, ModelClient, JobContract

CONSTANTS
  Pages,           \* what the browser may show: [name, seen, whole]
  Becomes(_),      \* what each page may become, by itself or by an input
  Jobs,            \* the jobs that are submitted
  NoPage,          \* nothing was captured yet
  NoPending,       \* the run is not paused
  MAX_FALLBACKS,   \* the scrolls and waits in a row
  MaxMoves         \* bound on the changes of the page by itself

ASSUME JudgedAssumption ==
  /\ {MAX_FALLBACKS, MaxMoves} \subseteq Nat
  /\ \A p \in Pages : ViewportComplete(p.whole) /\ (ViewportComplete(p.seen) => p.seen = p.whole)
  /\ \A p \in Pages : Becomes(p) \subseteq Pages
  /\ \A j \in Jobs : IsJob(j)
  /\ \A j \in Jobs : Executable(j) => DOMAIN j.steps = {1} /\ DOMAIN j.values = DOMAIN Renderings

(* A capture counts the elements it lists and the regions it finds, and a   *)
(* region is known by the first control that hovering over it reveals.      *)
ASSUME ObservationAssumption ==
  \A p \in Pages :
    /\ \A e, f \in p.seen.elements : e.index = f.index => e = f
    /\ \A r \in p.seen.hover : 1 \in DOMAIN r.reveals /\ r.node = r.reveals[1].node

(* A capture makes nothing up.  What it lists is on the page, perhaps with  *)
(* another index; an inventory of painted text that is complete misses      *)
(* nothing; and a page shows its one focus.                                 *)
Words(inventory) == inventory.accessible \cup inventory.hidden
Finite(o) == IsFiniteSet(DOMAIN o.dialogs) /\ IsFiniteSet(o.elements) /\ IsFiniteSet(o.painted)

ASSUME CaptureAssumption ==
  \A p \in Pages : LET s == p.seen w == p.whole IN
    /\ Finite(s) /\ Finite(w) /\ s.url = w.url
    /\ \A i \in DOMAIN s.dialogs : \E j \in DOMAIN w.dialogs : w.dialogs[j].name = s.dialogs[i].name
    /\ \A m \in s.painted, n \in w.painted : m.scope = n.scope =>
         /\ Words(m) \subseteq Words(n)
         /\ m.complete /\ PaintedComplete(s) => Words(n) \subseteq Words(m)
    /\ \A e \in s.elements : \E f \in w.elements :
         /\ f.node = e.node /\ f.name = e.name /\ f.role = e.role
         /\ f.dialog = e.dialog /\ f.value = e.value
    /\ \A f \in s.focus : f.covered => w.focus = s.focus

(* A text that is too long is cut.  Where it is not cut within a word, what *)
(* is left of it is part of a line, or of a dialog's text, of the page.     *)
CutsBetweenWords ==
  \A p \in Pages : LET s == p.seen w == p.whole IN
    /\ \A i \in DOMAIN s.lines : \E j \in DOMAIN w.lines : s.lines[i] \subseteq w.lines[j]
    /\ \A i \in DOMAIN s.dialogs : \E j \in DOMAIN w.dialogs :
         /\ w.dialogs[j].name = s.dialogs[i].name
         /\ s.dialogs[i].text # {} => w.dialogs[j].text # {}
         /\ \A t \in s.dialogs[i].text, u \in w.dialogs[j].text : t \subseteq u

VARIABLES
  job,       \* what the caller asked for
  page,      \* what the browser shows
  moves,     \* how often it changed by itself
  phase,     \* "observing", "asking", "dispatching", "verifying", "evaluating",
             \* "reevaluating", "paused" or "ended"
  shown,     \* the page that was captured last
  driver,    \* what the driver reobserved: [done, gate, limit : BOOLEAN]
  spent,     \* the budgets: [calls, actions, mutations, fallbacks : Nat]
  input,     \* what is dispatched: [candidate, prepared, caller], or nothing
  verdicts,  \* of the expectations, since final verification
  pending,   \* what the pause rests on
  stop,      \* why the run stopped last
  attested,  \* the caller vouched for what the model was uncertain of
  passedOn   \* history: the page on which the step's condition held

flowVars == <<job, phase, shown, driver, spent, input, verdicts, pending, stop, attested, passedOn>>
vars == <<flowVars, clientVars, page, moves>>

NewDriver == [done |-> FALSE, gate |-> FALSE, limit |-> FALSE]

Init ==
  /\ InitClient
  /\ job \in Jobs /\ Executable(job) /\ page \in Pages /\ moves = 0
  /\ phase = "observing" /\ shown = NoPage /\ driver = NewDriver
  /\ spent = [calls |-> 0, actions |-> 0, mutations |-> 0, fallbacks |-> 0]
  /\ input = {} /\ verdicts = <<>> /\ pending = NoPending
  /\ stop = "none" /\ attested = FALSE /\ passedOn = {}

-----------------------------------------------------------------------------
(* How a step of the run leaves it.  A stop ends the run or pauses it, and  *)
(* the driver with it.                                                      *)
Go(to, d) == phase' = to /\ driver' = d /\ input' = {} /\ UNCHANGED <<job, attested>>

End(reason) ==
  Go("ended", NewDriver) /\ stop' = reason /\ pending' = NoPending /\ UNCHANGED passedOn

Pause(p, reason) ==
  Go("paused", NewDriver) /\ stop' = reason /\ pending' = p /\ UNCHANGED passedOn

Await(to) ==
  Go(to, driver) /\ stop' = "none" /\ pending' = NoPending /\ UNCHANGED passedOn

Observe(d) ==
  Go("observing", d) /\ stop' = "none" /\ pending' = NoPending /\ UNCHANGED passedOn

(* The step is done, by what the captured page shows.                       *)
PassStep ==
  Go("verifying", NewDriver) /\ stop' = "none" /\ pending' = NoPending /\ passedOn' = {shown'}

(* An escalation rests on an observation and may offer a candidate.         *)
StepPending(shot, candidates) == [step |-> TRUE, shown |-> shot, candidates |-> candidates]
VerificationPending(shot) == [step |-> FALSE, shown |-> shot, candidates |-> {}]

NoCall == call' = Idle /\ asked' = 0 /\ UNCHANGED <<now, pinned, models>>
NoCost == UNCHANGED spent

(* What the job bounds its run by, or the code if it says nothing.          *)
TheStep == job.steps[1]
MaxActions == Given(job.options.actions, 80)
MaxModelCalls == Given(job.options.calls, 120)
ActiveTimeout == Given(job.options.active, 120000)

OutOfTime == now >= ActiveTimeout

(* A page that is neither judged nor acted on: a popup was opened, or the   *)
(* origin is not one of the job's.                                          *)
OriginStop(o) ==
  IF "popup" \in o.coverage.gaps THEN "unsupported_surface"
  ELSE IF o.url \cap AllowedOrigins(job) = {} THEN "origin_not_allowed" ELSE "none"

(* A model call is charged before it is made.                               *)
AskOr(questions, to) ==
  IF OutOfTime \/ spent.calls >= MaxModelCalls
    THEN End("budget_exhausted") /\ NoCost /\ NoCall
    ELSE /\ Await(to)
         /\ spent' = [spent EXCEPT !.calls = @ + 1]
         /\ Evaluate(questions, ActiveTimeout) /\ UNCHANGED <<now, pinned, models>>

-----------------------------------------------------------------------------
(* What the provider may answer about a step: one operation, and a target,  *)
(* a value and a key of those that its questions list.                      *)
Answers(operation, targets, values, keys) ==
  [operation : {operation}, target : targets, value : values, key : keys,
   sure : BOOLEAN,
   targetSure : IF operation \in {"CLICK", "PRESS_KEY"} THEN BOOLEAN ELSE {TRUE}]

SomeKey == CHOOSE key \in Keys : TRUE

Admissible(o) ==
  Answers("CLICK", TargetCriteria(o, "CLICK"), {NoneFits}, {SomeKey})
  \cup (UNION {Answers(operation, TargetCriteria(o, operation), Values \cup {NoneFits}, {SomeKey}) :
               operation \in {"TYPE_TEXT", "SELECT"}})
  \cup Answers("PRESS_KEY", {NoTarget}, {NoneFits}, Keys)
  \cup (UNION {Answers(operation, {NoTarget}, {NoneFits}, {SomeKey}) :
               operation \in ScrollOperations \cup {"WAIT", "BLOCKED"}})

StepQuestion(o) == [id \in {0} |-> Admissible(o)]

(* The natural claims are asked for together, each by a score in percent.   *)
Nouls == {20, 50, 80}
Naturals == {i \in DOMAIN job.expectations : job.expectations[i].natural}
ClaimQuestions == [id \in Naturals |-> Nouls]

(* An answer out of place is one that no question of the request lists.     *)
OutOfPlace(questions) ==
  IF DOMAIN questions = {0}
    THEN [id \in {0} |-> [operation |-> "CLICK", value |-> NoneFits, key |-> SomeKey,
                          target |-> [kind |-> "element", index |-> 0, offset |-> 0],
                          sure |-> TRUE, targetSure |-> TRUE]]
    ELSE [id \in DOMAIN questions |-> 0]

Provided(questions) ==
  {OutOfPlace(questions)} \cup
  (IF DOMAIN questions = {0} THEN [{0} -> questions[0]] ELSE [DOMAIN questions -> Nouls])

-----------------------------------------------------------------------------
(* The step: observe, check its condition, ask what to do.                  *)
Complete(o) == EvaluateAssertions(TheStep.assertions, o)

CaptureFails ==
  /\ \E reason \in {"browser_control_failed", "redaction_unverifiable"} : End(reason)
  /\ NoCost /\ NoCall /\ UNCHANGED <<shown, verdicts, page, moves>>

Judged(result, o) ==
  \/ result = "satisfied" /\ PassStep /\ NoCost /\ NoCall
  \/ /\ result = "unresolved"
     /\ IF driver.done THEN Pause(StepPending(page, {}), "done_unknown")
        ELSE Observe([driver EXCEPT !.done = TRUE])
     /\ NoCost /\ NoCall
  \/ /\ result = "not_satisfied" /\ spent.mutations >= TheStep.limit
     /\ IF driver.limit THEN End("done_condition_not_met")
        ELSE Observe([driver EXCEPT !.limit = TRUE])
     /\ NoCost /\ NoCall
  \/ /\ result = "not_satisfied" /\ spent.mutations < TheStep.limit
     /\ AskOr(StepQuestion(o), "asking")

ObserveStep ==
  LET o == page.seen IN
  /\ phase = "observing"
  /\ shown' = page
  /\ CASE OriginStop(o) # "none" -> End(OriginStop(o)) /\ NoCost /\ NoCall
       [] OriginStop(o) = "none" /\ OutOfTime -> End("budget_exhausted") /\ NoCost /\ NoCall
       [] OTHER -> Judged(Complete(o), o)
  /\ UNCHANGED <<verdicts, page, moves>>

Calling == phase \in {"asking", "evaluating", "reevaluating"}

(* A failed evaluation ends the run, whichever question it was about.       *)
ProviderStop(error) ==
  CASE error \in {"invalid_response", "model_changed"} -> "provider_invalid_response"
    [] error = "deadline" -> "budget_exhausted"
    [] error = "unavailable" -> "provider_unavailable"

ProviderFails ==
  /\ Calling /\ call.phase = "failed"
  /\ End(ProviderStop(call.error))
  /\ NoCost /\ NoCall /\ UNCHANGED <<shown, verdicts, page, moves>>

-----------------------------------------------------------------------------
(* The decision: an uncertain choice is looked at once more, then left to   *)
(* the caller; a certain one is authorized on the page it was judged on.    *)
Doubt(o, a) ==
  CASE TargetInDoubt(o, a) -> "target_below_gate"
    [] ~TargetInDoubt(o, a) /\ ~a.sure -> "operation_below_gate"
    [] OTHER -> IF a.operation = "PRESS_KEY" /\ ~a.targetSure THEN "key_below_gate" ELSE "none"

CallerOperations == ElementOperations \cup {"HOVER", "PRESS_KEY"}

(* What an escalation offers: nothing if the target is in doubt.            *)
OfferedCandidates(o, a) ==
  IF /\ Doubt(o, a) # "target_below_gate" /\ Refusal(o, a) = "none"
     /\ DispatchedOperation(o, a) \in CallerOperations
    THEN Candidates(o, a) ELSE {}

Mutates(operation) == operation \in ElementOperations \cup {"PRESS_KEY"}

WithinBudget(operation) ==
  /\ spent.actions < MaxActions /\ spent.mutations < TheStep.limit /\ ~OutOfTime
  /\ Mutates(operation) \/ spent.fallbacks < MAX_FALLBACKS

Charged(operation) ==
  IF Mutates(operation)
    THEN [spent EXCEPT !.actions = @ + 1, !.mutations = @ + 1, !.fallbacks = 0]
    ELSE [spent EXCEPT !.actions = @ + 1, !.fallbacks = @ + 1]

Dispatch(o, candidate, caller) ==
  /\ phase' = "dispatching" /\ spent' = Charged(candidate.operation)
  /\ input' = {[candidate |-> candidate, prepared |-> Prepared(o, candidate), caller |-> caller]}
  /\ driver' = [driver EXCEPT !.done = FALSE, !.gate = FALSE]
  /\ stop' = "none" /\ pending' = NoPending
  /\ UNCHANGED <<job, attested, passedOn>>

Authorize(o, a) ==
  IF ~WithinBudget(DispatchedOperation(o, a)) THEN End("budget_exhausted") /\ NoCost
  ELSE IF Refusal(o, a) # "none" THEN End(Refusal(o, a)) /\ NoCost
  ELSE \E candidate \in Candidates(o, a) :
         IF ~SelectValueOffered(o, candidate)
           THEN Pause(StepPending(shown, {}), "select_option_unavailable") /\ NoCost
           ELSE \/ Dispatch(o, candidate, FALSE)
                \/ /\ spent.actions > 0
                   /\ Pause(StepPending(shown, {}), "replay_forbidden") /\ NoCost

Wait ==
  IF spent.fallbacks < MAX_FALLBACKS
    THEN /\ Observe([driver EXCEPT !.done = FALSE, !.gate = FALSE])
         /\ spent' = [spent EXCEPT !.fallbacks = @ + 1]
    ELSE End("budget_exhausted") /\ NoCost

Decide ==
  LET a == call.answers[0] o == shown.seen IN
  /\ phase = "asking" /\ call.phase = "answered"
  /\ IF UnsupportedSurface(o, a) THEN End("unsupported_surface") /\ NoCost
     ELSE IF a.operation = "CLICK" /\ Refusal(o, a) # "none"
       THEN Pause(StepPending(shown, {}), Refusal(o, a)) /\ NoCost
     ELSE IF Doubt(o, a) # "none"
       THEN /\ IF driver.gate
                 THEN Pause(StepPending(shown, OfferedCandidates(o, a)), Doubt(o, a))
                 ELSE Observe([driver EXCEPT !.gate = TRUE])
            /\ NoCost
     ELSE CASE a.operation = "WAIT" -> Wait
            [] a.operation = "BLOCKED" -> End("operation_blocked") /\ NoCost
            [] OTHER -> Authorize(o, a)
  /\ NoCall /\ UNCHANGED <<shown, verdicts, page, moves>>

-----------------------------------------------------------------------------
(* The input lands only on the document and the node it was prepared for.   *)
NodesOf(o) ==
  {e.node : e \in o.elements} \cup {f.node : f \in o.focus} \cup {r.node : r \in o.scroll.regions}
  \cup UNION {{r.reveals[n].node : n \in DOMAIN r.reveals} : r \in o.hover}

CanLand(prepared) ==
  prepared.document = page.whole.document /\ prepared.node \subseteq NodesOf(page.whole)

Refund(operation) ==
  IF Mutates(operation) THEN [spent EXCEPT !.mutations = @ - 1] ELSE spent

(* The browser proves that nothing was done: an autonomous action is looked *)
(* at afresh, a caller's is given back without its candidate.               *)
NotPerformed ==
  \E i \in input :
    /\ phase = "dispatching"
    /\ IF i.caller THEN Pause(StepPending(shown, {}), "candidate_revalidation_failed")
                   ELSE Observe(driver)
    /\ spent' = Refund(i.candidate.operation)
    /\ NoCall /\ UNCHANGED <<shown, verdicts, page, moves>>

(* The input took effect: the page may be another one.                      *)
Landed ==
  phase = "dispatching" /\ \E i \in input, next \in Becomes(page) \cup {page} :
    /\ CanLand(i.prepared)
    /\ page' = next
    /\ Observe([driver EXCEPT !.limit = FALSE])
    /\ NoCost /\ NoCall /\ UNCHANGED <<shown, verdicts, moves>>

(* It may have: the caller is asked, but a scroll is tried again.           *)
LandedUncertainly ==
  \E i \in input :
    /\ phase = "dispatching" /\ CanLand(i.prepared)
    /\ IF i.candidate.operation \in ScrollOperations THEN Observe(driver)
       ELSE Pause(StepPending(shown, {}), "action_outcome_uncertain")
    /\ NoCost /\ NoCall /\ UNCHANGED <<shown, verdicts, page, moves>>

(* A field that does not read back, or a journal that cannot be written.    *)
ActionStops ==
  /\ phase = "dispatching"
  /\ \E reason \in {"evidence_unavailable", "evidence_incomplete_after_dispatch"}
                   \cup {r \in {"write_readback_mismatch"} : \E i \in input :
                           i.candidate.operation \in {"TYPE_TEXT", "SELECT"}} : End(reason)
  /\ NoCost /\ NoCall /\ UNCHANGED <<shown, verdicts, page, moves>>

-----------------------------------------------------------------------------
(* Final verification.                                                      *)
Record(results, shot, uncertainty) ==
  LET outcome == Conjunction(Results(results)) IN
  /\ verdicts' = results
  /\ CASE outcome = "satisfied" -> End("passed")
       [] outcome = "not_satisfied" -> End("expectation_not_met")
       [] outcome = "unresolved" -> Pause(VerificationPending(shot), uncertainty)

(* Code decides what it can; the model is asked for the rest only if        *)
(* nothing has failed yet.                                                  *)
AskOrRecord(results, shot, to, uncertainty) ==
  IF NeedsProvider(results)
    THEN verdicts' = results /\ AskOr(ClaimQuestions, to)
    ELSE Record(results, shot, uncertainty) /\ NoCost /\ NoCall

EvaluateFinal(shot, to, uncertainty) ==
  AskOrRecord(PreliminaryVerdicts(job.expectations, shot.seen), shot, to, uncertainty)

CaptureStop(o) ==
  IF OriginStop(o) # "none" THEN OriginStop(o) ELSE IF OutOfTime THEN "budget_exhausted" ELSE "none"

Verify ==
  LET failure == CaptureStop(page.seen) IN
  /\ phase = "verifying"
  /\ shown' = page
  /\ IF failure # "none" THEN End(failure) /\ NoCost /\ NoCall /\ UNCHANGED verdicts
     ELSE EvaluateFinal(page, "evaluating", "verification_uncertain")
  /\ UNCHANGED <<page, moves>>

FinishVerification ==
  /\ phase \in {"evaluating", "reevaluating"} /\ call.phase = "answered"
  /\ Record(FinalVerdicts(job.expectations, verdicts, call.answers, shown.seen), shown,
            IF phase = "evaluating" THEN "verification_uncertain"
            ELSE "verification_state_changed")
  /\ NoCost /\ NoCall /\ UNCHANGED <<shown, page, moves>>

-----------------------------------------------------------------------------
(* What the caller may answer.                                              *)
Paused(step) == phase = "paused" /\ pending.step = step

Abort ==
  /\ phase = "paused" /\ End("aborted")
  /\ NoCost /\ NoCall /\ UNCHANGED <<shown, verdicts, page, moves>>

Retry ==
  /\ phase = "paused"
  /\ IF pending.step THEN Observe(NewDriver) ELSE Await("verifying")
  /\ NoCost /\ NoCall /\ UNCHANGED <<shown, verdicts, page, moves>>

(* A refused disposition is answered by another escalation.                 *)
Reissue(p, reason) == Pause(p, reason) /\ NoCost /\ NoCall

(* Under the caller's authority, but only on a page that still shows what   *)
(* was offered.                                                             *)
AuthorizeCaller(o, candidate) ==
  CASE ~WithinBudget(candidate.operation) -> End("budget_exhausted") /\ NoCost
    [] WithinBudget(candidate.operation) /\ ~Revalidated(o, candidate) ->
         Pause(StepPending(page, {}), "candidate_revalidation_failed") /\ NoCost
    [] OTHER ->
         IF \E key \in candidate.key : KeySurface(o, key) THEN End("unsupported_surface") /\ NoCost
         ELSE IF ~SelectValueOffered(o, candidate)
           THEN Pause(StepPending(page, {}), "select_option_unavailable") /\ NoCost
         ELSE Dispatch(o, candidate, TRUE)

Execute ==
  LET o == page.seen IN
  /\ Paused(TRUE) /\ pending.candidates # {}
  /\ shown' = page
  /\ CASE OriginStop(o) # "none" -> End(OriginStop(o)) /\ NoCost
       [] OriginStop(o) = "none" /\ Complete(o) = "satisfied" -> PassStep /\ NoCost
       [] OriginStop(o) = "none" /\ Complete(o) = "unresolved" ->
            Pause(StepPending(page, {}), "done_unknown") /\ NoCost
       [] OTHER -> \E candidate \in pending.candidates : AuthorizeCaller(o, candidate)
  /\ NoCall /\ UNCHANGED <<verdicts, page, moves>>

FinalAssertions ==
  UNION {job.expectations[i].assertions : i \in DOMAIN job.expectations \ Naturals}

(* The page the caller vouches for still is the one that was judged.        *)
StillShows(o, assertions) ==
  /\ o.document = pending.shown.seen.document
  /\ RelevantFacts(assertions, o) = RelevantFacts(assertions, pending.shown.seen)

(* What was not offered is not executed; a structured step is not attested. *)
Refuse ==
  /\ phase = "paused"
  /\ \/ Paused(TRUE) /\ Reissue(pending, "candidate_not_offered") /\ UNCHANGED shown
     \/ Paused(FALSE) /\ Reissue(pending, "execute_not_permitted") /\ UNCHANGED shown
     \/ Paused(FALSE) /\ Reissue(pending, "advance_not_permitted") /\ UNCHANGED shown
     \/ /\ Paused(TRUE) /\ shown' = page
        /\ IF OriginStop(page.seen) # "none"
             THEN End(OriginStop(page.seen)) /\ NoCost /\ NoCall
             ELSE Reissue(pending, IF StillShows(page.seen, TheStep.assertions) THEN "advance_not_permitted"
                                   ELSE "relevant_state_changed")
  /\ UNCHANGED <<verdicts, page, moves>>

Accept ==
  /\ verdicts' = [i \in DOMAIN verdicts |->
                    IF verdicts[i].result = "unresolved"
                      THEN [verdicts[i] EXCEPT !.result = "satisfied"] ELSE verdicts[i]]
  /\ phase' = "ended" /\ stop' = "passed" /\ pending' = NoPending /\ attested' = TRUE
  /\ input' = {} /\ UNCHANGED <<job, driver, passedOn>>
  /\ NoCost /\ NoCall

Attest ==
  LET failure == CaptureStop(page.seen) IN
  /\ Paused(FALSE) /\ Attestable(verdicts)
  /\ shown' = page
  /\ CASE failure # "none" -> End(failure) /\ NoCost /\ NoCall /\ UNCHANGED verdicts
       [] failure = "none" /\ StillShows(page.seen, FinalAssertions) -> Accept
       [] OTHER -> EvaluateFinal(page, "reevaluating", "verification_state_changed")
  /\ UNCHANGED <<page, moves>>

-----------------------------------------------------------------------------
PageMoves ==
  /\ phase # "ended" /\ moves < MaxMoves
  /\ page' \in Becomes(page) /\ moves' = moves + 1
  /\ UNCHANGED <<flowVars, clientVars>>

(* Active time stands still while the run is paused.                        *)
TimePasses == phase \notin {"paused", "ended"} /\ Tick /\ UNCHANGED <<flowVars, page, moves>>

Client == Calling /\ ClientStep /\ UNCHANGED <<flowVars, page, moves>>
Provider == Calling /\ ProviderStep(Provided) /\ UNCHANGED <<flowVars, page, moves>>

Drive ==
  \/ phase \in {"observing", "verifying"} /\ CaptureFails
  \/ ObserveStep \/ ProviderFails \/ Decide
  \/ NotPerformed \/ Landed \/ LandedUncertainly \/ ActionStops
  \/ Verify \/ FinishVerification

Caller ==
  \/ Abort \/ Retry \/ Execute \/ Refuse \/ Attest
  \/ phase = "paused" /\ CaptureFails

Next == Drive \/ Caller \/ Client \/ Provider \/ PageMoves \/ TimePasses

Spec == Init /\ [][Next]_vars

(* The run does not stand still while its thread, a timer of the client or  *)
(* the clock can go on; the provider need not answer, nor the caller.       *)
FairSpec == Spec /\ WF_vars(TimePasses \/ Client \/ Drive)

-----------------------------------------------------------------------------
(* Properties. *)

(* A literal is on the page, and where it names its surroundings, in them.  *)
Shows(o, x) ==
  IF x.within = {} THEN OnPage(x.literal, o)
  ELSE \E c \in Containers(o) : x.within \cup {x.literal} \subseteq c.text

(* A run passes only if nothing it was asked about is false of the page as  *)
(* it was captured, including what the capture left out; and the numbers    *)
(* of every claim were on it where they were looked for, unless the caller  *)
(* vouched for them.                                                        *)
EndIsJustified ==
  stop = "passed" =>
    /\ \E p \in passedOn : EvaluateAssertions(TheStep.assertions, p.whole) # "not_satisfied"
    /\ \A i \in DOMAIN job.expectations :
         IF job.expectations[i].natural
           THEN attested \/ \A x \in Requested(job.expectations[i]) : Shows(shown.whole, x)
           ELSE EvaluateAssertions(job.expectations[i].assertions, shown.whole)
                  # "not_satisfied"

(* What the caller vouches for is the page that was escalated: the same     *)
(* document, on which every final condition still has the same outcome.     *)
AttestedAsSeen ==
  [][attested' # attested =>
       /\ shown'.seen.document = pending.shown.seen.document
       /\ \A a \in FinalAssertions :
            CheckAssertion(a, shown'.seen) = CheckAssertion(a, pending.shown.seen)]_vars

(* An input goes to the very control that was judged, or offered to the     *)
(* caller, however the page was rendered anew in between.                   *)
DispatchHitsTheJudged ==
  \A i \in input :
    /\ i.prepared.node = i.candidate.node
    /\ i.prepared.document = i.candidate.document

(* No decision rests on an answer that came after the deadline of its       *)
(* evaluation, however often it was asked for, or after the run's time.     *)
AnswersComeInTime ==
  [][call.phase # "answered" /\ call'.phase = "answered" =>
       now <= asked + LOGICAL_TIMEOUT /\ now <= ActiveTimeout]_vars

(* All the answers a run rests on are of one model.                         *)
OneModel == \A m, n \in models : m = n

(* The run's thread comes to rest, even if the provider never answers and   *)
(* the page never settles.                                                  *)
JudgedRunEnds == []<>(phase \in {"paused", "ended"})
=============================================================================
