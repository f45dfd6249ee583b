--------------------------- MODULE JudgedRunProofs ---------------------------
(* All the answers of a run are of one model, however many evaluations,     *)
(* attempts and pauses it takes; every input goes to the control that was   *)
(* judged or offered; a caller vouches for the page it was shown; and a run *)
(* passes only on what is so.                                               *)
EXTENDS JudgedRun, FiniteSetTheorems, TLAPS

(* The answers that were used are of the model that is pinned; before that  *)
(* none was used.                                                           *)
PinnedInv ==
  /\ models \subseteq {pinned}
  /\ pinned = Unpinned => models = {}

(* A decision or a disposition begins an evaluation or forgets one; it      *)
(* neither pins a model nor uses an answer.                                 *)
LEMMA FlowPinsNothing == Drive \/ Caller => UNCHANGED <<pinned, models>>
<1> SUFFICES ASSUME Drive \/ Caller PROVE UNCHANGED <<pinned, models>>
  OBVIOUS
<1>1. \A questions, to : AskOr(questions, to) => UNCHANGED <<pinned, models>>
  BY DEF AskOr, NoCall
<1>2. NoCall => UNCHANGED <<pinned, models>>
  BY DEF NoCall
<1>3. \A shot, to, reason : EvaluateFinal(shot, to, reason) => UNCHANGED <<pinned, models>>
  BY <1>1, <1>2 DEF EvaluateFinal, AskOrRecord
<1>4. CASE CaptureFails
  BY <1>2, <1>4 DEF CaptureFails
<1>5. CASE ObserveStep
  BY <1>1, <1>2, <1>5 DEF ObserveStep, Judged
<1>6. CASE ProviderFails
  BY <1>2, <1>6 DEF ProviderFails
<1>7. CASE Decide
  BY <1>2, <1>7 DEF Decide
<1>8. CASE NotPerformed \/ Landed \/ LandedUncertainly \/ ActionStops
  BY <1>2, <1>8 DEF NotPerformed, Landed, LandedUncertainly, ActionStops
<1>9. CASE Verify
  BY <1>2, <1>3, <1>9 DEF Verify
<1>10. CASE FinishVerification
  BY <1>2, <1>10 DEF FinishVerification
<1>11. CASE Abort \/ Retry \/ Execute
  BY <1>2, <1>11 DEF Abort, Retry, Execute
<1>12. CASE Refuse
  BY <1>2, <1>12 DEF Refuse, Reissue
<1>13. CASE Attest
  BY <1>2, <1>3, <1>13 DEF Attest, Accept
<1> QED
  BY <1>4, <1>5, <1>6, <1>7, <1>8, <1>9, <1>10, <1>11, <1>12, <1>13 DEF Drive, Caller

(* Only a usable answer of the pinned model, or the first one, is used.     *)
LEMMA AnswersArePinned ==
  ASSUME PinnedInv, Client \/ Provider PROVE PinnedInv'
<1>1. CASE Client
  BY <1>1 DEF Client, ClientStep, Send, WakeUp, TimedOut, PinnedInv
<1>2. CASE TurnedAway \/ Refused
  BY <1>2 DEF TurnedAway, Refused, PinnedInv
<1>3. ASSUME NEW model \in Models, NEW answers, Answered(model, answers) PROVE PinnedInv'
  <2>1. CASE Usable(answers) /\ pinned \in {Unpinned, model}
    <3>1. pinned' = model /\ models' = models \cup {model}
      BY <1>3, <2>1 DEF Answered
    <3>2. models \subseteq {model}
      BY <2>1 DEF PinnedInv
    <3>3. model # Unpinned
      BY ClientAssumption
    <3> QED
      BY <3>1, <3>2, <3>3 DEF PinnedInv
  <2>2. CASE ~(Usable(answers) /\ pinned \in {Unpinned, model})
    BY <1>3, <2>2 DEF Answered, PinnedInv
  <2> QED
    BY <2>1, <2>2
<1> QED
  BY <1>1, <1>2, <1>3 DEF Provider, ProviderStep

(* No step of the run, its client or its page uses a second model.           *)
LEMMA PinnedInductive == PinnedInv /\ [Next]_vars => PinnedInv'
<1> SUFFICES ASSUME PinnedInv, [Next]_vars PROVE PinnedInv'
  OBVIOUS
<1>1. CASE Drive \/ Caller
  BY <1>1, FlowPinsNothing DEF PinnedInv
<1>2. CASE Client \/ Provider
  BY <1>2, AnswersArePinned
<1>3. CASE PageMoves \/ TimePasses \/ UNCHANGED vars
  BY <1>3 DEF PageMoves, TimePasses, Tick, vars, clientVars, PinnedInv
<1> QED
  BY <1>1, <1>2, <1>3 DEF Next

(* The run never rests on the answers of two models (OneModel): the client  *)
(* pins the first usable answer's and asks again for any other.             *)
THEOREM RunRestsOnOneModel == Spec => []OneModel
<1>1. Init => PinnedInv
  BY DEF Init, InitClient, PinnedInv
<1>2. PinnedInv => OneModel
  BY DEF PinnedInv, OneModel
<1> QED
  BY <1>1, <1>2, PinnedInductive, PTL DEF Spec

-----------------------------------------------------------------------------
(* What is dispatched rests on a page of the browser.                       *)
Aims(o, candidate) ==
  /\ Prepared(o, candidate).node = candidate.node
  /\ Prepared(o, candidate).document = candidate.document

AimInv ==
  /\ page \in Pages
  /\ phase = "asking" => shown \in Pages
  /\ DispatchHitsTheJudged

(* What an answer chooses on an observation is prepared on that very one:   *)
(* the index still counts its elements, the region its revealed controls.   *)
LEMMA OwnInputAims ==
  ASSUME NEW p \in Pages, NEW answer, NEW candidate \in Candidates(p.seen, answer)
  PROVE  Aims(p.seen, candidate)
<1> DEFINE o == p.seen
<1>1. \A operation : Blank(o, operation).document = o.document
  BY DEF Blank
<1>2. CASE DispatchedOperation(o, answer) \in ElementOperations
  <2>0. candidate \in ElementCandidates(o, answer)
    BY <1>2 DEF Candidates, ElementOperations
  <2>1. PICK e \in Selected(o, answer.target) :
          candidate = [Blank(o, answer.operation) EXCEPT
            !.index = e.index, !.node = {e.node}, !.name = {e.name}, !.role = e.role,
            !.dialog = e.dialog, !.container = e.container, !.input = e.input,
            !.value = IF answer.operation = "CLICK" THEN {} ELSE {answer.value}]
    BY <2>0, Zenon DEF ElementCandidates
  <2>2. /\ candidate.operation = answer.operation /\ candidate.document = o.document
        /\ candidate.index = e.index /\ candidate.node = {e.node}
    BY <2>1 DEF Blank
  <2>3. answer.operation \in ElementOperations
    BY <1>2 DEF DispatchedOperation, ElementOperations
  <2>4. e \in o.elements /\ \A f \in o.elements : f.index = e.index => f = e
    BY ObservationAssumption DEF Selected
  <2> HIDE DEF o
  <2>5. \A f : f \in Offered(o, candidate) <=> f = e
    BY <2>2, <2>4, Zenon DEF Offered
  <2>6. Offered(o, candidate) = {e}
    BY <2>5, Zenon
  <2>7. PreparedNodes(o, candidate) = {e.node}
    <3>1. PreparedNodes(o, candidate) = {f.node : f \in Offered(o, candidate)}
      BY <2>2, <2>3 DEF PreparedNodes, ElementOperations
    <3>2. {f.node : f \in {e}} = {e.node}
      OBVIOUS
    <3> QED
      BY <3>1, <3>2, <2>6
  <2> QED
    BY <2>2, <2>7 DEF o, Aims, Prepared
<1>3. CASE DispatchedOperation(o, answer) = "PRESS_KEY"
  <2>1. candidate \in KeyCandidates(o, answer)
    BY <1>3 DEF Candidates, ElementOperations
  <2>2. candidate.operation = "PRESS_KEY" /\ candidate.document = o.document
    BY <2>1 DEF KeyCandidates, Blank
  <2> QED
    BY <2>2 DEF Aims, Prepared, PreparedNodes, ElementOperations
<1>4. CASE DispatchedOperation(o, answer) = "HOVER"
  <2> DEFINE key == answer.target
  <2>1. candidate \in HoverCandidates(o, key)
    BY <1>4 DEF Candidates, ElementOperations
  <2>2. PICK r \in SelectedReveal(o, key) :
          candidate = [Blank(o, "HOVER") EXCEPT
            !.node = {r.reveals[key.offset].node},
            !.hover = {[index |-> r.index, name |-> r.name, reveal |-> r.reveals[key.offset].name,
                        reveals |-> [n \in DOMAIN r.reveals |-> r.reveals[n].name]]}]
    BY <2>1 DEF HoverCandidates
  <2> DEFINE wanted == [index |-> r.index, name |-> r.name, reveal |-> r.reveals[key.offset].name,
                        reveals |-> [n \in DOMAIN r.reveals |-> r.reveals[n].name]]
  <2>3. /\ candidate.operation = "HOVER" /\ candidate.document = o.document
        /\ candidate.node = {r.reveals[key.offset].node} /\ candidate.hover = {wanted}
    BY <2>2 DEF Blank
  <2>4. r \in o.hover /\ key.offset \in DOMAIN r.reveals
    BY DEF SelectedReveal
  <2>5. /\ r.index = wanted.index /\ r.name = wanted.name
        /\ [n \in DOMAIN r.reveals |-> r.reveals[n].name] = wanted.reveals
        /\ r.reveals[key.offset].name = wanted.reveal
    OBVIOUS
  <2>6. r.node = r.reveals[1].node
    BY <2>4, ObservationAssumption
  <2> HIDE DEF wanted
  <2>7. RegionMatches(o, candidate)
    BY <2>3, <2>4, <2>5, <2>6 DEF RegionMatches
  <2> QED
    BY <2>3, <2>7 DEF Aims, Prepared, PreparedNodes, ElementOperations
<1>5. CASE DispatchedOperation(o, answer) \notin ElementOperations \cup {"PRESS_KEY", "HOVER"}
  <2>1. candidate \in ScrollCandidates(o, answer.operation)
    BY <1>5 DEF Candidates
  <2>2. candidate.operation = answer.operation /\ candidate.document = o.document
    BY <2>1 DEF ScrollCandidates, Blank
  <2>3. answer.operation \notin ElementOperations \cup {"HOVER"}
    BY <1>5 DEF DispatchedOperation
  <2> QED
    BY <2>2, <2>3 DEF Aims, Prepared, PreparedNodes
<1> QED
  BY <1>2, <1>3, <1>4, <1>5

(* A caller's candidate is prepared on a later page than it was offered on, *)
(* and is found again there by its document and its node.                   *)
LEMMA CallersInputAims ==
  ASSUME NEW p \in Pages, NEW candidate, Revalidated(p.seen, candidate)
  PROVE  Aims(p.seen, candidate)
<1>1. CASE candidate.operation = "PRESS_KEY"
  BY <1>1 DEF Revalidated, Aims, Prepared, PreparedNodes, ElementOperations
<1>2. CASE candidate.operation = "HOVER"
  BY <1>2 DEF Revalidated, RegionMatches, Aims, Prepared, PreparedNodes, ElementOperations
<1>3. CASE candidate.operation \notin {"PRESS_KEY", "HOVER"}
  <2>1. PICK e \in Offered(p.seen, candidate) :
          p.seen.document = candidate.document /\ {e.node} = candidate.node
    BY <1>3 DEF Revalidated, ElementMatches
  <2>2. Offered(p.seen, candidate) = {e}
    BY ObservationAssumption DEF Offered
  <2> QED
    BY <1>3, <2>1, <2>2 DEF Aims, Prepared, PreparedNodes
<1> QED
  BY <1>1, <1>2, <1>3

(* Every way a step of the run ends but a dispatch leaves no input.         *)
LEMMA OnlyDispatchAims ==
  /\ \A to, d : Go(to, d) => input' = {} /\ phase' = to
  /\ \A reason : End(reason) => input' = {} /\ phase' = "ended"
  /\ \A p, reason : Pause(p, reason) => input' = {} /\ phase' = "paused"
  /\ \A to : Await(to) => input' = {} /\ phase' = to
  /\ \A d : Observe(d) => input' = {} /\ phase' = "observing"
  /\ PassStep => input' = {} /\ phase' = "verifying"
BY DEF Go, End, Pause, Await, Observe, PassStep

(* A dispatch is of what was prepared for it.                                *)
LEMMA DispatchAims ==
  ASSUME NEW o, NEW candidate, NEW caller, Aims(o, candidate), Dispatch(o, candidate, caller)
  PROVE  DispatchHitsTheJudged' /\ phase' = "dispatching"
<1>1. input' = {[candidate |-> candidate, prepared |-> Prepared(o, candidate), caller |-> caller]}
  BY DEF Dispatch
<1> QED
  BY <1>1 DEF Dispatch, DispatchHitsTheJudged, Aims

(* A question, or the end of it, is asked without an input.                 *)
LEMMA AskingAimsAtNothing ==
  /\ \A questions, to : AskOr(questions, to) => input' = {} /\ phase' \in {to, "ended"}
  /\ \A results, shot, reason :
       Record(results, shot, reason) => input' = {} /\ phase' \in {"ended", "paused"}
  /\ \A shot, to, reason :
       EvaluateFinal(shot, to, reason) => input' = {} /\ phase' \in {to, "ended", "paused"}
<1>1. \A questions, to : AskOr(questions, to) => input' = {} /\ phase' \in {to, "ended"}
  BY OnlyDispatchAims DEF AskOr
<1>2. \A results, shot, reason :
        Record(results, shot, reason) => input' = {} /\ phase' \in {"ended", "paused"}
  <2> SUFFICES ASSUME NEW results, NEW shot, NEW reason, Record(results, shot, reason)
               PROVE  input' = {} /\ phase' \in {"ended", "paused"}
    OBVIOUS
  <2>1. Conjunction(Results(results)) \in {"satisfied", "not_satisfied", "unresolved"}
    BY DEF Conjunction
  <2> QED
    BY <2>1, OnlyDispatchAims DEF Record
<1>3. \A shot, to, reason :
        EvaluateFinal(shot, to, reason) => input' = {} /\ phase' \in {to, "ended", "paused"}
  BY <1>1, <1>2 DEF EvaluateFinal, AskOrRecord
<1> QED
  BY <1>1, <1>2, <1>3

(* The model's decision is dispatched on the page it was asked about.       *)
LEMMA DecisionsAim ==
  ASSUME AimInv, Decide PROVE DispatchHitsTheJudged' /\ phase' # "asking"
<1> DEFINE a == call.answers[0]
           o == shown.seen
<1>1. shown \in Pages
  BY DEF Decide, AimInv
<1>2. CASE Authorize(o, a)
  <2>1. CASE \E candidate \in Candidates(o, a) : Dispatch(o, candidate, FALSE)
    BY <1>1, <2>1, OwnInputAims, DispatchAims
  <2>2. CASE ~\E candidate \in Candidates(o, a) : Dispatch(o, candidate, FALSE)
    <3>1. input' = {} /\ phase' # "asking"
      BY <1>2, <2>2, OnlyDispatchAims DEF Authorize
    <3> QED
      BY <3>1 DEF DispatchHitsTheJudged
  <2> QED
    BY <2>1, <2>2
<1>3. CASE ~Authorize(o, a)
  <2>1. Wait => input' = {} /\ phase' # "asking"
    BY OnlyDispatchAims DEF Wait
  <2>2. input' = {} /\ phase' # "asking"
    BY <1>3, <2>1, OnlyDispatchAims DEF Decide
  <2> QED
    BY <2>2 DEF DispatchHitsTheJudged
<1> QED
  BY <1>2, <1>3

(* What the caller authorizes is dispatched on the page it was found on.    *)
LEMMA ExecutionAims ==
  ASSUME AimInv, Execute PROVE DispatchHitsTheJudged' /\ phase' # "asking"
<1> DEFINE o == page.seen
<1>1. CASE \E candidate \in pending.candidates : AuthorizeCaller(o, candidate)
  <2>1. PICK candidate \in pending.candidates : AuthorizeCaller(o, candidate)
    BY <1>1
  <2>2. CASE Dispatch(o, candidate, TRUE) /\ Revalidated(o, candidate)
    BY <2>2, CallersInputAims, DispatchAims DEF AimInv
  <2>3. CASE ~(Dispatch(o, candidate, TRUE) /\ Revalidated(o, candidate))
    <3>1. input' = {} /\ phase' # "asking"
      BY <2>1, <2>3, OnlyDispatchAims DEF AuthorizeCaller
    <3> QED
      BY <3>1 DEF DispatchHitsTheJudged
  <2> QED
    BY <2>2, <2>3
<1>2. CASE ~\E candidate \in pending.candidates : AuthorizeCaller(o, candidate)
  <2>1. input' = {} /\ phase' # "asking"
    BY <1>2, OnlyDispatchAims DEF Execute
  <2> QED
    BY <2>1 DEF DispatchHitsTheJudged
<1> QED
  BY <1>1, <1>2

(* The browser only shows pages, whatever it does.                          *)
LEMMA ShowsPages == ASSUME page \in Pages, [Next]_vars PROVE page' \in Pages
<1>1. CASE Landed
  BY <1>1, JudgedAssumption DEF Landed
<1>2. CASE PageMoves
  BY <1>2, JudgedAssumption DEF PageMoves
<1>3. CASE CaptureFails \/ ObserveStep \/ ProviderFails \/ Decide \/ NotPerformed
           \/ LandedUncertainly \/ ActionStops \/ Verify \/ FinishVerification
  BY <1>3 DEF CaptureFails, ObserveStep, ProviderFails, Decide, NotPerformed, LandedUncertainly,
              ActionStops, Verify, FinishVerification
<1>4. CASE Caller
  BY <1>4 DEF Caller, Abort, Retry, Execute, Refuse, Attest, CaptureFails
<1>5. CASE Client \/ Provider \/ TimePasses \/ UNCHANGED vars
  BY <1>5 DEF Client, Provider, TimePasses, vars
<1> QED
  BY <1>1, <1>2, <1>3, <1>4, <1>5 DEF Next, Drive

(* An input is there only after a dispatch, which aims; a question is asked  *)
(* about the page that was captured with it.                                 *)
LEMMA AimInductive == AimInv /\ [Next]_vars => AimInv'
<1> SUFFICES ASSUME AimInv, [Next]_vars PROVE AimInv'
  OBVIOUS
<1>1. page \in Pages /\ page' \in Pages
  BY ShowsPages DEF AimInv
<1>2. ASSUME input' = {}, phase' = "asking" => shown' = page PROVE AimInv'
  BY <1>1, <1>2 DEF AimInv, DispatchHitsTheJudged
<1>3. CASE Decide \/ Execute
  BY <1>1, <1>3, DecisionsAim, ExecutionAims DEF AimInv
<1>4. CASE ObserveStep
  <2>1. \A result, o : Judged(result, o) => input' = {}
    BY OnlyDispatchAims, AskingAimsAtNothing DEF Judged
  <2>2. input' = {} /\ shown' = page
    BY <1>4, <2>1, OnlyDispatchAims DEF ObserveStep
  <2> QED
    BY <1>2, <2>2
<1>5. CASE CaptureFails \/ ProviderFails
  BY <1>2, <1>5, OnlyDispatchAims DEF CaptureFails, ProviderFails
<1>6. CASE NotPerformed \/ Landed \/ LandedUncertainly \/ ActionStops
  <2>1. input' = {} /\ phase' # "asking"
    BY <1>6, OnlyDispatchAims DEF NotPerformed, Landed, LandedUncertainly, ActionStops
  <2> QED
    BY <1>2, <2>1
<1>7. CASE Verify \/ FinishVerification
  <2>1. input' = {} /\ phase' # "asking"
    BY <1>7, OnlyDispatchAims, AskingAimsAtNothing DEF Verify, FinishVerification
  <2> QED
    BY <1>2, <2>1
<1>8. CASE Abort \/ Retry \/ Refuse
  <2>1. \A p, reason : Reissue(p, reason) => input' = {} /\ phase' = "paused"
    BY OnlyDispatchAims DEF Reissue
  <2>2. Refuse => input' = {} /\ phase' \in {"paused", "ended"}
    BY <2>1, OnlyDispatchAims DEF Refuse
  <2>3. Abort \/ Retry => input' = {} /\ phase' # "asking"
    BY OnlyDispatchAims DEF Abort, Retry
  <2> QED
    BY <1>2, <1>8, <2>2, <2>3
<1>9. CASE Attest
  <2>1. input' = {} /\ phase' # "asking"
    BY <1>9, OnlyDispatchAims, AskingAimsAtNothing DEF Attest, Accept
  <2> QED
    BY <1>2, <2>1
<1>10. CASE Client \/ Provider \/ PageMoves \/ TimePasses \/ UNCHANGED vars
  <2>1. UNCHANGED <<phase, shown, input>>
    BY <1>10 DEF Client, Provider, PageMoves, TimePasses, vars, flowVars
  <2> QED
    BY <1>1, <2>1 DEF AimInv, DispatchHitsTheJudged
<1> QED
  BY <1>3, <1>4, <1>5, <1>6, <1>7, <1>8, <1>9, <1>10 DEF Next, Drive, Caller

(* An input goes to the document and the node that were judged or offered   *)
(* (DispatchHitsTheJudged), on whatever pages the browser shows: what the   *)
(* policy authorizes it prepares on the observation it found it on.         *)
THEOREM InputsHitTheJudged == Spec => []DispatchHitsTheJudged
<1>1. Init => AimInv
  BY DEF Init, AimInv, DispatchHitsTheJudged
<1>2. AimInv => DispatchHitsTheJudged
  BY DEF AimInv
<1> QED
  BY <1>1, <1>2, AimInductive, PTL DEF Spec

-----------------------------------------------------------------------------
(* What the client keeps of an evaluation.                                  *)
IsCall(c) ==
  /\ {"phase", "logical", "until"} \subseteq DOMAIN c
  /\ c.logical \in Nat /\ c.until \in Nat

(* An attempt waits no longer than its evaluation may take, an evaluation   *)
(* no longer than the client and the run allow.                             *)
DeadlineInv ==
  /\ job \in Jobs /\ now \in Nat /\ asked \in Nat /\ IsCall(call)
  /\ call.phase \in {"sending", "waiting", "backoff"} =>
       call.logical <= asked + LOGICAL_TIMEOUT /\ call.logical <= ActiveTimeout
  /\ call.phase = "waiting" => call.until <= call.logical

(* A job says how long it may be active in whole milliseconds, or not.      *)
LEMMA ActiveTimeoutType == ASSUME job \in Jobs PROVE ActiveTimeout \in Nat
<1>1. job.options.active \subseteq Nat
  BY JudgedAssumption DEF IsJob, IsOptions
<1>2. CASE job.options.active = {}
  BY <1>2 DEF ActiveTimeout, Given
<1>3. CASE job.options.active # {}
  <2>1. ActiveTimeout = CHOOSE v \in job.options.active : TRUE
    BY <1>3 DEF ActiveTimeout, Given
  <2>2. (CHOOSE v \in job.options.active : TRUE) \in job.options.active
    BY <1>3, Zenon
  <2> QED
    BY <1>1, <2>1, <2>2
<1> QED
  BY <1>2, <1>3

(* A call that failed has no deadline any more.                             *)
LEMMA FailedCall ==
  ASSUME NEW reason, Fail(reason) PROVE call'.phase = "failed" /\ IsCall(call')
<1>1. call' = [Idle EXCEPT !.phase = "failed", !.error = reason]
  BY DEF Fail
<1>2. /\ DOMAIN call' = DOMAIN Idle /\ call'.phase = "failed"
      /\ call'.logical = Idle.logical /\ call'.until = Idle.until
  BY <1>1 DEF Idle
<1> QED
  BY <1>2 DEF IsCall, Idle

(* A decision or a disposition leaves the job and the clock alone; it ends  *)
(* an evaluation, or begins one with the run's active time as its deadline. *)
AsksOrNot == NoCall \/ \E questions : Evaluate(questions, ActiveTimeout) /\ UNCHANGED now

(* So does every step of the run, with whatever it decides.                 *)
LEMMA FlowAsksInTime == Drive \/ Caller => job' = job /\ AsksOrNot
<1> SUFFICES ASSUME Drive \/ Caller PROVE job' = job /\ AsksOrNot
  OBVIOUS
<1>1. /\ \A reason : End(reason) => job' = job
      /\ \A p, reason : Pause(p, reason) => job' = job
      /\ \A to : Await(to) => job' = job
      /\ \A d : Observe(d) => job' = job
      /\ PassStep => job' = job
      /\ \A o, candidate, caller : Dispatch(o, candidate, caller) => job' = job
  BY DEF End, Pause, Await, Observe, PassStep, Go, Dispatch
<1>2. \A questions, to : AskOr(questions, to) => job' = job /\ AsksOrNot
  BY <1>1 DEF AskOr, AsksOrNot
<1>3. \A results, shot, reason : Record(results, shot, reason) => job' = job
  <2> SUFFICES ASSUME NEW results, NEW shot, NEW reason, Record(results, shot, reason)
               PROVE  job' = job
    OBVIOUS
  <2>1. Conjunction(Results(results)) \in {"satisfied", "not_satisfied", "unresolved"}
    BY DEF Conjunction
  <2> QED
    BY <1>1, <2>1 DEF Record
<1>4. \A shot, to, reason : EvaluateFinal(shot, to, reason) => job' = job /\ AsksOrNot
  BY <1>2, <1>3 DEF EvaluateFinal, AskOrRecord, AsksOrNot
<1>5. CASE CaptureFails \/ ProviderFails
  BY <1>1, <1>5 DEF CaptureFails, ProviderFails, AsksOrNot
<1>6. CASE ObserveStep
  <2>1. \A result, o : Judged(result, o) => job' = job /\ AsksOrNot
    BY <1>1, <1>2 DEF Judged, AsksOrNot
  <2> QED
    BY <1>1, <1>6, <2>1 DEF ObserveStep, AsksOrNot
<1>7. CASE Decide
  <2>1. \A o, a : Authorize(o, a) => job' = job
    BY <1>1 DEF Authorize
  <2>2. Wait => job' = job
    BY <1>1 DEF Wait
  <2> QED
    BY <1>1, <1>7, <2>1, <2>2 DEF Decide, AsksOrNot
<1>8. CASE NotPerformed \/ Landed \/ LandedUncertainly \/ ActionStops
  BY <1>1, <1>8 DEF NotPerformed, Landed, LandedUncertainly, ActionStops, AsksOrNot
<1>9. CASE Verify \/ FinishVerification
  BY <1>1, <1>3, <1>4, <1>9 DEF Verify, FinishVerification, AsksOrNot
<1>10. CASE Abort \/ Retry
  BY <1>1, <1>10 DEF Abort, Retry, AsksOrNot
<1>11. CASE Execute
  <2>1. \A o, candidate : AuthorizeCaller(o, candidate) => job' = job
    BY <1>1 DEF AuthorizeCaller
  <2> QED
    BY <1>1, <1>11, <2>1 DEF Execute, AsksOrNot
<1>12. CASE Refuse
  <2>1. \A p, reason : Reissue(p, reason) => job' = job /\ NoCall
    BY <1>1 DEF Reissue
  <2> QED
    BY <1>1, <1>12, <2>1 DEF Refuse, AsksOrNot
<1>13. CASE Attest
  BY <1>1, <1>4, <1>13 DEF Attest, Accept, AsksOrNot
<1> QED
  BY <1>5, <1>6, <1>7, <1>8, <1>9, <1>10, <1>11, <1>12, <1>13 DEF Drive, Caller

(* A new evaluation has a deadline within those of client and run.           *)
LEMMA AskingIsTimely ==
  ASSUME DeadlineInv, job' = job, AsksOrNot
  PROVE  DeadlineInv' /\ call'.phase # "answered"
<1>1. ActiveTimeout \in Nat /\ ActiveTimeout' = ActiveTimeout
  BY ActiveTimeoutType DEF DeadlineInv, ActiveTimeout
<1>2. CASE NoCall
  BY <1>1, <1>2 DEF NoCall, DeadlineInv, IsCall, Idle
<1>3. ASSUME NEW questions, Evaluate(questions, ActiveTimeout), UNCHANGED now
      PROVE  DeadlineInv' /\ call'.phase # "answered"
  <2>1. LOGICAL_TIMEOUT \in Nat
    BY ClientAssumption
  <2> DEFINE logical == Earlier(ActiveTimeout, now + LOGICAL_TIMEOUT)
  <2>2. logical \in Nat /\ logical <= now + LOGICAL_TIMEOUT /\ logical <= ActiveTimeout
    BY <1>1, <2>1 DEF DeadlineInv, Earlier
  <2>3. asked' = now
        /\ call' = [Idle EXCEPT !.phase = "sending", !.questions = questions, !.logical = logical]
    BY <1>3 DEF Evaluate
  <2> HIDE DEF logical
  <2>4. /\ call'.phase = "sending" /\ call'.logical = logical /\ IsCall(call')
    BY <2>2, <2>3 DEF Idle, IsCall
  <2> QED
    BY <1>1, <1>3, <2>2, <2>3, <2>4 DEF DeadlineInv
<1> QED
  BY <1>2, <1>3 DEF AsksOrNot

(* Another attempt, or none.                                                *)
LEMMA RetryIsTimely ==
  ASSUME DeadlineInv, UNCHANGED <<job, now, asked>>, call.phase = "waiting",
         \/ \E error : \E delay \in Nat : RetryOr(error, delay)
         \/ \E error : Fail(error)
  PROVE  DeadlineInv' /\ call'.phase # "answered"
<1>1. ActiveTimeout' = ActiveTimeout
  BY DEF ActiveTimeout
<1>2. CASE \E error : Fail(error)
  <2>1. call'.phase = "failed" /\ IsCall(call')
    BY <1>2, FailedCall
  <2> QED
    BY <1>1, <2>1 DEF DeadlineInv
<1>3. ASSUME NEW delay \in Nat, call' = [call EXCEPT !.phase = "backoff", !.until = now + delay]
      PROVE  DeadlineInv' /\ call'.phase # "answered"
  <2>1. /\ call'.phase = "backoff" /\ call'.logical = call.logical /\ IsCall(call')
    BY <1>3 DEF DeadlineInv, IsCall
  <2> QED
    BY <1>1, <2>1 DEF DeadlineInv
<1> QED
  BY <1>2, <1>3 DEF RetryOr, WaitBeforeRetry

(* The client sends, waits and tries again within its deadline.              *)
LEMMA ClientIsTimely ==
  ASSUME DeadlineInv, Client \/ Provider
  PROVE  /\ DeadlineInv'
         /\ call.phase # "answered" /\ call'.phase = "answered" =>
              now <= asked + LOGICAL_TIMEOUT /\ now <= ActiveTimeout
<1>1. UNCHANGED <<job, now, asked>>
  BY DEF Client, Provider, flowVars, ClientStep, Send, WakeUp, TimedOut, ProviderStep, Answered,
         TurnedAway, Refused
<1>2. ActiveTimeout \in Nat /\ ActiveTimeout' = ActiveTimeout
  BY <1>1, ActiveTimeoutType DEF DeadlineInv, ActiveTimeout
<1>3. BACKOFF \in Nat /\ ATTEMPT_TIMEOUT \in Nat /\ LOGICAL_TIMEOUT \in Nat /\ RetryDelays \subseteq Nat
  BY ClientAssumption
<1>4. CASE Send
  <2>1. CASE call.logical < now
    <3>1. call'.phase = "failed" /\ IsCall(call')
      BY <1>4, <2>1, FailedCall DEF Send
    <3> QED
      BY <1>1, <1>2, <3>1 DEF DeadlineInv
  <2>2. CASE ~(call.logical < now)
    <3> DEFINE until == Earlier(now + ATTEMPT_TIMEOUT, call.logical)
    <3>1. until \in Nat /\ until <= call.logical
      BY <1>3 DEF DeadlineInv, IsCall, Earlier
    <3>2. call.phase = "sending" /\ call' = [call EXCEPT !.phase = "waiting", !.until = until]
      BY <1>4, <2>2 DEF Send
    <3> HIDE DEF until
    <3>3. /\ call'.phase = "waiting" /\ call'.until = until /\ call'.logical = call.logical
          /\ IsCall(call')
      BY <3>1, <3>2 DEF DeadlineInv, IsCall
    <3> QED
      BY <1>1, <1>2, <3>1, <3>2, <3>3 DEF DeadlineInv
  <2> QED
    BY <2>1, <2>2
<1>5. CASE WakeUp
  <2>1. call.phase = "backoff" /\ call' = [call EXCEPT !.phase = "sending", !.attempt = @ + 1]
    BY <1>5 DEF WakeUp
  <2>2. /\ call'.phase = "sending" /\ call'.logical = call.logical /\ IsCall(call')
    BY <2>1 DEF DeadlineInv, IsCall
  <2> QED
    BY <1>1, <1>2, <2>1, <2>2 DEF DeadlineInv
<1>6. CASE TimedOut
  BY <1>1, <1>3, <1>6, RetryIsTimely DEF TimedOut, Waiting
<1>7. CASE InTime /\ (TurnedAway \/ Refused)
  <2>1. call.phase = "waiting"
    BY <1>7 DEF InTime, Waiting
  <2>2. \/ \E error : \E delay \in Nat : RetryOr(error, delay)
        \/ \E error : Fail(error)
    BY <1>3, <1>7 DEF TurnedAway, Refused
  <2> QED
    BY <1>1, <2>1, <2>2, RetryIsTimely
<1>8. ASSUME InTime, NEW model, NEW answers, Answered(model, answers)
      PROVE  /\ DeadlineInv'
             /\ call'.phase = "answered" => now <= asked + LOGICAL_TIMEOUT /\ now <= ActiveTimeout
  <2>1. call.phase = "waiting" /\ now <= asked + LOGICAL_TIMEOUT /\ now <= ActiveTimeout
    BY <1>2, <1>3, <1>8 DEF InTime, Waiting, DeadlineInv, IsCall
  <2>2. CASE call' = [Idle EXCEPT !.phase = "answered", !.answers = answers]
    <3>1. call'.phase = "answered" /\ IsCall(call')
      BY <2>2 DEF Idle, IsCall
    <3> QED
      BY <1>1, <1>2, <2>1, <3>1 DEF DeadlineInv
  <2>3. CASE \E error : RetryOr(error, BACKOFF)
    BY <1>1, <1>3, <2>1, <2>3, RetryIsTimely
  <2> QED
    BY <1>8, <2>2, <2>3 DEF Answered
<1> QED
  BY <1>4, <1>5, <1>6, <1>7, <1>8 DEF Client, Provider, ClientStep, ProviderStep

(* So does every step; only an answer in time becomes one that is used.      *)
LEMMA DeadlineStep ==
  ASSUME DeadlineInv, [Next]_vars
  PROVE  /\ DeadlineInv'
         /\ call.phase # "answered" /\ call'.phase = "answered" =>
              now <= asked + LOGICAL_TIMEOUT /\ now <= ActiveTimeout
<1>1. CASE Drive \/ Caller
  BY <1>1, FlowAsksInTime, AskingIsTimely
<1>2. CASE Client \/ Provider
  BY <1>2, ClientIsTimely
<1>3. CASE TimePasses
  BY <1>3 DEF TimePasses, Tick, flowVars, DeadlineInv, ActiveTimeout
<1>4. CASE PageMoves \/ UNCHANGED vars
  BY <1>4 DEF PageMoves, vars, flowVars, clientVars, DeadlineInv, ActiveTimeout
<1> QED
  BY <1>1, <1>2, <1>3, <1>4 DEF Next

(* No answer is used after the deadline of its evaluation or of the run     *)
(* (AnswersComeInTime), however many attempts it took and whatever delays   *)
(* the provider asked for.                                                  *)
THEOREM LateAnswersAreNotUsed == Spec => AnswersComeInTime
<1>1. Init => DeadlineInv
  BY DEF Init, InitClient, DeadlineInv, IsCall, Idle
<1>2. DeadlineInv /\ [Next]_vars => DeadlineInv'
  BY DeadlineStep
<1>3. DeadlineInv /\ [Next]_vars =>
        [call.phase # "answered" /\ call'.phase = "answered" =>
           now <= asked + LOGICAL_TIMEOUT /\ now <= ActiveTimeout]_vars
  BY DeadlineStep
<1> QED
  BY <1>1, <1>2, <1>3, PTL DEF Spec, AnswersComeInTime
-----------------------------------------------------------------------------
(* What an attestation compares determines the outcome of every condition:  *)
(* those of text and of colors by the checks themselves, which look at more *)
(* of the page than the state that is compared.                             *)
LEMMA RelevantFactsDecide ==
  ASSUME NEW assertions, NEW o, NEW p, \A a \in assertions : IsAssertion(a),
         RelevantFacts(assertions, o) = RelevantFacts(assertions, p)
  PROVE  \A a \in assertions : CheckAssertion(a, o) = CheckAssertion(a, p)
<1> TAKE a \in assertions
<1>1. /\ RelevantState(o) = RelevantState(p)
      /\ AssertionChecks(assertions, o) = AssertionChecks(assertions, p)
  BY DEF RelevantFacts
<1>2. /\ o.url = p.url /\ o.dialogs = p.dialogs /\ o.focus = p.focus
      /\ o.elements = p.elements /\ o.coverage = p.coverage
  BY <1>1 DEF RelevantState
<1>3. CASE a.kind = "text"
  <2>1. <<a, TextCheck(a, o)>> \in AssertionChecks(assertions, p)
    BY <1>1, <1>3 DEF AssertionChecks
  <2>2. CheckAssertion(a, o) = TextCheck(a, o).result /\ CheckAssertion(a, p) = TextCheck(a, p).result
    BY <1>3 DEF CheckAssertion
  <2>3. TextCheck(a, o) = TextCheck(a, p)
    BY <1>3, <2>1 DEF AssertionChecks
  <2> QED
    BY <2>2, <2>3
<1>4. CASE a.kind = "color"
  <2>1. <<a, ColorCheck(a, o)>> \in AssertionChecks(assertions, p)
    BY <1>1, <1>4 DEF AssertionChecks
  <2>2. CheckAssertion(a, o) = ColorCheck(a, o).result /\ CheckAssertion(a, p) = ColorCheck(a, p).result
    BY <1>4 DEF CheckAssertion
  <2>3. ColorCheck(a, o) = ColorCheck(a, p)
    BY <1>4, <2>1 DEF AssertionChecks
  <2> QED
    BY <2>2, <2>3
<1>5. CASE a.kind = "dialog"
  <2>1. DialogCheck(a, o) = DialogCheck(a, p)
    BY <1>2 DEF DialogCheck, DialogsNamed, ViewportComplete
  <2> QED
    BY <1>5, <2>1 DEF CheckAssertion
<1>6. CASE a.kind = "url"
  BY <1>2, <1>6 DEF CheckAssertion
<1>7. CASE a.kind = "field"
  <2>1. FieldCheck(a, o) = FieldCheck(a, p)
    BY <1>2 DEF FieldCheck, FieldMatches
  <2> QED
    BY <1>7, <2>1 DEF CheckAssertion
<1>8. CASE a.kind = "focused"
  <2>1. FocusCheck(a, o) = FocusCheck(a, p)
    BY <1>2 DEF FocusCheck
  <2> QED
    BY <1>8, <2>1 DEF CheckAssertion
<1>9. IsAssertion(a)
  OBVIOUS
<1> QED
  BY <1>3, <1>4, <1>5, <1>6, <1>7, <1>8, <1>9 DEF IsAssertion

(* The conditions of a job's expectations are assertions.                   *)
LEMMA FinalConditionsAreAssertions ==
  ASSUME job \in Jobs PROVE \A a \in FinalAssertions : IsAssertion(a)
<1>1. IsJob(job)
  BY JudgedAssumption
<1>2. ASSUME NEW i \in DOMAIN job.expectations \ Naturals, NEW a \in job.expectations[i].assertions
      PROVE  IsAssertion(a)
  <2>1. IsExpectation(job.expectations[i]) /\ ~job.expectations[i].natural
    BY <1>1 DEF IsJob, Naturals
  <2> QED
    BY <2>1 DEF IsExpectation, IsNatural, IsStructured
<1> QED
  BY <1>2 DEF FinalAssertions

(* Nothing but an attestation that is accepted vouches for anything.        *)
LEMMA OnlyAttestationAttests ==
  ASSUME [Next]_vars, attested' # attested
  PROVE  Attest /\ shown' = page /\ StillShows(page.seen, FinalAssertions)
<1>1. /\ \A reason : End(reason) => attested' = attested
      /\ \A p, reason : Pause(p, reason) => attested' = attested
      /\ \A to : Await(to) => attested' = attested
      /\ \A d : Observe(d) => attested' = attested
      /\ PassStep => attested' = attested
      /\ \A o, candidate, caller : Dispatch(o, candidate, caller) => attested' = attested
  BY DEF End, Pause, Await, Observe, PassStep, Go, Dispatch
<1>2. \A questions, to : AskOr(questions, to) => attested' = attested
  BY <1>1 DEF AskOr
<1>3. \A results, shot, reason : Record(results, shot, reason) => attested' = attested
  <2> SUFFICES ASSUME NEW results, NEW shot, NEW reason, Record(results, shot, reason)
               PROVE  attested' = attested
    OBVIOUS
  <2>1. Conjunction(Results(results)) \in {"satisfied", "not_satisfied", "unresolved"}
    BY DEF Conjunction
  <2> QED
    BY <1>1, <2>1 DEF Record
<1>4. \A shot, to, reason : EvaluateFinal(shot, to, reason) => attested' = attested
  BY <1>2, <1>3 DEF EvaluateFinal, AskOrRecord
<1>5. ~(CaptureFails \/ ProviderFails)
  BY <1>1 DEF CaptureFails, ProviderFails
<1>6. ~ObserveStep
  <2>1. \A result, o : Judged(result, o) => attested' = attested
    BY <1>1, <1>2 DEF Judged
  <2> QED
    BY <1>1, <2>1 DEF ObserveStep
<1>7. ~Decide
  <2>1. \A o, a : Authorize(o, a) => attested' = attested
    BY <1>1 DEF Authorize
  <2>2. Wait => attested' = attested
    BY <1>1 DEF Wait
  <2> QED
    BY <1>1, <2>1, <2>2 DEF Decide
<1>8. ~(NotPerformed \/ Landed \/ LandedUncertainly \/ ActionStops)
  BY <1>1 DEF NotPerformed, Landed, LandedUncertainly, ActionStops
<1>9. ~(Verify \/ FinishVerification)
  BY <1>1, <1>3, <1>4 DEF Verify, FinishVerification
<1>10. ~(Abort \/ Retry)
  BY <1>1 DEF Abort, Retry
<1>11. ~Execute
  <2>1. \A o, candidate : AuthorizeCaller(o, candidate) => attested' = attested
    BY <1>1 DEF AuthorizeCaller
  <2> QED
    BY <1>1, <2>1 DEF Execute
<1>12. ~Refuse
  <2>1. \A p, reason : Reissue(p, reason) => attested' = attested
    BY <1>1 DEF Reissue
  <2> QED
    BY <1>1, <2>1 DEF Refuse
<1>13. ~(Client \/ Provider \/ PageMoves \/ TimePasses \/ UNCHANGED vars)
  BY DEF Client, Provider, PageMoves, TimePasses, vars, flowVars
<1>14. Attest
  BY <1>5, <1>6, <1>7, <1>8, <1>9, <1>10, <1>11, <1>12, <1>13 DEF Next, Drive, Caller
<1> QED
  BY <1>1, <1>4, <1>14 DEF Attest

(* The caller vouches for the page that was escalated to it                 *)
(* (AttestedAsSeen): the same document, on which every final condition has  *)
(* the outcome it had, whatever job and pages, and whatever else of the     *)
(* page has changed since.                                                  *)
THEOREM CallersVouchForWhatTheySaw == Spec => AttestedAsSeen
<1>1. Init => DeadlineInv
  BY DEF Init, InitClient, DeadlineInv, IsCall, Idle
<1>2. DeadlineInv /\ [Next]_vars => DeadlineInv'
  BY DeadlineStep
<1>3. DeadlineInv /\ [Next]_vars =>
        [attested' # attested =>
           /\ shown'.seen.document = pending.shown.seen.document
           /\ \A a \in FinalAssertions :
                CheckAssertion(a, shown'.seen) = CheckAssertion(a, pending.shown.seen)]_vars
  <2> SUFFICES ASSUME DeadlineInv, [Next]_vars, attested' # attested
               PROVE  /\ shown'.seen.document = pending.shown.seen.document
                      /\ \A a \in FinalAssertions :
                           CheckAssertion(a, shown'.seen) = CheckAssertion(a, pending.shown.seen)
    OBVIOUS
  <2>1. shown' = page /\ StillShows(page.seen, FinalAssertions)
    BY OnlyAttestationAttests
  <2>2. \A a \in FinalAssertions : IsAssertion(a)
    BY FinalConditionsAreAssertions DEF DeadlineInv
  <2>3. \A a \in FinalAssertions : CheckAssertion(a, page.seen) = CheckAssertion(a, pending.shown.seen)
    BY <2>1, <2>2, RelevantFactsDecide DEF StillShows
  <2> QED
    BY <2>1, <2>3 DEF StillShows
<1> QED
  BY <1>1, <1>2, <1>3, PTL DEF Spec, AttestedAsSeen

-----------------------------------------------------------------------------
(* What is the only one of its kind in both: a finite set of one element.   *)
LEMMA OneElement ==
  ASSUME NEW S, IsFiniteSet(S), Cardinality(S) = 1
  PROVE  \E x : S = {x}
  BY FS_Singleton

(* A capture that misses nothing shows the page as it is.                   *)
LEMMA CompleteIsWhole ==
  ASSUME NEW p \in Pages, ViewportComplete(p.seen) PROVE p.seen = p.whole
  BY JudgedAssumption

(* A search that is not met is refuted only where it looked everywhere.     *)
LEMMA SearchTells ==
  ASSUME NEW a, NEW channel, NEW complete
  PROVE  /\ Search(a, channel, complete).result = "satisfied" =>
              ((channel # "none") = a.present) /\ (channel = "none" => complete)
         /\ Search(a, channel, complete).result = "not_satisfied" => ((channel # "none") # a.present)
  BY DEF Search, Unresolved, TextEvidence, Truth

(* The one dialog of a name on a capture and on its page, and its text.      *)
DialogIn(p, name, i, j) ==
  /\ DialogsNamed(p.seen, name) = {i} /\ DialogsNamed(p.whole, name) = {j}
  /\ \A t \in p.seen.dialogs[i].text, u \in p.whole.dialogs[j].text : t \subseteq u

(* The dialogs of a name are the same if there is one on both.              *)
LEMMA SameDialog ==
  ASSUME CutsBetweenWords, NEW p \in Pages, NEW name,
         Cardinality(DialogsNamed(p.seen, name)) = 1, Cardinality(DialogsNamed(p.whole, name)) = 1
  PROVE  \E i, j : DialogIn(p, name, i, j)
<1>1. IsFiniteSet(DialogsNamed(p.seen, name)) /\ IsFiniteSet(DialogsNamed(p.whole, name))
  BY CaptureAssumption, FS_Subset DEF DialogsNamed, Finite
<1>2. PICK i : DialogsNamed(p.seen, name) = {i}
  BY <1>1, OneElement
<1>3. PICK j : DialogsNamed(p.whole, name) = {j}
  BY <1>1, OneElement
<1>4. i \in DOMAIN p.seen.dialogs /\ p.seen.dialogs[i].name = name
  BY <1>2 DEF DialogsNamed
<1>5. PICK k \in DOMAIN p.whole.dialogs :
         /\ p.whole.dialogs[k].name = p.seen.dialogs[i].name
         /\ \A t \in p.seen.dialogs[i].text, u \in p.whole.dialogs[k].text : t \subseteq u
  BY <1>4 DEF CutsBetweenWords
<1>6. k = j
  BY <1>3, <1>4, <1>5 DEF DialogsNamed
<1> QED
  BY <1>2, <1>3, <1>5, <1>6 DEF DialogIn

(* Accessible text: what a capture lists of it is on the page, in the same  *)
(* dialog.                                                                  *)
LEMMA AccessibleTextHolds ==
  ASSUME CutsBetweenWords, NEW p \in Pages, NEW a, IsText(a), ~a.painted,
         UniqueScope(p.seen, a.scope), UniqueScope(p.whole, a.scope),
         AccessibleCheck(a, p.seen).result = "satisfied"
  PROVE  AccessibleCheck(a, p.whole).result # "not_satisfied"
<1>1. CASE ViewportComplete(p.seen)
  <2>1. p.seen = p.whole
    BY <1>1, CompleteIsWhole
  <2> QED
    BY <2>1
<1>2. CASE ~ViewportComplete(p.seen)
  <2> DEFINE s == ScopedTexts(p.seen, a.scope)
             w == ScopedTexts(p.whole, a.scope)
             t == CHOOSE x \in s : TRUE
             u == CHOOSE x \in w : TRUE
  <2>1. s # {} /\ t \in s
    BY DEF AccessibleCheck, Unresolved, TextEvidence
  <2>2. a.present /\ a.text \in t
    <3> DEFINE ch == IF a.text \notin t THEN "none" ELSE IF a.scope = {} THEN "accessible" ELSE "dialog_text"
    <3>1. AccessibleCheck(a, p.seen) = Search(a, ch, ViewportComplete(p.seen))
      BY <2>1 DEF AccessibleCheck
    <3>2. ((ch # "none") = a.present) /\ ch # "none"
      BY <1>2, <3>1, SearchTells
    <3> QED
      BY <3>2
  <2>3. CASE w = {}
    BY <2>3 DEF AccessibleCheck, Unresolved, TextEvidence
  <2>4. CASE w # {}
    <3>1. u \in w
      BY <2>4
    <3>2. a.text \in u
      <4>1. CASE a.scope = {}
        <5>1. t = VisibleText(p.seen) /\ u = VisibleText(p.whole)
          BY <2>1, <3>1, <4>1 DEF ScopedTexts
        <5>2. PICK i \in DOMAIN p.seen.lines : a.text \in p.seen.lines[i]
          BY <2>2, <5>1 DEF VisibleText
        <5>3. \E j \in DOMAIN p.whole.lines : p.seen.lines[i] \subseteq p.whole.lines[j]
          BY DEF CutsBetweenWords
        <5> QED
          BY <5>1, <5>2, <5>3 DEF VisibleText
      <4>2. CASE a.scope # {}
        <5>1. PICK name : a.scope = {name}
          BY <4>2 DEF IsText, HasFields
        <5>2. PICK i, j : DialogIn(p, name, i, j)
          <6>1. /\ Cardinality(DialogsNamed(p.seen, name)) = 1
                /\ Cardinality(DialogsNamed(p.whole, name)) = 1
            BY <5>1 DEF UniqueScope
          <6> QED
            BY <6>1, SameDialog
        <5>3. s = p.seen.dialogs[i].text /\ w = p.whole.dialogs[j].text
          <6>1. /\ UNION {DialogsNamed(p.seen, x) : x \in a.scope} = {i}
                /\ UNION {DialogsNamed(p.whole, x) : x \in a.scope} = {j}
            BY <5>1, <5>2 DEF DialogIn
          <6>2. /\ s = UNION {p.seen.dialogs[k].text : k \in {i}}
                /\ w = UNION {p.whole.dialogs[k].text : k \in {j}}
            BY <4>2, <6>1, Zenon DEF ScopedTexts
          <6> QED
            BY <6>2
        <5> QED
          BY <2>1, <2>2, <3>1, <5>2, <5>3 DEF DialogIn
      <4> QED
        BY <4>1, <4>2
    <3> DEFINE ch == IF a.text \notin u THEN "none" ELSE IF a.scope = {} THEN "accessible" ELSE "dialog_text"
    <3>3. AccessibleCheck(a, p.whole) = Search(a, ch, ViewportComplete(p.whole))
      BY <2>4 DEF AccessibleCheck
    <3>4. ch # "none"
      BY <3>2
    <3> HIDE DEF ch
    <3>5. (ch # "none") = a.present
      BY <2>2, <3>4 DEF IsText
    <3> QED
      BY <3>3, <3>5, SearchTells
  <2> QED
    BY <2>3, <2>4
<1> QED
  BY <1>1, <1>2

(* Painted text: an inventory lists what is painted, and one that is        *)
(* complete all of it.                                                      *)
LEMMA PaintedTextHolds ==
  ASSUME NEW p \in Pages, NEW a, IsText(a), PaintedCheck(a, p.seen).result = "satisfied"
  PROVE  PaintedCheck(a, p.whole).result # "not_satisfied"
<1> DEFINE s == Inventories(p.seen, a.scope)
           w == Inventories(p.whole, a.scope)
           m == CHOOSE x \in s : TRUE
           n == CHOOSE x \in w : TRUE
           Channel(i) == IF a.text \in i.accessible THEN "accessible"
                         ELSE IF a.text \in i.hidden THEN "painted_aria_hidden" ELSE "none"
<1>1. Cardinality(s) = 1
  BY DEF PaintedCheck, Unresolved, TextEvidence
<1>2. CASE Cardinality(w) # 1
  BY <1>2 DEF PaintedCheck, Unresolved, TextEvidence
<1>3. CASE Cardinality(w) = 1
  <2>1. IsFiniteSet(s) /\ IsFiniteSet(w)
    BY CaptureAssumption, FS_Subset DEF Inventories, Finite
  <2>2. m \in s /\ n \in w
    BY <1>1, <1>3, <2>1, OneElement
  <2>3. m \in p.seen.painted /\ n \in p.whole.painted /\ m.scope = n.scope
    BY <2>2 DEF Inventories
  <2>4. /\ Words(m) \subseteq Words(n)
        /\ m.complete /\ PaintedComplete(p.seen) => Words(n) \subseteq Words(m)
    BY <2>3, CaptureAssumption
  <2>5. /\ PaintedCheck(a, p.seen) = Search(a, Channel(m), m.complete /\ PaintedComplete(p.seen))
        /\ PaintedCheck(a, p.whole) = Search(a, Channel(n), n.complete /\ PaintedComplete(p.whole))
    BY <1>1, <1>3 DEF PaintedCheck
  <2>6. \A i : Channel(i) # "none" <=> a.text \in Words(i)
    BY DEF Words
  <2> HIDE DEF m, n, Channel
  <2>7. /\ (Channel(m) # "none") = a.present
        /\ Channel(m) = "none" => m.complete /\ PaintedComplete(p.seen)
    BY <2>5, SearchTells
  <2>8. (Channel(n) # "none") = a.present
    BY <2>4, <2>6, <2>7 DEF IsText
  <2> QED
    BY <2>5, <2>8, SearchTells
<1> QED
  BY <1>2, <1>3

(* Colors: without a complete capture none is confirmed.                    *)
LEMMA ColorHolds ==
  ASSUME NEW p \in Pages, NEW a, ColorCheck(a, p.seen).result = "satisfied"
  PROVE  ColorCheck(a, p.whole).result # "not_satisfied"
<1> DEFINE target == Resolve(a.target, p.seen)
           references == {Resolve(r, p.seen) : r \in a.reference}
<1>1. ColorOutcome(a, target, references) = "satisfied"
  BY DEF ColorCheck, ColorsFound
<1>2. ViewportComplete(p.seen)
  <2>1. ~ViewportComplete(p.seen) => target.reason = "incomplete_coverage"
    BY DEF Resolve, Resolved
  <2>2. target.reason # "incomplete_coverage"
    BY <1>1 DEF ColorOutcome
  <2> QED
    BY <2>1, <2>2
<1>3. p.seen = p.whole
  BY <1>2, CompleteIsWhole
<1> QED
  BY <1>3

(* Dialogs: one that is open is open, one that was not found is closed only *)
(* on a complete capture.                                                   *)
LEMMA DialogHolds ==
  ASSUME NEW p \in Pages, NEW a, IsDialog(a), DialogCheck(a, p.seen) = "satisfied"
  PROVE  DialogCheck(a, p.whole) # "not_satisfied"
<1> DEFINE s == DialogsNamed(p.seen, a.name)
           w == DialogsNamed(p.whole, a.name)
<1>1. CASE ViewportComplete(p.seen)
  <2>1. p.seen = p.whole
    BY <1>1, CompleteIsWhole
  <2> QED
    BY <2>1
<1>2. CASE ~ViewportComplete(p.seen)
  <2>1. Cardinality(s) = 1 /\ a.open
    BY <1>2 DEF DialogCheck, Truth, IsDialog
  <2>2. IsFiniteSet(s) /\ IsFiniteSet(w)
    BY CaptureAssumption, FS_Subset DEF DialogsNamed, Finite
  <2>3. PICK i : s = {i}
    BY <2>1, <2>2, OneElement
  <2>4. i \in DOMAIN p.seen.dialogs /\ p.seen.dialogs[i].name = a.name
    BY <2>3 DEF DialogsNamed
  <2>5. \E j \in DOMAIN p.whole.dialogs : p.whole.dialogs[j].name = a.name
    BY <2>4, CaptureAssumption
  <2>6. w # {}
    BY <2>5 DEF DialogsNamed
  <2>7. Cardinality(w) # 0
    BY <2>2, <2>6, FS_EmptySet
  <2> QED
    BY <2>1, <2>7 DEF DialogCheck, Truth
<1> QED
  BY <1>1, <1>2

(* Fields: a control that is listed is there with the value it is listed    *)
(* with, and the page may have others like it.                              *)
LEMMA FieldHolds ==
  ASSUME NEW p \in Pages, NEW a, FieldCheck(a, p.seen) = "satisfied"
  PROVE  FieldCheck(a, p.whole) # "not_satisfied"
<1> DEFINE s == FieldMatches(a, p.seen)
           w == FieldMatches(a, p.whole)
<1>1. Cardinality(s) = 1
  BY DEF FieldCheck
<1>2. CASE Cardinality(w) # 1
  BY <1>2 DEF FieldCheck
<1>3. CASE Cardinality(w) = 1
  <2>1. IsFiniteSet(s) /\ IsFiniteSet(w)
    BY CaptureAssumption, FS_Subset DEF FieldMatches, Finite
  <2>2. PICK e : s = {e}
    BY <1>1, <2>1, OneElement
  <2>3. PICK f : w = {f}
    BY <1>3, <2>1, OneElement
  <2>4. e \in p.seen.elements /\ Identified(a, e)
    BY <2>2 DEF FieldMatches
  <2>5. PICK g \in p.whole.elements :
          g.node = e.node /\ g.name = e.name /\ g.role = e.role /\ g.dialog = e.dialog /\ g.value = e.value
    BY <2>4, CaptureAssumption
  <2>6. g \in w
    BY <2>4, <2>5 DEF FieldMatches, Identified
  <2>7. f.value = e.value
    BY <2>3, <2>5, <2>6
  <2>8. (CHOOSE x \in s : TRUE) = e /\ (CHOOSE x \in w : TRUE) = f
    BY <2>2, <2>3
  <2> HIDE DEF s, w
  <2>9. FieldCheck(a, p.whole) = FieldCheck(a, p.seen)
    BY <1>1, <1>3, <2>7, <2>8 DEF FieldCheck, s, w
  <2> QED
    BY <2>9
<1> QED
  BY <1>2, <1>3

(* The focus: if it was captured whole it is that of the page.              *)
LEMMA FocusHolds ==
  ASSUME NEW p \in Pages, NEW a, FocusCheck(a, p.seen) = "satisfied"
  PROVE  FocusCheck(a, p.whole) # "not_satisfied"
<1> DEFINE anchor == CHOOSE f \in p.seen.focus : TRUE
<1>1. p.seen.focus # {} /\ anchor \in p.seen.focus
  BY DEF FocusCheck
<1>2. anchor.covered /\ Identified(a, anchor)
  BY <1>1 DEF FocusCheck
<1>3. p.whole.focus = p.seen.focus
  BY <1>1, <1>2, CaptureAssumption
<1> QED
  BY <1>1, <1>2, <1>3 DEF FocusCheck

(* No condition that holds of a capture is false of the page.               *)
LEMMA ConditionHolds ==
  ASSUME CutsBetweenWords, NEW p \in Pages, NEW a, IsAssertion(a), CheckAssertion(a, p.seen) = "satisfied"
  PROVE  CheckAssertion(a, p.whole) # "not_satisfied"
<1>1. CASE a.kind = "text"
  <2>1. /\ CheckAssertion(a, p.seen) = TextCheck(a, p.seen).result
        /\ CheckAssertion(a, p.whole) = TextCheck(a, p.whole).result
    BY <1>1 DEF CheckAssertion
  <2>2. IsText(a)
    BY <1>1 DEF IsAssertion
  <2>3. UniqueScope(p.seen, a.scope)
    BY <2>1 DEF TextCheck, Unresolved, TextEvidence
  <2>4. CASE ~UniqueScope(p.whole, a.scope)
    BY <2>1, <2>4 DEF TextCheck, Unresolved, TextEvidence
  <2>5. CASE UniqueScope(p.whole, a.scope)
    BY <2>1, <2>2, <2>3, <2>5, AccessibleTextHolds, PaintedTextHolds DEF TextCheck
  <2> QED
    BY <2>4, <2>5
<1>2. CASE a.kind = "color"
  BY <1>2, ColorHolds DEF CheckAssertion
<1>3. CASE a.kind = "dialog"
  BY <1>3, DialogHolds DEF CheckAssertion, IsAssertion
<1>4. CASE a.kind = "url"
  <2>1. p.seen.url = p.whole.url
    BY CaptureAssumption
  <2> QED
    BY <1>4, <2>1 DEF CheckAssertion
<1>5. CASE a.kind = "field"
  BY <1>5, FieldHolds DEF CheckAssertion
<1>6. CASE a.kind = "focused"
  BY <1>6, FocusHolds DEF CheckAssertion
<1> QED
  BY <1>1, <1>2, <1>3, <1>4, <1>5, <1>6 DEF IsAssertion

(* Nor is a set of conditions.                                              *)
LEMMA ConditionsHold ==
  ASSUME CutsBetweenWords, NEW p \in Pages, NEW assertions, \A a \in assertions : IsAssertion(a),
         EvaluateAssertions(assertions, p.seen) = "satisfied"
  PROVE  EvaluateAssertions(assertions, p.whole) # "not_satisfied"
<1>1. \A a \in assertions : CheckAssertion(a, p.seen) = "satisfied"
  BY DEF EvaluateAssertions, Conjunction
<1>2. \A a \in assertions : CheckAssertion(a, p.whole) # "not_satisfied"
  BY <1>1, ConditionHolds
<1> QED
  BY <1>2 DEF EvaluateAssertions, Conjunction

(* The texts that an observation contains, and those that it lists.         *)
Contains(o, text) == \E c \in Containers(o) : c.text = text
Lists(o, text) ==
  \/ \E i \in DOMAIN o.lines : text = o.lines[i]
  \/ \E i \in DOMAIN o.dialogs : text \in o.dialogs[i].text
  \/ \E e \in o.elements : text = {e.name}
  \/ \E e \in o.elements : text = e.value

(* They are the same: lines, dialog texts, names and values of controls.    *)
LEMMA ContainersAre == ASSUME NEW o, NEW text PROVE Contains(o, text) <=> Lists(o, text)
<1> DEFINE Line(i) == [at |-> <<"line", i>>, text |-> o.lines[i]]
           Dialog(i, t) == [at |-> <<"dialog", i>>, text |-> t]
           Name(e) == [at |-> <<"name", e.index>>, text |-> {e.name}]
           Content(e) == [at |-> <<"value", e.index>>, text |-> e.value]
<1>1. /\ \A i : Line(i).text = o.lines[i]
      /\ \A i, t : Dialog(i, t).text = t
      /\ \A e : Name(e).text = {e.name} /\ Content(e).text = e.value
  OBVIOUS
<1>2. \A c : c \in Containers(o) <=>
        \/ \E i \in DOMAIN o.lines : c = Line(i)
        \/ \E i \in DOMAIN o.dialogs : \E t \in o.dialogs[i].text : c = Dialog(i, t)
        \/ \E e \in o.elements : c = Name(e)
        \/ \E e \in o.elements : c = Content(e)
  <2> TAKE c
  <2>1. c \in Containers(o) <=>
          \/ c \in {Line(i) : i \in DOMAIN o.lines}
          \/ c \in UNION {{Dialog(i, t) : t \in o.dialogs[i].text} : i \in DOMAIN o.dialogs}
          \/ c \in {Name(e) : e \in o.elements}
          \/ c \in {Content(e) : e \in o.elements}
    BY DEF Containers
  <2> HIDE DEF Line, Dialog, Name, Content
  <2>2. c \in UNION {{Dialog(i, t) : t \in o.dialogs[i].text} : i \in DOMAIN o.dialogs} <=>
          \E i \in DOMAIN o.dialogs : \E t \in o.dialogs[i].text : c = Dialog(i, t)
    OBVIOUS
  <2> QED
    BY <2>1, <2>2
<1> HIDE DEF Line, Dialog, Name, Content
<1>3. Contains(o, text) => Lists(o, text)
  BY <1>1, <1>2 DEF Contains, Lists
<1>4. Lists(o, text) => Contains(o, text)
  <2> SUFFICES ASSUME Lists(o, text) PROVE \E c \in Containers(o) : c.text = text
    BY DEF Contains
  <2>1. CASE \E i \in DOMAIN o.lines : text = o.lines[i]
    BY <1>1, <1>2, <2>1
  <2>2. CASE \E i \in DOMAIN o.dialogs : text \in o.dialogs[i].text
    BY <1>1, <1>2, <2>2
  <2>3. CASE \E e \in o.elements : text = {e.name}
    BY <1>1, <1>2, <2>3
  <2>4. CASE \E e \in o.elements : text = e.value
    BY <1>1, <1>2, <2>4
  <2> QED
    BY <2>1, <2>2, <2>3, <2>4 DEF Lists
<1> QED
  BY <1>3, <1>4

(* A number that is found where it was looked for is there on the page: the *)
(* lines, the dialogs and the controls a capture lists are parts of those   *)
(* of the page.                                                             *)
LEMMA NumberHolds ==
  ASSUME CutsBetweenWords, NEW p \in Pages, NEW x, Shows(p.seen, x) PROVE Shows(p.whole, x)
<1>1. ASSUME NEW e \in p.seen.elements
      PROVE  \E f \in p.whole.elements : f.name = e.name /\ f.value = e.value
  BY CaptureAssumption
<1>2. ASSUME NEW i \in DOMAIN p.seen.lines
      PROVE  \E j \in DOMAIN p.whole.lines : p.seen.lines[i] \subseteq p.whole.lines[j]
  BY DEF CutsBetweenWords
<1>3. CASE x.within = {}
  <2>1. OnPage(x.literal, p.seen)
    BY <1>3 DEF Shows
  <2>2. OnPage(x.literal, p.whole)
    BY <1>1, <1>2, <2>1 DEF OnPage, VisibleText
  <2> QED
    BY <1>3, <2>2 DEF Shows
<1>4. CASE x.within # {}
  <2> DEFINE words == x.within \cup {x.literal}
  <2>1. PICK c \in Containers(p.seen) : words \subseteq c.text
    BY <1>4 DEF Shows
  <2>2. Lists(p.seen, c.text)
    BY ContainersAre DEF Contains
  <2>3. \E text : c.text \subseteq text /\ Lists(p.whole, text)
    <3>1. CASE \E i \in DOMAIN p.seen.lines : c.text = p.seen.lines[i]
      BY <1>2, <3>1 DEF Lists
    <3>2. ASSUME NEW i \in DOMAIN p.seen.dialogs, c.text \in p.seen.dialogs[i].text
          PROVE  \E text : c.text \subseteq text /\ Lists(p.whole, text)
      <4>1. PICK j \in DOMAIN p.whole.dialogs :
              /\ p.seen.dialogs[i].text # {} => p.whole.dialogs[j].text # {}
              /\ \A t \in p.seen.dialogs[i].text, u \in p.whole.dialogs[j].text : t \subseteq u
        BY DEF CutsBetweenWords
      <4> QED
        BY <3>2, <4>1 DEF Lists
    <3>3. CASE \E e \in p.seen.elements : c.text = {e.name} \/ c.text = e.value
      BY <1>1, <3>3 DEF Lists
    <3> QED
      BY <2>2, <3>1, <3>2, <3>3 DEF Lists
  <2>4. PICK text : c.text \subseteq text /\ Contains(p.whole, text)
    BY <2>3, ContainersAre
  <2> QED
    BY <1>4, <2>1, <2>4 DEF Shows, Contains
<1> QED
  BY <1>3, <1>4

-----------------------------------------------------------------------------
(* A verdict on a structured expectation is what code made of the page, and *)
(* a natural one is satisfied only if its numbers were on it.               *)
Weighs(v, e, o) ==
  IF e.natural
    THEN v.result = "satisfied" => \A x \in Requested(e) : Shows(o, x)
    ELSE v = [result |-> EvaluateAssertions(e.assertions, o), noul |-> {}]

Weighed(results, o) ==
  /\ DOMAIN results = DOMAIN job.expectations
  /\ \A i \in DOMAIN job.expectations : Weighs(results[i], job.expectations[i], o)

(* What a run that passed rests on.                                         *)
Backed(o) ==
  \A i \in DOMAIN job.expectations :
    IF job.expectations[i].natural
      THEN attested \/ \A x \in Requested(job.expectations[i]) : Shows(o, x)
      ELSE EvaluateAssertions(job.expectations[i].assertions, o) = "satisfied"

Finishing == phase \in {"verifying", "evaluating", "reevaluating"}

(* Final verification follows on a step that passed, on verdicts of the     *)
(* page that was captured for it or that the caller was shown.              *)
JustInv ==
  /\ job \in Jobs /\ Executable(job) /\ page \in Pages
  /\ \A p \in passedOn : p \in Pages /\ Complete(p.seen) = "satisfied"
  /\ Finishing \/ Paused(FALSE) \/ stop = "passed" => passedOn # {}
  /\ phase \in {"evaluating", "reevaluating"} => shown \in Pages /\ Weighed(verdicts, shown.seen)
  /\ Paused(FALSE) => pending.shown \in Pages /\ Weighed(verdicts, pending.shown.seen)
  /\ stop = "passed" => shown \in Pages /\ Backed(shown.seen)

(* A call fails for one of four reasons, and the run stops for each.        *)
ErrorInv ==
  call.phase = "failed" => call.error \in {"invalid_response", "model_changed", "deadline", "unavailable"}

(* An attempt that is not made again fails for one of the reasons.          *)
LEMMA RetriesFailKnown ==
  ASSUME DeadlineInv, NEW error \in {"invalid_response", "model_changed", "unavailable"}
  PROVE  /\ Fail(error) => ErrorInv'
         /\ \A delay \in Nat : RetryOr(error, delay) => ErrorInv'
<1>1. \A e \in {"invalid_response", "model_changed", "deadline", "unavailable"} : Fail(e) => ErrorInv'
  BY DEF Fail, Idle, ErrorInv
<1>2. ASSUME NEW delay \in Nat, RetryOr(error, delay) PROVE ErrorInv'
  <2>1. CASE call' = [call EXCEPT !.phase = "backoff", !.until = now + delay]
    <3>1. call'.phase = "backoff"
      BY <2>1 DEF DeadlineInv, IsCall
    <3> QED
      BY <3>1 DEF ErrorInv
  <2> QED
    BY <1>1, <1>2, <2>1 DEF RetryOr, WaitBeforeRetry
<1> QED
  BY <1>1, <1>2

(* No step makes a call fail for another reason.                            *)
LEMMA ErrorStep == ASSUME ErrorInv, DeadlineInv, [Next]_vars PROVE ErrorInv'
<1>1. CASE Drive \/ Caller
  <2>1. AsksOrNot
    BY <1>1, FlowAsksInTime
  <2>2. CASE NoCall
    BY <2>2 DEF NoCall, Idle, ErrorInv
  <2>3. ASSUME NEW questions, Evaluate(questions, ActiveTimeout) PROVE ErrorInv'
    <3>1. call'.phase = "sending"
      BY <2>3 DEF Evaluate, Idle
    <3> QED
      BY <3>1 DEF ErrorInv
  <2> QED
    BY <2>1, <2>2, <2>3 DEF AsksOrNot
<1>2. BACKOFF \in Nat /\ RetryDelays \subseteq Nat
  BY ClientAssumption
<1>3. CASE Client
  <2>1. CASE Send
    <3>1. CASE call.logical < now
      BY <2>1, <3>1 DEF Send, Fail, Idle, ErrorInv
    <3>2. CASE ~(call.logical < now)
      <4>1. call'.phase = "waiting"
        BY <2>1, <3>2 DEF Send, DeadlineInv, IsCall
      <4> QED
        BY <4>1 DEF ErrorInv
    <3> QED
      BY <3>1, <3>2
  <2>2. CASE WakeUp
    <3>1. call'.phase = "sending"
      BY <2>2 DEF WakeUp, DeadlineInv, IsCall
    <3> QED
      BY <3>1 DEF ErrorInv
  <2>3. CASE TimedOut
    BY <1>2, <2>3, RetriesFailKnown DEF TimedOut
  <2> QED
    BY <1>3, <2>1, <2>2, <2>3 DEF Client, ClientStep
<1>4. CASE Provider
  <2>1. CASE TurnedAway
    BY <1>2, <2>1, RetriesFailKnown DEF TurnedAway
  <2>2. CASE Refused
    BY <2>2, RetriesFailKnown DEF Refused
  <2>3. ASSUME NEW model, NEW answers, Answered(model, answers) PROVE ErrorInv'
    <3>1. CASE call' = [Idle EXCEPT !.phase = "answered", !.answers = answers]
      BY <3>1 DEF Idle, ErrorInv
    <3>2. CASE \E error \in {"invalid_response", "model_changed"} : RetryOr(error, BACKOFF)
      BY <1>2, <3>2, RetriesFailKnown
    <3> QED
      BY <2>3, <3>1, <3>2 DEF Answered
  <2> QED
    BY <1>4, <2>1, <2>2, <2>3 DEF Provider, ProviderStep
<1>5. CASE PageMoves \/ TimePasses \/ UNCHANGED vars
  BY <1>5 DEF PageMoves, TimePasses, Tick, vars, clientVars, ErrorInv
<1> QED
  BY <1>1, <1>3, <1>4, <1>5 DEF Next

-----------------------------------------------------------------------------
(* What an executable job asks for is made of assertions.                   *)
LEMMA ConditionsAreAssertions ==
  ASSUME job \in Jobs, Executable(job)
  PROVE  /\ \A a \in TheStep.assertions : IsAssertion(a)
         /\ \A i \in DOMAIN job.expectations \ Naturals :
              \A a \in job.expectations[i].assertions : IsAssertion(a)
<1>1. IsJob(job) /\ 1 \in DOMAIN job.steps
  BY JudgedAssumption
<1>2. IsStep(TheStep)
  BY <1>1 DEF IsJob, TheStep
<1>3. \A a \in TheStep.assertions : IsAssertion(a)
  BY <1>2 DEF IsStep
<1>4. \A a \in FinalAssertions : IsAssertion(a)
  BY FinalConditionsAreAssertions
<1> QED
  BY <1>3, <1>4 DEF FinalAssertions

(* A conjunction has one of three outcomes.                                 *)
LEMMA OutcomesAre ==
  \A results : Conjunction(results) \in {"satisfied", "not_satisfied", "unresolved"}
BY DEF Conjunction

(* The verdicts pass together only if each of them does.                    *)
LEMMA VerdictsDecide ==
  ASSUME NEW results
  PROVE  Conjunction(Results(results)) = "satisfied" =>
           \A i \in DOMAIN results : results[i].result = "satisfied"
BY DEF Conjunction, Results

-----------------------------------------------------------------------------
(* A step that neither passes nor verifies.                                 *)
Quiet ==
  /\ passedOn' = passedOn /\ stop' # "passed"
  /\ \/ phase' \in {"observing", "asking", "dispatching", "ended"}
     \/ phase' = "paused" /\ pending'.step = TRUE

(* It needs no justification of its own.                                    *)
LEMMA QuietIsJustified ==
  ASSUME JustInv, job' = job, page' \in Pages, Quiet PROVE JustInv'
<1>1. ~Finishing' /\ ~Paused(FALSE)' /\ phase' \notin {"evaluating", "reevaluating"}
  BY DEF Quiet, Finishing, Paused
<1>2. \A p \in passedOn' : p \in Pages /\ (Complete(p.seen) = "satisfied")'
  BY DEF Quiet, JustInv, Complete, TheStep
<1> QED
  BY <1>1, <1>2 DEF Quiet, JustInv

(* Ending, pausing on the step, observing, asking and dispatching are such. *)
LEMMA QuietSteps ==
  /\ \A reason : End(reason) /\ reason # "passed" => Quiet
  /\ \A shot, candidates, reason : Pause(StepPending(shot, candidates), reason) /\ reason # "passed" => Quiet
  /\ \A d : Observe(d) => Quiet
  /\ \A o, candidate, caller : Dispatch(o, candidate, caller) => Quiet
  /\ \A questions : AskOr(questions, "asking") => Quiet
<1>1. \A reason : End(reason) /\ reason # "passed" => Quiet
  BY DEF End, Go, Quiet
<1>2. \A shot, candidates, reason : Pause(StepPending(shot, candidates), reason) /\ reason # "passed" => Quiet
  BY DEF Pause, StepPending, Go, Quiet
<1>3. \A d : Observe(d) => Quiet
  BY DEF Observe, Go, Quiet
<1>4. \A o, candidate, caller : Dispatch(o, candidate, caller) => Quiet
  BY DEF Dispatch, Quiet
<1>5. \A questions : AskOr(questions, "asking") => Quiet
  BY <1>1 DEF AskOr, Await, Go, Quiet
<1> QED
  BY <1>1, <1>2, <1>3, <1>4, <1>5

(* No reason to stop or to doubt is a pass.                                 *)
LEMMA StopsAreNoPasses ==
  /\ \A o : OriginStop(o) # "passed" /\ CaptureStop(o) # "passed"
  /\ \A o, a : Refusal(o, a) # "passed" /\ Doubt(o, a) # "passed"
<1>1. \A o : OriginStop(o) # "passed"
  BY DEF OriginStop
<1>2. \A o : CaptureStop(o) # "passed"
  BY <1>1 DEF CaptureStop
<1>3. ASSUME NEW o, NEW a PROVE Refusal(o, a) # "passed" 
  <2>1. Refusal(o, a) \in {"click_target_unavailable", "provider_invalid_response", "value_not_provided",
                           "operation_blocked", "scroll_region_ambiguous", "none"}
    BY DEF Refusal
  <2> QED
    BY <2>1
<1>4. ASSUME NEW o, NEW a PROVE Doubt(o, a) # "passed"
  BY DEF Doubt
<1> QED
  BY <1>1, <1>2, <1>3, <1>4

(* The step passes on a page that shows it is done.                         *)
LEMMA PassedStepIsJustified ==
  ASSUME JustInv, job' = job, page' \in Pages, PassStep, shown' = page, Complete(page.seen) = "satisfied"
  PROVE  JustInv'
<1>1. phase' = "verifying" /\ stop' = "none" /\ passedOn' = {page}
  BY DEF PassStep, Go
<1>2. (Complete(page.seen) = "satisfied") => \A p \in passedOn' : (Complete(p.seen) = "satisfied")'
  BY <1>1 DEF Complete, TheStep
<1>3. ~Paused(FALSE)' /\ passedOn' # {}
  BY <1>1 DEF Paused
<1> QED
  BY <1>1, <1>2, <1>3 DEF JustInv

(* A run that is recorded on verdicts of a page rests on them.              *)
LEMMA RecordIsJustified ==
  ASSUME JustInv, job' = job, page' \in Pages, passedOn # {},
         NEW shot \in Pages, shown' = shot, NEW results, Weighed(results, shot.seen),
         NEW uncertainty, uncertainty # "passed", Record(results, shot, uncertainty)
  PROVE  JustInv'
<1> DEFINE outcome == Conjunction(Results(results))
<1>1. verdicts' = results /\ passedOn' = passedOn /\ attested' = attested
  BY OutcomesAre DEF Record, End, Pause, Go
<1>2. \A p \in passedOn' : p \in Pages /\ (Complete(p.seen) = "satisfied")'
  BY <1>1 DEF JustInv, Complete, TheStep
<1>3. CASE outcome = "satisfied"
  <2>1. phase' = "ended" /\ stop' = "passed"
    BY <1>3 DEF Record, End, Go
  <2>2. \A i \in DOMAIN job.expectations : results[i].result = "satisfied"
    BY <1>3, VerdictsDecide DEF Weighed
  <2>3. Backed(shot.seen)
    <3>1. ASSUME NEW i \in DOMAIN job.expectations, ~job.expectations[i].natural
          PROVE  EvaluateAssertions(job.expectations[i].assertions, shot.seen) = "satisfied"
      <4>1. results[i] = [result |-> EvaluateAssertions(job.expectations[i].assertions, shot.seen),
                          noul |-> {}]
        BY <3>1 DEF Weighed, Weighs
      <4>2. results[i].result = EvaluateAssertions(job.expectations[i].assertions, shot.seen)
        BY <4>1
      <4> QED
        BY <2>2, <4>2
    <3> QED
      BY <2>2, <3>1 DEF Backed, Weighed, Weighs
  <2>4. Backed(shot.seen)'
    BY <1>1, <2>3 DEF Backed
  <2> QED
    BY <1>1, <1>2, <2>1, <2>4 DEF JustInv, Paused, Finishing
<1>4. CASE outcome = "not_satisfied"
  <2>1. Quiet
    BY <1>4, QuietSteps DEF Record
  <2> QED
    BY <2>1, QuietIsJustified
<1>5. CASE outcome = "unresolved"
  <2>1. phase' = "paused" /\ stop' # "passed" /\ pending'.shown = shot
    BY <1>5 DEF Record, Pause, Go, VerificationPending
  <2>2. Weighed(results, shot.seen)'
    BY DEF Weighed
  <2> QED
    BY <1>1, <1>2, <2>1, <2>2 DEF JustInv, Paused, Finishing
<1> QED
  BY <1>3, <1>4, <1>5, OutcomesAre

(* Before the model is asked, what code decides is decided.                 *)
LEMMA PreliminaryWeighs ==
  ASSUME NEW o PROVE Weighed(PreliminaryVerdicts(job.expectations, o), o)
<1> DEFINE v == PreliminaryVerdicts(job.expectations, o)
<1>1. DOMAIN v = DOMAIN job.expectations
  BY DEF PreliminaryVerdicts
<1>2. ASSUME NEW i \in DOMAIN job.expectations PROVE Weighs(v[i], job.expectations[i], o)
  <2>1. v[i] = [result |-> IF job.expectations[i].natural THEN "not_run"
                           ELSE EvaluateAssertions(job.expectations[i].assertions, o),
                noul |-> {}]
    BY DEF PreliminaryVerdicts
  <2> QED
    BY <2>1 DEF Weighs
<1> QED
  BY <1>1, <1>2 DEF Weighed

(* The model's scores leave to code what it decided, and satisfy a claim    *)
(* only if no number of it is missing.                                      *)
LEMMA FinalWeighs ==
  ASSUME NEW results, NEW o, Weighed(results, o), NEW nouls
  PROVE  Weighed(FinalVerdicts(job.expectations, results, nouls, o), o)
<1> DEFINE v == FinalVerdicts(job.expectations, results, nouls, o)
<1>1. DOMAIN v = DOMAIN job.expectations
  BY DEF FinalVerdicts
<1>2. ASSUME NEW i \in DOMAIN job.expectations PROVE Weighs(v[i], job.expectations[i], o)
  <2> DEFINE e == job.expectations[i]
  <2>1. CASE ~e.natural
    <3>1. v[i] = results[i]
      BY <2>1 DEF FinalVerdicts
    <3> QED
      BY <3>1 DEF Weighed
  <2>2. CASE e.natural
    <3>1. v[i] = [result |-> NaturalVerdict(e, nouls[i], o), noul |-> {nouls[i]}]
      BY <2>2 DEF FinalVerdicts
    <3>2. ASSUME NaturalVerdict(e, nouls[i], o) = "satisfied", NEW x \in Requested(e)
          PROVE  Shows(o, x)
      <4>1. NumericState(x, o) \notin {"missing", "ambiguous"}
        BY <3>2 DEF NaturalVerdict
      <4>2. CASE x.within = {}
        BY <4>1, <4>2 DEF NumericState, Shows
      <4>3. CASE x.within # {}
        <5> DEFINE within == {c \in Containers(o) : x.within \subseteq c.text}
        <5>1. \E c \in within : x.literal \in c.text
          BY <4>1, <4>3 DEF NumericState
        <5>2. PICK c \in Containers(o) : x.within \subseteq c.text /\ x.literal \in c.text
          BY <5>1
        <5> QED
          BY <4>3, <5>2 DEF Shows
      <4> QED
        BY <4>2, <4>3
    <3> QED
      BY <2>2, <3>1, <3>2 DEF Weighs
  <2> QED
    BY <2>1, <2>2
<1> QED
  BY <1>1, <1>2 DEF Weighed

(* Verification of a page: code decides it, or the model is asked.          *)
LEMMA VerificationIsJustified ==
  ASSUME JustInv, job' = job, page' \in Pages, passedOn # {},
         NEW shot \in Pages, shown' = shot, NEW to \in {"evaluating", "reevaluating"},
         NEW uncertainty, uncertainty # "passed", EvaluateFinal(shot, to, uncertainty)
  PROVE  JustInv'
<1> DEFINE results == PreliminaryVerdicts(job.expectations, shot.seen)
<1>1. Weighed(results, shot.seen)
  BY PreliminaryWeighs
<1> HIDE DEF results
<1>2. CASE Record(results, shot, uncertainty)
  BY <1>1, <1>2, RecordIsJustified
<1>3. CASE verdicts' = results /\ AskOr(ClaimQuestions, to)
  <2>1. CASE End("budget_exhausted")
    BY <2>1, QuietSteps, QuietIsJustified
  <2>2. CASE Await(to)
    <3>1. phase' = to /\ stop' = "none" /\ passedOn' = passedOn
      BY <2>2 DEF Await, Go
    <3>2. Weighed(verdicts, shot.seen)'
      BY <1>1, <1>3 DEF Weighed
    <3>3. \A p \in passedOn' : p \in Pages /\ (Complete(p.seen) = "satisfied")'
      BY <3>1 DEF JustInv, Complete, TheStep
    <3> QED
      BY <1>3, <3>1, <3>2, <3>3 DEF JustInv, Paused
  <2> QED
    BY <1>3, <2>1, <2>2 DEF AskOr
<1> QED
  BY <1>2, <1>3 DEF EvaluateFinal, AskOrRecord, results

(* An attestation settles only what a model was uncertain of; what code     *)
(* decided it decides alike on the page that still shows the same.          *)
LEMMA AcceptanceIsJustified ==
  ASSUME JustInv, job' = job, page' \in Pages, Paused(FALSE), Attestable(verdicts),
         NEW shot \in Pages, shown' = shot, StillShows(shot.seen, FinalAssertions), Accept
  PROVE  JustInv'
<1>1. phase' = "ended" /\ attested' = TRUE /\ passedOn' = passedOn /\ passedOn # {}
  BY DEF Accept, JustInv
<1>2. \A p \in passedOn' : p \in Pages /\ (Complete(p.seen) = "satisfied")'
  BY <1>1 DEF JustInv, Complete, TheStep
<1>3. \A a \in FinalAssertions : IsAssertion(a)
  BY FinalConditionsAreAssertions DEF JustInv
<1>4. \A a \in FinalAssertions : CheckAssertion(a, shot.seen) = CheckAssertion(a, pending.shown.seen)
  BY <1>3, RelevantFactsDecide DEF StillShows
<1>5. ASSUME NEW i \in DOMAIN job.expectations, ~job.expectations[i].natural
      PROVE  EvaluateAssertions(job.expectations[i].assertions, shot.seen) = "satisfied"
  <2> DEFINE assertions == job.expectations[i].assertions
             o == pending.shown.seen
  <2>1. verdicts[i] = [result |-> EvaluateAssertions(assertions, o), noul |-> {}] /\ i \in DOMAIN verdicts
    BY <1>5 DEF JustInv, Weighed, Weighs
  <2>2. verdicts[i].result = EvaluateAssertions(assertions, o) /\ verdicts[i].noul = {}
    BY <2>1
  <2>3. verdicts[i].result \notin {"unresolved", "not_satisfied"}
    BY <2>1, <2>2 DEF Attestable, Results
  <2>4. EvaluateAssertions(assertions, o) = "satisfied"
    BY <2>2, <2>3, OutcomesAre DEF EvaluateAssertions
  <2>5. \A a \in assertions : a \in FinalAssertions
    BY <1>5 DEF FinalAssertions, Naturals
  <2>6. {CheckAssertion(a, shot.seen) : a \in assertions} = {CheckAssertion(a, o) : a \in assertions}
    BY <1>4, <2>5
  <2> QED
    BY <2>4, <2>6 DEF EvaluateAssertions
<1>6. Backed(shot.seen)'
  BY <1>1, <1>5 DEF Backed
<1> QED
  BY <1>1, <1>2, <1>6 DEF JustInv, Paused, Finishing

(* Deciding on an answer dispatches, waits, escalates or ends.              *)
LEMMA DecisionsAreQuiet == ASSUME Decide PROVE Quiet
<1> DEFINE a == call.answers[0]
           o == shown.seen
<1>1. Refusal(o, a) # "passed" /\ Doubt(o, a) # "passed"
  BY StopsAreNoPasses
<1> HIDE DEF a, o
<1>2. Wait => Quiet
  BY QuietSteps DEF Wait
<1>3. Authorize(o, a) => Quiet
  BY <1>1, QuietSteps DEF Authorize
<1> USE DEF a, o
<1>4. CASE UnsupportedSurface(o, a)
  BY <1>4, QuietSteps DEF Decide
<1>5. CASE a.operation = "CLICK" /\ Refusal(o, a) # "none" /\ ~UnsupportedSurface(o, a)
  BY <1>1, <1>5, QuietSteps DEF Decide
<1>6. CASE /\ Doubt(o, a) # "none" /\ ~UnsupportedSurface(o, a)
           /\ ~(a.operation = "CLICK" /\ Refusal(o, a) # "none")
  BY <1>1, <1>6, QuietSteps DEF Decide
<1>7. CASE /\ Doubt(o, a) = "none" /\ ~UnsupportedSurface(o, a)
           /\ ~(a.operation = "CLICK" /\ Refusal(o, a) # "none")
  BY <1>2, <1>3, <1>7, QuietSteps DEF Decide
<1> QED
  BY <1>4, <1>5, <1>6, <1>7

(* No step of the run passes it on a page that does not bear it out.        *)
LEMMA DriveIsJustified ==
  ASSUME JustInv, ErrorInv, job' = job, page' \in Pages, Drive PROVE JustInv'
<1>1. CASE CaptureFails
  BY <1>1, QuietSteps, QuietIsJustified DEF CaptureFails
<1>2. CASE ObserveStep
  <2>1. CASE Judged(Complete(page.seen), page.seen)
    <3>1. CASE Complete(page.seen) = "satisfied" /\ PassStep
      BY <1>2, <3>1, PassedStepIsJustified DEF ObserveStep
    <3>2. CASE ~(Complete(page.seen) = "satisfied" /\ PassStep)
      <4>1. Quiet
        BY <2>1, <3>2, QuietSteps DEF Judged
      <4> QED
        BY <4>1, QuietIsJustified
    <3> QED
      BY <3>1, <3>2
  <2>2. CASE ~Judged(Complete(page.seen), page.seen)
    <3>1. Quiet
      BY <1>2, <2>2, QuietSteps, StopsAreNoPasses DEF ObserveStep
    <3> QED
      BY <3>1, QuietIsJustified
  <2> QED
    BY <2>1, <2>2
<1>3. CASE ProviderFails
  <2>1. ProviderStop(call.error) # "passed"
    BY <1>3 DEF ProviderFails, ErrorInv, ProviderStop
  <2> QED
    BY <1>3, <2>1, QuietSteps, QuietIsJustified DEF ProviderFails
<1>4. CASE Decide
  BY <1>4, DecisionsAreQuiet, QuietIsJustified
<1>5. CASE NotPerformed \/ Landed \/ LandedUncertainly \/ ActionStops
  <2>1. Quiet
    BY <1>5, QuietSteps DEF NotPerformed, Landed, LandedUncertainly, ActionStops
  <2> QED
    BY <2>1, QuietIsJustified
<1>6. CASE Verify
  <2>1. passedOn # {} /\ page \in Pages /\ shown' = page
    BY <1>6 DEF Verify, JustInv, Finishing
  <2>2. CASE End(CaptureStop(page.seen))
    BY <2>2, QuietSteps, StopsAreNoPasses, QuietIsJustified
  <2>3. CASE EvaluateFinal(page, "evaluating", "verification_uncertain")
    BY <2>1, <2>3, VerificationIsJustified
  <2> QED
    BY <1>6, <2>2, <2>3 DEF Verify
<1>7. CASE FinishVerification
  <2> DEFINE results == FinalVerdicts(job.expectations, verdicts, call.answers, shown.seen)
  <2>1. passedOn # {} /\ shown \in Pages /\ shown' = shown /\ Weighed(verdicts, shown.seen)
    BY <1>7 DEF FinishVerification, JustInv, Finishing
  <2>2. Weighed(results, shown.seen)
    BY <2>1, FinalWeighs
  <2>3. \E uncertainty \in {"verification_uncertain", "verification_state_changed"} :
          Record(results, shown, uncertainty)
    BY <1>7 DEF FinishVerification
  <2> HIDE DEF results
  <2> QED
    BY <2>1, <2>2, <2>3, RecordIsJustified
<1> QED
  BY <1>1, <1>2, <1>3, <1>4, <1>5, <1>6, <1>7 DEF Drive

(* A pause of final verification that lasts keeps what it rests on.          *)
LEMMA ReissueIsJustified ==
  ASSUME JustInv, job' = job, page' \in Pages, NEW step \in BOOLEAN, Paused(step),
         NEW reason, reason # "passed", Pause(pending, reason), step \/ verdicts' = verdicts
  PROVE  JustInv'
<1>1. phase' = "paused" /\ stop' = reason /\ pending' = pending /\ passedOn' = passedOn
  BY DEF Pause, Go
<1>2. CASE step = TRUE
  <2>1. Quiet
    BY <1>1, <1>2 DEF Paused, Quiet
  <2> QED
    BY <2>1, QuietIsJustified
<1>3. CASE step = FALSE
  <2>1. \A p \in passedOn' : p \in Pages /\ (Complete(p.seen) = "satisfied")'
    BY <1>1 DEF JustInv, Complete, TheStep
  <2>2. Weighed(verdicts, pending.shown.seen)'
    BY <1>1, <1>3 DEF JustInv, Weighed
  <2> QED
    BY <1>1, <1>3, <2>1, <2>2 DEF JustInv, Finishing
<1> QED
  BY <1>2, <1>3

(* Nor does anything the caller answers.                                    *)
LEMMA CallerIsJustified ==
  ASSUME JustInv, job' = job, page' \in Pages, Caller PROVE JustInv'
<1>1. CASE Abort \/ CaptureFails
  BY <1>1, QuietSteps, QuietIsJustified DEF Abort, CaptureFails
<1>2. CASE Retry
  <2>1. CASE pending.step
    BY <1>2, <2>1, QuietSteps, QuietIsJustified DEF Retry
  <2>2. CASE ~pending.step
    <3>1. phase' = "verifying" /\ stop' = "none" /\ passedOn' = passedOn
      BY <1>2, <2>2 DEF Retry, Await, Go
    <3>2. \A p \in passedOn' : p \in Pages /\ (Complete(p.seen) = "satisfied")'
      BY <3>1 DEF JustInv, Complete, TheStep
    <3>3. passedOn # {}
      BY <1>2, <2>2 DEF Retry, JustInv, Paused
    <3> QED
      BY <3>1, <3>2, <3>3 DEF JustInv, Paused
  <2> QED
    BY <2>1, <2>2
<1>3. CASE Execute
  <2>1. CASE Complete(page.seen) = "satisfied" /\ PassStep
    BY <1>3, <2>1, PassedStepIsJustified DEF Execute
  <2>2. CASE ~(Complete(page.seen) = "satisfied" /\ PassStep)
    <3>1. \A o, candidate : AuthorizeCaller(o, candidate) => Quiet
      BY QuietSteps DEF AuthorizeCaller
    <3>2. Quiet
      BY <1>3, <2>2, <3>1, QuietSteps, StopsAreNoPasses DEF Execute
    <3> QED
      BY <3>2, QuietIsJustified
  <2> QED
    BY <2>1, <2>2
<1>4. CASE Refuse
  <2>1. verdicts' = verdicts
    BY <1>4 DEF Refuse
  <2>2. CASE End(OriginStop(page.seen))
    BY <2>2, QuietSteps, StopsAreNoPasses, QuietIsJustified
  <2>3. ASSUME NEW reason \in {"candidate_not_offered", "execute_not_permitted", "advance_not_permitted",
                               "relevant_state_changed"},
               NEW step \in BOOLEAN, Paused(step), Reissue(pending, reason)
        PROVE  JustInv'
    BY <2>1, <2>3, ReissueIsJustified DEF Reissue
  <2> QED
    BY <1>4, <2>2, <2>3 DEF Refuse
<1>5. CASE Attest
  <2>1. passedOn # {} /\ page \in Pages /\ shown' = page /\ Paused(FALSE) /\ Attestable(verdicts)
    BY <1>5 DEF Attest, JustInv
  <2>2. CASE End(CaptureStop(page.seen))
    BY <2>2, QuietSteps, StopsAreNoPasses, QuietIsJustified
  <2>3. CASE StillShows(page.seen, FinalAssertions) /\ Accept
    BY <2>1, <2>3, AcceptanceIsJustified
  <2>4. CASE EvaluateFinal(page, "reevaluating", "verification_state_changed")
    BY <2>1, <2>4, VerificationIsJustified
  <2> QED
    BY <1>5, <2>2, <2>3, <2>4 DEF Attest
<1> QED
  BY <1>1, <1>2, <1>3, <1>4, <1>5 DEF Caller

(* Every step of the run, its client and its page keeps it justified.       *)
LEMMA JustInductive ==
  ASSUME JustInv, ErrorInv, [Next]_vars PROVE JustInv'
<1>1. page' \in Pages
  BY ShowsPages DEF JustInv
<1>2. CASE Drive \/ Caller
  BY <1>1, <1>2, FlowAsksInTime, DriveIsJustified, CallerIsJustified
<1>3. CASE ~(Drive \/ Caller)
  <2>1. UNCHANGED flowVars
    BY <1>3 DEF Next, Client, Provider, PageMoves, TimePasses, vars
  <2> QED
    BY <1>1, <2>1 DEF flowVars, JustInv, Finishing, Paused, Complete, TheStep, Weighed, Backed
<1> QED
  BY <1>2, <1>3

(* What is found on a capture holds of the page it was taken of, so that a  *)
(* run that passed rests on what is not false of the page.                  *)
LEMMA BackedIsJustified == CutsBetweenWords /\ JustInv => EndIsJustified
<1> SUFFICES ASSUME CutsBetweenWords, JustInv, stop = "passed" PROVE EndIsJustified
  BY DEF EndIsJustified
<1>1. /\ \A a \in TheStep.assertions : IsAssertion(a)
      /\ \A i \in DOMAIN job.expectations \ Naturals :
           \A a \in job.expectations[i].assertions : IsAssertion(a)
  BY ConditionsAreAssertions DEF JustInv
<1>2. \E p \in passedOn : EvaluateAssertions(TheStep.assertions, p.whole) # "not_satisfied"
  <2>1. PICK p \in passedOn : p \in Pages /\ Complete(p.seen) = "satisfied"
    BY DEF JustInv
  <2>2. EvaluateAssertions(TheStep.assertions, p.seen) = "satisfied"
    BY <2>1 DEF Complete
  <2> QED
    BY <1>1, <2>1, <2>2, ConditionsHold
<1>3. shown \in Pages /\ Backed(shown.seen)
  BY DEF JustInv
<1>4. ASSUME NEW i \in DOMAIN job.expectations, ~job.expectations[i].natural
      PROVE  EvaluateAssertions(job.expectations[i].assertions, shown.whole) # "not_satisfied"
  <2>1. \A a \in job.expectations[i].assertions : IsAssertion(a)
    BY <1>1, <1>4 DEF Naturals
  <2>2. EvaluateAssertions(job.expectations[i].assertions, shown.seen) = "satisfied"
    BY <1>3, <1>4 DEF Backed
  <2> QED
    BY <1>3, <2>1, <2>2, ConditionsHold
<1>5. ASSUME NEW i \in DOMAIN job.expectations, job.expectations[i].natural, ~attested,
             NEW x \in Requested(job.expectations[i])
      PROVE  Shows(shown.whole, x)
  BY <1>3, <1>5, NumberHolds DEF Backed
<1> QED
  BY <1>2, <1>4, <1>5 DEF EndIsJustified

(* Where no text is cut within a word, a run passes only on what is not     *)
(* false of its pages, and on numbers that are there (EndIsJustified):      *)
(* whatever else the captures left out, however the pages changed between   *)
(* capture, judgment and disposition, and however often it was paused.      *)
THEOREM PassesAreJustified == ASSUME CutsBetweenWords PROVE Spec => []EndIsJustified
<1>1. Init => DeadlineInv /\ ErrorInv /\ JustInv
  BY DEF Init, InitClient, DeadlineInv, IsCall, Idle, ErrorInv, JustInv, Finishing, Paused
<1>2. DeadlineInv /\ ErrorInv /\ JustInv /\ [Next]_vars => (DeadlineInv /\ ErrorInv /\ JustInv)'
  BY DeadlineStep, ErrorStep, JustInductive
<1> QED
  BY <1>1, <1>2, BackedIsJustified, PTL DEF Spec
=============================================================================
