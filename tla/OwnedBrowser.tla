---------------------------- MODULE OwnedBrowser ----------------------------
(***************************************************************************)
(* The browser a run owns: its launch, navigation, fenced and redacted     *)
(* captures, prepared input and its closing (OwnedBrowser of               *)
(* manuvra-chrome, with the capture and clean-up the flow wraps around it),*)
(* over the connection of CdpTransport and the page of ChromePage.  One    *)
(* thread performs one operation after another; input can be cancelled     *)
(* from outside, and any deadline may pass.                                *)
(*                                                                         *)
(* A thread that got an answer runs on to its next command in one action:  *)
(* what happens in between could as well have happened just before.        *)
(***************************************************************************)
EXTENDS ChromePage

CONSTANTS
  Operations,        \* the inputs that are performed
  CAPTURE_ATTEMPTS,
  MaxOps,            \* bound: operations in a session
  MaxPolls           \* bound: polls of a document before its wait times out

ASSUME SessionAssumption == CAPTURE_ATTEMPTS \in Nat \ {0} /\ MaxOps \in Nat /\ MaxPolls \in Nat \ {0}

VARIABLES
  life,      \* the browser's life: where the launch, the close, the Drop is
  profile,   \* its profile directory exists
  cleanup,   \* what the run reports of its clean-up
  results,   \* history: the operations and their results
  captured   \* history: the latest capture that was returned

vars == <<transport, chrome, surprises, life, profile, cleanup, op, results, captured>>

-----------------------------------------------------------------------------
(* Input is a sequence of commands.  A command that follows a dispatch is   *)
(* After: whatever goes wrong with it leaves the outcome uncertain.         *)
Command(m) == [method |-> m, after |-> FALSE]
After(m) == [method |-> m, after |-> TRUE]

Click == <<Command("revalidate"), Command("dispatch"), After("dispatch")>>
PressKey == <<Command("revalidate"), Command("dispatch"), After("dispatch")>>
Hover == <<Command("revalidate"), Command("dispatch")>>
PerKeyText == <<Command("revalidate"), After("insert"), After("dispatch"), After("read_text")>>
TypeText == <<Command("revalidate"), Command("focus"), After("insert"), After("read_text")>> \o PerKeyText
Select == <<Command("revalidate"), After("set")>>
SetValue == <<Command("revalidate"), After("set")>>
Scroll == <<Command("dispatch")>>
ScrollRegion == <<Command("revalidate"), Command("dispatch"), After("measure")>>

Suboperations ==
  [click |-> Click, press_key |-> PressKey, hover |-> Hover, type_text |-> TypeText, select |-> Select,
   set_value |-> SetValue, scroll |-> Scroll, scroll_region |-> ScrollRegion]

InputKinds == DOMAIN Suboperations
ASSUME OperationsAssumption == Operations \subseteq InputKinds
Captures == {"capture", "capture_matching"}
SettlesNavigation == {"click", "press_key"}

(* Mutant of Classify: a command after a dispatch is judged like the first. *)
ClassifyAlone(step, outcome) ==
  CASE outcome = "not_sent" -> "not_performed" [] outcome = "rejected" -> "rejected" [] OTHER -> "uncertain"

(* classify and command_after_suboperation.                                 *)
Classify(step, outcome) ==
  IF step.after THEN "uncertain"
  ELSE CASE outcome = "not_sent" -> "not_performed"
         [] outcome = "rejected" -> "rejected"
         [] OTHER -> "uncertain"

LaunchSteps == <<"probe", "emulate">>
CaptureSteps == <<"watch", "mask", "observe", "screenshot", "observe">>
CleanupSteps == <<"unmask", "unwatch">>

NoOp == [kind |-> "none", phase |-> "none", at |-> 0, fence |-> 0, cursor |-> 0, quiet |-> FALSE,
         polls |-> 0, attempt |-> 0, verdict |-> "none", seen |-> <<>>,
         renewed |-> FALSE, cancelled |-> FALSE]
Operation(kind, phase) == [NoOp EXCEPT !.kind = kind, !.phase = phase, !.at = 1, !.attempt = 1,
                                       !.fence = journal.cursor, !.cursor = journal.cursor]
Number == Len(results) + 1

(* The operation goes on with a command, or ends.                           *)
GoOn(o, method) ==
  Issue(Place(Number, o.at), method, o.cancelled) /\ op' = o /\ UNCHANGED <<results, captured>>
Finish(result) ==
  /\ HangUp /\ op' = NoOp /\ captured' = captured
  /\ results' = Append(results, [kind |-> op.kind, result |-> result])
Fail == Finish(IF op.kind \in InputKinds THEN "uncertain" ELSE "error")

Caller == UNCHANGED <<worker, toChrome, fromChrome, broken, journal, chrome, surprises, life, profile, cleanup>>
Confirmed(a) == a.outcome = "confirmed"

-----------------------------------------------------------------------------
(* Navigation to the job's start page, and the wait for a quiet document.   *)
Free == life.at = "running" /\ op = NoOp

Navigate ==
  /\ Free /\ results = <<>>
  /\ GoOn(Operation("navigate", "commit"), "navigate")
  /\ Caller

CommitAnswered ==
  /\ op.phase = "commit"
  /\ \E a \in Answers :
       IF Confirmed(a) /\ a.value # "error_text"
       THEN GoOn([op EXCEPT !.phase = "document"], "ready_state")
       ELSE Fail
  /\ Caller

(* wait_for_document: quiet is that the document was complete and nothing   *)
(* relevant was recorded since; the quiet window has passed at the earliest *)
(* one poll later.                                                          *)
DocumentAnswered ==
  /\ op.phase = "document"
  /\ \E a \in Answers :
       IF ~Confirmed(a) \/ LostEventsSince(op.cursor) THEN Fail
       ELSE LET quiet == KindsSince(op.cursor) \cap Relevant = {} /\ (op.quiet \/ a.value = "complete") IN
            \/ /\ quiet /\ op.quiet
               /\ IF op.kind \in InputKinds THEN Finish("performed")
                  ELSE GoOn([op EXCEPT !.phase = "width"], "measure")
            \/ Fail
            \/ /\ op.polls < MaxPolls
               /\ GoOn([op EXCEPT !.quiet = quiet, !.cursor = journal.cursor, !.polls = @ + 1],
                       "ready_state")
  /\ Caller

WidthAnswered ==
  /\ op.phase = "width"
  /\ \E a \in Answers : IF Confirmed(a) THEN Finish("done") ELSE Fail
  /\ Caller

-----------------------------------------------------------------------------
(* Captures.  The document is watched before the fence, and masks, the      *)
(* observation and the screenshot come after it.                            *)
Navigated == results # <<>> /\ results[1].result = "done"
More == Free /\ Navigated /\ Len(results) <= MaxOps /\ results[Len(results)].result # "error"

Capture(kind) ==
  /\ More
  /\ GoOn(Operation(kind, "capture"), "watch")
  /\ Caller

(* Mutant of PageChangedSince: a new document is not a change of the page.  *)
ChangedSince(cursor) == LostEventsSince(cursor) \/ "changed" \in KindsSince(cursor)

PageChangedSince(cursor) ==
  LostEventsSince(cursor) \/ KindsSince(cursor) \cap (Relevant \ {"mask"}) # {}

(* The drops of the masks and of the watch, whatever became of the attempt. *)
CleanUp(verdict, seen) ==
  LET at == IF op.at = 1 THEN 2 ELSE 1 IN
  GoOn([op EXCEPT !.phase = "cleanup", !.at = at, !.verdict = verdict, !.seen = seen],
       CleanupSteps[at])
Judge(seen) == IF PageChangedSince(op.fence) THEN CleanUp("changed", <<>>) ELSE CleanUp("stable", seen)

(* The document is read, then the fence is taken from the journal.  Another *)
(* document that was committed after the read and recorded before the fence *)
(* is not the one that is watched; only the properties ask whether one was. *)
Overtaken == ~page.watched /\ \A i \in DOMAIN fromChrome : fromChrome[i].kind # "navigated"

CaptureAnswered ==
  /\ op.phase = "capture"
  /\ \E a \in Answers :
       LET step == CaptureSteps[op.at]
           on == [op EXCEPT !.at = @ + 1]
           seen == Append(op.seen, a.value)
       IN  IF ~Confirmed(a) THEN CleanUp("error", <<>>)
           ELSE CASE step = "watch" ->
                       GoOn([on EXCEPT !.fence = journal.cursor, !.renewed = Overtaken], "mask")
                  [] step = "mask" ->
                       IF a.value = "verified" THEN GoOn(on, "observe") ELSE CleanUp("unverifiable", <<>>)
                  [] step = "observe" /\ op.at = 3 ->
                       GoOn([on EXCEPT !.seen = <<a.value, HasReceived("popup")>>], "screenshot")
                  [] step = "screenshot" ->
                       IF op.kind = "capture" THEN Judge(seen) ELSE GoOn([on EXCEPT !.seen = seen], "observe")
                  [] OTHER ->
                       IF a.value.paint = op.seen[1].paint THEN Judge(op.seen) ELSE CleanUp("changed", <<>>)
  /\ Caller

CleanupAnswered ==
  /\ op.phase = "cleanup" /\ Answers # {}
  /\ IF op.at < Len(CleanupSteps) THEN GoOn([op EXCEPT !.at = @ + 1], CleanupSteps[op.at + 1])
     ELSE CASE op.verdict = "stable" ->
                 /\ HangUp /\ op' = NoOp
                 /\ results' = Append(results, [kind |-> op.kind, result |-> "captured"])
                 /\ captured' = <<[kind |-> op.kind, observed |-> op.seen[1], popup |-> op.seen[2],
                                   shot |-> op.seen[3], renewed |-> op.renewed]>>
            [] op.verdict = "changed" /\ op.attempt < CAPTURE_ATTEMPTS ->
                 GoOn([Operation(op.kind, "capture") EXCEPT !.attempt = op.attempt + 1], "watch")
            [] op.verdict = "unverifiable" -> GoOn([op EXCEPT !.phase = "withheld"], "observe")
            [] OTHER -> Fail
  /\ Caller

(* withheld_capture: an observation alone, without a screenshot.            *)
WithheldAnswered ==
  /\ op.phase = "withheld"
  /\ \E a \in Answers : IF Confirmed(a) THEN Finish("withheld") ELSE Fail
  /\ Caller

-----------------------------------------------------------------------------
(* Input.                                                                   *)
Perform(kind) ==
  /\ More
  /\ GoOn(Operation(kind, "input"), Suboperations[kind][1].method)
  /\ page' = [page EXCEPT !.text = "previous"]
  /\ UNCHANGED <<worker, toChrome, fromChrome, broken, journal, effects, proc, surprises, life, profile, cleanup>>

Cancel ==
  /\ op.phase = "input" /\ ~op.cancelled /\ Surprise
  /\ op' = [op EXCEPT !.cancelled = TRUE]
  /\ call' = [call EXCEPT !.dead = call.reply # NotSent]
  /\ UNCHANGED <<queue, results, captured, worker, toChrome, fromChrome, broken, journal, chrome,
                 life, profile, cleanup>>

(* Mutant of InputDone: text is entered key by key without a look at it.    *)
AllDone(kind, at, value) == at = Len(Suboperations[kind])

(* The input is done once its last command is, or once text is read back    *)
(* that is not the earlier one.  Lost events leave it uncertain.            *)
InputDone(kind, at, value) ==
  at = Len(Suboperations[kind]) \/ (Suboperations[kind][at].method = "read_text" /\ value # "previous")

InputAnswered ==
  /\ op.phase = "input"
  /\ \E a \in Answers :
       LET step == Suboperations[op.kind][op.at] IN
       IF ~Confirmed(a) THEN Finish(Classify(step, a.outcome))
       ELSE IF a.value = "no_target" THEN Finish(Classify(step, "rejected"))
       ELSE IF ~InputDone(op.kind, op.at, a.value)
       THEN GoOn([op EXCEPT !.at = @ + 1], Suboperations[op.kind][op.at + 1].method)
       ELSE IF LostEventsSince(op.fence) THEN Finish("uncertain")
       ELSE IF op.kind \notin SettlesNavigation THEN Finish("performed")
       ELSE HangUp /\ op' = [op EXCEPT !.phase = "settle"] /\ UNCHANGED <<results, captured>>
  /\ Caller

(* Mutant of SettleInput: only a committed navigation is waited for.        *)
SettleCommitted ==
  /\ op.phase = "settle"
  /\ IF LostEventsSince(op.fence) THEN Fail
     ELSE IF "navigated" \in KindsSince(op.fence)
     THEN op' = [op EXCEPT !.phase = "loading"] /\ UNCHANGED <<call, queue, results, captured>>
     ELSE Finish("performed")
  /\ Caller

(* settle_input_navigation: a navigation signal since the fence holds the   *)
(* result until loading stops and the document is quiet; without one the    *)
(* result is given when the quiet window is over.                           *)
SettleInput ==
  /\ op.phase = "settle"
  /\ IF LostEventsSince(op.fence) THEN Fail
     ELSE IF KindsSince(op.fence) \cap {"started", "navigated"} # {}
     THEN op' = [op EXCEPT !.phase = "loading"] /\ UNCHANGED <<call, queue, results, captured>>
     ELSE Finish("performed")
  /\ Caller

(* The latest signal of a frame is that it started to load.                 *)
LoadingSince(cursor) ==
  \E e \in Since(cursor) :
    /\ e.kind = "started"
    /\ \A f \in Since(cursor) : f.kind = "stopped" => f.cursor < e.cursor

AwaitLoading ==
  /\ op.phase = "loading"
  /\ \/ ~LostEventsSince(op.fence) /\ ~LoadingSince(op.fence)
        /\ GoOn([op EXCEPT !.phase = "document", !.cursor = op.fence, !.cancelled = FALSE], "ready_state")
     \/ Fail
  /\ Caller

-----------------------------------------------------------------------------
(* Launch and close.                                                        *)
Life(at) == life' = [at |-> at, terminate |-> "none"]
Terminating(at) == life' = [at |-> at, terminate |-> "check"]
Still == UNCHANGED <<transport, page, effects, surprises, op, results, captured, cleanup>>

Prepare ==
  /\ life.at = "new"
  /\ \/ Life("failed") /\ profile' = profile
     \/ Life("prepared") /\ profile' = TRUE
  /\ proc' = proc /\ Still

Spawn ==
  /\ life.at = "prepared"
  /\ \/ Life("endpoint") /\ proc' = "running" /\ profile' = profile
     \/ Life("failed") /\ proc' = proc /\ profile' \in BOOLEAN
  /\ Still

(* wait_for_endpoint and wait_for_page: ready, exited or too late.          *)
AwaitReady ==
  /\ life.at \in {"endpoint", "page"}
  /\ \/ life.at = "endpoint" /\ Life("page") /\ proc' = proc
     \/ life.at = "page" /\ proc = "running" /\ Life("connect") /\ proc' = proc
     \/ proc \in {"exited", "reaped"} /\ Terminating("dropping") /\ proc' = "reaped"
     \/ Terminating("dropping") /\ proc' = proc
  /\ profile' = profile /\ Still

ConnectClient ==
  /\ life.at = "connect"
  /\ \/ /\ ~broken /\ Life("setup")
        /\ worker' = [worker EXCEPT !.at = "initialize"]
        /\ Issue(Place(Number, 1), LaunchSteps[1], FALSE) /\ op' = Operation("launch", "setup")
     \/ Terminating("dropping") /\ UNCHANGED <<call, queue, worker, op>>
  /\ UNCHANGED <<toChrome, fromChrome, broken, journal, chrome, surprises, profile, cleanup, results, captured>>

SetupAnswered ==
  /\ op.phase = "setup"
  /\ \E a \in Answers :
       IF Confirmed(a) /\ op.at < Len(LaunchSteps)
       THEN GoOn([op EXCEPT !.at = @ + 1], LaunchSteps[op.at + 1]) /\ life' = life
       ELSE /\ IF Confirmed(a) THEN Life("running") ELSE Terminating("dropping")
            /\ HangUp /\ op' = NoOp /\ UNCHANGED <<results, captured>>
  /\ UNCHANGED <<worker, toChrome, fromChrome, broken, journal, chrome, surprises, profile, cleanup>>

Close ==
  /\ Free
  /\ Terminating("closing") /\ Discard
  /\ UNCHANGED <<chrome, surprises, profile, cleanup, op, results, captured>>

(* terminate_process of the Linux sibling: a process that was waited for is *)
(* not signalled, its pid may be another's.                                 *)
Step(to) == life' = [life EXCEPT !.terminate = to]

(* Mutant of TryWait: signals without asking whether the process is gone.   *)
SignalFirst ==
  /\ life.terminate = "check"
  /\ Step("signal") /\ UNCHANGED <<proc, profile>>
  /\ Still

TryWait ==
  /\ life.terminate = "check"
  /\ IF proc \in {"running", "hung"} THEN Step("signal") /\ proc' = proc
     ELSE Step("done") /\ proc' = "reaped"
  /\ profile' = profile /\ Still
Signal ==
  /\ life.terminate = "signal"
  /\ Step("wait")
  /\ UNCHANGED <<proc, profile>> /\ Still

(* Mutant of AwaitExit: the signal is taken for its effect.                 *)
AssumeExit ==
  /\ life.terminate = "wait"
  /\ Step("done") /\ UNCHANGED <<proc, profile>>
  /\ Still

AwaitExit ==
  /\ life.terminate = "wait"
  /\ \/ proc = "exited" /\ Step("done") /\ proc' = "reaped"
     \/ Step("kill") /\ proc' = proc
  /\ profile' = profile /\ Still
Kill ==
  /\ life.terminate = "kill"
  /\ Step("done") /\ proc' = "reaped" /\ broken' = TRUE /\ toChrome' = <<>>
  /\ UNCHANGED <<call, queue, worker, fromChrome, journal, page, effects, surprises, op, results, captured,
                 profile, cleanup>>

(* The Drop of a browser that did not start removes its profile if it can;  *)
(* close reports whether it could, and the Drop that follows tries again.   *)
RemoveProfile ==
  /\ life.terminate = "done"
  /\ \/ /\ life.at = "dropping" /\ Life("failed")
        /\ profile' \in BOOLEAN /\ cleanup' = cleanup
     \/ /\ life.at = "closing" /\ Life("closed")
        /\ profile' = FALSE /\ cleanup' = IF cleanup = "none" THEN "confirmed" ELSE cleanup
     \/ /\ life.at = "closing" /\ cleanup' = "unconfirmed" /\ profile' = profile
        /\ IF cleanup = "none" THEN life' = life ELSE Life("leaked")
  /\ UNCHANGED <<transport, chrome, surprises, op, results, captured>>

-----------------------------------------------------------------------------
Init ==
  /\ InitTransport /\ InitChrome
  /\ life = [at |-> "new", terminate |-> "none"] /\ profile = FALSE /\ cleanup = "none"
  /\ op = NoOp /\ results = <<>> /\ captured = <<>>

Thread ==
  \/ CommitAnswered \/ DocumentAnswered \/ WidthAnswered
  \/ CaptureAnswered \/ CleanupAnswered \/ WithheldAnswered
  \/ InputAnswered \/ SettleInput \/ AwaitLoading
  \/ Prepare \/ Spawn \/ AwaitReady \/ ConnectClient \/ SetupAnswered
  \/ TryWait \/ Signal \/ AwaitExit \/ Kill \/ RemoveProfile
Requests ==
  \/ Navigate \/ Close \/ Cancel
  \/ \E kind \in Captures : Capture(kind)
  \/ \E kind \in Operations : Perform(kind)

(* What the worker and Chrome still do while the browser is being closed    *)
(* could as well have happened before, but for its exit.                    *)
Session ==
  /\ life.terminate = "none" /\ life.at \notin {"closed", "leaked", "failed"}
  /\ UNCHANGED <<life, profile, cleanup, op, results, captured>>
Next ==
  \/ Thread \/ Requests
  \/ (Worker \/ Expire) /\ UNCHANGED chrome /\ Session
  \/ Chrome /\ Session
  \/ Exits /\ UNCHANGED <<life, profile, cleanup, op, results, captured>>

Spec == Init /\ [][Next]_vars
FairSpec ==
  /\ Spec
  /\ WF_vars(Thread)
  /\ WF_vars(Worker /\ UNCHANGED chrome /\ Session)
  /\ WF_vars(ChromeHandles /\ Session)
  /\ WF_vars(Expire /\ UNCHANGED chrome /\ Session)

-----------------------------------------------------------------------------
(* Types, and what the channels hold of each other: no request is newer     *)
(* than the latest call, and a reply waiting for the caller is for that.    *)
Requested == {queue[i].id : i \in DOMAIN queue} \cup {toChrome[i].id : i \in DOMAIN toChrome}
TypeOK ==
  /\ call.id \in Nat /\ call.open \in BOOLEAN /\ call.dead \in BOOLEAN
  /\ worker.at \in {"unconnected", "initialize", "idle", "awaiting", "stopped"}
  /\ \A n \in Requested \cup {worker.request.id} : n <= call.id
  /\ Len(journal.events) <= MAX_EVENTS
  /\ journal.cursor = journal.dropped + Len(journal.events)
  /\ proc \in {"none", "running", "hung", "exited", "reaped"}
  /\ op.phase = "none" => ~call.open
  /\ op.phase \in {"settle", "loading"} => ~call.open

(* A capture that is returned is of one document, whose masks were all put  *)
(* in place by the attempt: no other was committed while it was taken.  A   *)
(* popup opened before it is reported with it, also when the event has left *)
(* the journal.  Under a painted fence it shows one appearance.             *)
IsOneDocument(c) ==
  /\ c.observed.popup => c.popup
  /\ c.observed.masked = c.shot.masked /\ c.shot.masked # -1
  /\ c.kind = "capture_matching" => c.observed.paint = c.shot.paint

(* The document did not change from the placing of the masks to the picture.*)
IsOneState(c) == c.observed.version = c.shot.version /\ c.shot.masked = c.shot.version

(* A capture is of one document, and of one state of it however the page    *)
(* changed meanwhile, except where another document was committed after the *)
(* document was read and recorded before the fence: that one is not watched *)
(* for the rest of the attempt (CaptureIsUnchanged shows what follows).     *)
CaptureIsOnePage ==
  \A i \in DOMAIN captured :
    IsOneDocument(captured[i]) /\ (~captured[i].renewed => IsOneState(captured[i]))

(* What the code says of every capture, without that exception: that it is  *)
(* of one unchanged page, and that a secret that moves before the screenshot*)
(* invalidates the attempt.                                                 *)
CaptureIsUnchanged == \A i \in DOMAIN captured : IsOneState(captured[i])

(* The input of operation k that Chrome handled, by its place in the        *)
(* history, and where a kind of operation has input.                        *)
InputOf(k) == {i \in DOMAIN effects : effects[i].by.op = k}
InputsOf(kind) == {at \in DOMAIN Suboperations[kind] : Suboperations[kind][at].method \in Inputs}

(* All of it arrived, or text that was read back after it was first entered.*)
Whole(k, kind) ==
  \/ \A at \in InputsOf(kind) : \E i \in InputOf(k) : effects[i].by.at = at
  \/ kind = "type_text" /\ \E i \in InputOf(k) : InputOf(k) = {i}

(* An operation's input reaches the page in its order and never twice, also *)
(* when its answer was given up and it arrives later; text the page took is *)
(* not entered again; and input that is reported performed has arrived      *)
(* whole.                                                                   *)
DispatchedOnce ==
  \A k \in DOMAIN results : results[k].kind \in InputKinds =>
    /\ \A i \in InputOf(k) :
         /\ effects[i].by.at \in InputsOf(results[k].kind)
         /\ effects[i].method = Suboperations[results[k].kind][effects[i].by.at].method
    /\ \A i, j \in InputOf(k) : i < j =>
         /\ effects[i].by.at < effects[j].by.at
         /\ effects[i].changed => effects[j].method = "dispatch"
    /\ results[k].result = "performed" => Whole(k, results[k].kind)

(* Input reported rejected or not performed has changed nothing in the page,*)
(* and never will.                                                          *)
NotPerformedIsSafe ==
  \A k \in DOMAIN results : results[k].result \in {"not_performed", "rejected"} =>
    \A i \in InputOf(k) : results[k].kind = "type_text" /\ ~effects[i].changed

(* After input that may navigate, no navigation the page had signalled is   *)
(* ignored, and none is left when its loading was awaited, although the     *)
(* journal forgets; a document is quiet when nothing relevant was signalled *)
(* between two polls.                                                       *)
Settles ==
  LET at == journal.arrived IN
  /\ (op.phase = "settle" /\ results' # results /\ results'[Number].result = "performed")
       => at["started"] <= op.fence /\ at["navigated"] <= op.fence
  /\ (op.phase = "loading" /\ op'.phase = "document")
       => at["started"] <= op.fence \/ at["started"] < at["stopped"]
  /\ (op.phase = "document" /\ (op'.phase = "width" \/ (results' # results /\ results'[Number].result = "performed")))
       => \A kind \in Relevant : at[kind] <= op.cursor
SettledAfterInput == [][Settles]_vars

(* A browser that was closed, and one that did not start, has no process;   *)
(* a clean-up that is confirmed removed the profile as well; and the pid of *)
(* a process that was waited for, which may be another's, gets no signal.   *)
ClosedMeansGone ==
  /\ life.at \in {"failed", "closed", "leaked"} => proc \in {"none", "reaped"}
  /\ cleanup = "confirmed" => proc = "reaped" /\ ~profile
  /\ life.terminate = "signal" => proc \in {"running", "hung", "exited"}

(* Whatever Chrome does or leaves unanswered, every operation returns and   *)
(* every launch that failed and every close comes to its end.               *)
Busy == op # NoOp \/ life.terminate # "none"
EverythingReturns == Busy ~> ~Busy
=============================================================================
