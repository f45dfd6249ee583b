------------------------------ MODULE RunHost -------------------------------
(***************************************************************************)
(* The host process of one run: the flow thread that drives the browser,   *)
(* pauses and publishes; the socket thread that admits dispositions, aborts*)
(* and deadline notices; and the thread that notices the watchdog's death. *)
(*                                                                         *)
(* The three share Control: the in-memory run ("run" mutex, mem here), the *)
(* resume admission ("resume" mutex) and the publication mutex, which      *)
(* orders durable writes.  A step that holds the publication mutex across  *)
(* a write is two or three actions here; the program counter or the        *)
(* "admitting" variable says who holds it.                                 *)
(***************************************************************************)
EXTENDS RunStore

VARIABLES
  pc,         \* the flow thread
  mem,        \* Control.run: the run control in the host's memory
  draft,      \* the result the flow thread is publishing
  next,       \* what it does once the draft is published
  stop,       \* RunArtifacts.stop: why the machine is not being driven
  issued,     \* escalations issued so far; the last one has this number
  index,      \* HostedMachine.index; Steps + 1 once verification is complete
  inflight,   \* an input was dispatched and its fact is not in the journal
  abort,      \* Control.abort
  watchdogLost, \* Control.watchdog_lost
  cancelled,  \* Control.cancellation
  pending,    \* ResumeAdmission.pending
  awaiting,   \* ResumeAdmission.awaiting_checkpoint
  consumed,   \* ResumeAdmission.consumed
  admitting,  \* the request whose admission is being persisted
  resumeCall, \* [Requests -> what the client of a resume waits for]
  taken       \* history: escalation -> request whose disposition was applied

machineVars == <<stop, issued, index, inflight>>
publicationVars == <<mem, draft, next>>
signalVars == <<abort, watchdogLost, cancelled>>
admissionVars == <<pending, awaiting, consumed, taken>>
socketVars == <<inbox, admitting, resumeCall>>
hostVars == <<pc, machineVars, publicationVars, signalVars, admissionVars, admitting>>

-----------------------------------------------------------------------------
NoPublication == [request |-> NoRequest, response |-> NoResult]

FlowPcs == {"launch", "drive", "dispatch", "fact", "check", "pause", "publish",
            "respond", "store", "waiting", "polling", "apply", "clear",
            "record", "exit", "dead"}

MachineTypeOK ==
  /\ pc \in FlowPcs
  /\ stop \in {"none", "uncertain", "stopped", "run_cancelled", "evidence_unavailable"}
  /\ issued \in 0 .. MaxEscalations
  /\ index \in 0 .. Steps + 1

SignalTypeOK ==
  /\ inflight \in BOOLEAN
  /\ abort \in BOOLEAN /\ watchdogLost \in BOOLEAN /\ cancelled \in BOOLEAN

PublicationTypeOK ==
  /\ mem \in Controls
  /\ draft \in Results
  /\ next \in {"running", "paused", "terminal", "final"}
  /\ awaiting \in [request : Requests \cup {NoRequest}, response : Results \cup {NoResult}]

AdmissionTypeOK ==
  /\ pending \in Requests \cup {NoRequest}
  /\ admitting \in Requests \cup {NoRequest}
  /\ consumed \in [Escalations -> Requests \cup {NoRequest}]
  /\ taken \in [Escalations -> Requests \cup {NoRequest}]
  /\ resumeCall \in [Requests -> {"idle", "sent", "stale", "refused"}]

HostTypeOK == MachineTypeOK /\ SignalTypeOK /\ PublicationTypeOK /\ AdmissionTypeOK

HostInit ==
  /\ pc = "launch"
  /\ mem = InitialControl
  /\ draft = RunningResult
  /\ next = "running"
  /\ stop = "none"
  /\ issued = 0
  /\ index = 0
  /\ inflight = FALSE
  /\ abort = FALSE /\ watchdogLost = FALSE /\ cancelled = FALSE
  /\ pending = NoRequest
  /\ awaiting = NoPublication
  /\ consumed = [e \in Escalations |-> NoRequest]
  /\ admitting = NoRequest
  /\ resumeCall = [r \in Requests |-> "idle"]
  /\ taken = [e \in Escalations |-> NoRequest]

HostAlive == pc # "dead"
PublicationHeld == pc \in {"respond", "store"} \/ admitting # NoRequest
Paused(run) == run.result.state = "uncertain"
Accepted(r) == \E e \in Escalations : consumed[e] = r

(* Mutant of DeadlineReason: only the pause deadline ends a run.            *)
DeadlineOfPauseOnly(run) == IF now >= run.pauseAt THEN "resume_deadline_elapsed" ELSE "none"

(* deadline_termination and paused_termination: the first that applies.     *)
DeadlineReason(run) ==
  IF now >= Lifetime THEN "lifetime_elapsed"
  ELSE IF now >= run.pauseAt THEN "resume_deadline_elapsed" ELSE "none"

(* Mutant of Termination: the loss of the watchdog only cancels input.      *)
TerminationByCaller == IF abort THEN "caller_aborted" ELSE DeadlineReason(mem)

Termination ==
  IF watchdogLost THEN "watchdog_lost"
  ELSE IF abort THEN "caller_aborted" ELSE DeadlineReason(mem)

TerminationState(reason) ==
  IF reason = "caller_aborted" THEN "aborted"
  ELSE IF reason = "watchdog_lost" THEN "blocked" ELSE "expired"

(* The escalation the machine's artifacts carry: none once it was driven on.*)
CurrentEscalation == IF stop = "uncertain" THEN issued ELSE 0

-----------------------------------------------------------------------------
(* Starting the browser and driving the machine.                            *)

(* run_hosted: the browser starts and the action journal is created, or the *)
(* run is published blocked without ever being driven.                      *)
Launch ==
  /\ pc = "launch"
  /\ \/ /\ pc' = "drive" /\ journal' = "settled"
        /\ UNCHANGED <<draft, next>>
     \/ /\ pc' = "publish" /\ next' = "final"
        /\ draft' = HostResult("blocked", "stopped", 0)
        /\ UNCHANGED journal
  /\ UNCHANGED <<processVars, now, control, runLock, records, runRecord, abortRecord, faults,
                 mem, machineVars, signalVars, admissionVars, socketVars>>

(* The machine stops on a fresh escalation.                                 *)
Escalate ==
  /\ issued < MaxEscalations
  /\ issued' = issued + 1
  /\ stop' = "uncertain"

(* What an iteration of a step comes to.  Observations and model calls      *)
(* change none of this state.                                               *)
StepDone ==
  /\ draft' = RunningResult /\ next' = "running" /\ pc' = "publish"
  /\ UNCHANGED <<stop, issued, journal>>

ActionPrepared ==
  /\ journal' = "prepared" /\ pc' = "dispatch"
  /\ UNCHANGED <<draft, next, stop, issued>>

StepEscalates == Escalate /\ pc' = "check" /\ UNCHANGED <<draft, next, journal>>

StepStops(reason) ==
  stop' = reason /\ pc' = "check" /\ UNCHANGED <<draft, next, issued, journal>>

(* One iteration: a cancelled run stops before it observes again.           *)
DriveStep ==
  /\ pc = "drive" /\ index < Steps
  /\ \/ cancelled /\ StepStops("run_cancelled")
     \/ ~cancelled /\ (StepDone \/ ActionPrepared \/ StepEscalates \/ StepStops("stopped"))
  /\ UNCHANGED <<processVars, now, control, runLock, records, runRecord, abortRecord, faults,
                 mem, index, inflight, signalVars, admissionVars, socketVars>>

(* The prepared entry cannot be appended: nothing is dispatched.            *)
PrepareFails ==
  /\ index < Steps /\ (pc = "apply" \/ (pc = "drive" /\ ~cancelled))
  /\ Fault
  /\ journal' \in FailedWrite(journal, "prepared")
  /\ stop' = "stopped" /\ pc' = "check"
  /\ UNCHANGED <<processVars, now, control, runLock, records, runRecord, abortRecord,
                 publicationVars, issued, index, inflight, signalVars,
                 admissionVars, socketVars>>

(* The final verification after the last step; a verification the caller    *)
(* attested is not repeated.                                                *)
DriveVerification ==
  /\ pc = "drive" /\ index >= Steps
  /\ pc' = "check"
  /\ \/ /\ index' = Steps + 1 /\ UNCHANGED <<stop, issued>>
     \/ /\ index = Steps /\ Escalate /\ UNCHANGED index
     \/ /\ index = Steps /\ stop' = "stopped" /\ UNCHANGED <<index, issued>>
  /\ UNCHANGED <<processVars, now, storeVars, faults, publicationVars, inflight, signalVars,
                 admissionVars, socketVars>>

(* Mutant of Dispatch: the action is journaled as settled before it leaves. *)
DispatchAfterFact ==
  /\ pc = "dispatch"
  /\ journal' = "settled"
  /\ inflight' \in {FALSE, ~cancelled}
  /\ pc' = "fact"
  /\ UNCHANGED <<processVars, now, control, runLock, records, runRecord, abortRecord, faults,
                 publicationVars, stop, issued, index, signalVars, admissionVars, socketVars>>

(* Input leaves for the browser, unless cancellation or revalidation keeps  *)
(* it from being performed.                                                 *)
Dispatch ==
  /\ pc = "dispatch"
  /\ inflight' \in {FALSE, ~cancelled}
  /\ pc' = "fact"
  /\ UNCHANGED <<processVars, now, storeVars, faults, publicationVars, stop, issued, index,
                 signalVars, admissionVars, socketVars>>

(* The action's fact is journaled and the flow goes on, escalates an        *)
(* uncertain outcome, or stops.                                             *)
RecordFact ==
  /\ pc = "fact"
  /\ journal' = "settled" /\ inflight' = FALSE
  /\ \/ /\ pc' = "drive" /\ UNCHANGED <<stop, issued>>
     \/ /\ Escalate /\ pc' = "check"
     \/ /\ stop' = "stopped" /\ pc' = "check" /\ UNCHANGED issued
  /\ UNCHANGED <<processVars, now, control, runLock, records, runRecord, abortRecord, faults,
                 publicationVars, index, signalVars, admissionVars, socketVars>>

(* The fact cannot be appended: the run stops with incomplete evidence.     *)
FactFails ==
  /\ pc = "fact"
  /\ Fault
  /\ journal' \in FailedWrite(journal, "settled")
  /\ inflight' = (inflight /\ journal' = "prepared")
  /\ stop' = "stopped" /\ pc' = "check"
  /\ UNCHANGED <<processVars, now, control, runLock, records, runRecord, abortRecord,
                 publicationVars, issued, index, signalVars, admissionVars, socketVars>>

-----------------------------------------------------------------------------
(* The hosted loop: terminate, pause or finish.                             *)

(* publish_active_hosted_stop: the evidence bundle is published and the     *)
(* journal cleared (a failure to clear it is ignored) before the result is  *)
(* published as a checkpoint.                                               *)
Terminate(reason, then) ==
  /\ draft' = HostResult(TerminationState(reason), reason, CurrentEscalation)
  /\ next' = then
  /\ journal' \in {journal, "absent"}
  /\ pc' = "publish"

CheckTermination ==
  /\ pc = "check" /\ Termination # "none"
  /\ Terminate(Termination, "final")
  /\ UNCHANGED <<processVars, now, control, runLock, records, runRecord, abortRecord, faults,
                 mem, machineVars, signalVars, admissionVars, socketVars>>

(* An uncertain stop pauses: the deadline is set in memory once, then the   *)
(* checkpoint that shows it is published.                                   *)
CheckPause ==
  /\ pc = "check" /\ Termination = "none" /\ stop = "uncertain"
  /\ pc' = "pause"
  /\ UNCHANGED <<processVars, now, storeVars, faults, publicationVars, machineVars, signalVars,
                 admissionVars, socketVars>>

SetPauseDeadline ==
  /\ pc = "pause"
  /\ mem' = [mem EXCEPT !.pauseAt = IF @ = NoDeadline THEN PauseDeadline(now) ELSE @]
  /\ draft' = HostResult("uncertain", "none", issued)
  /\ next' = "paused" /\ pc' = "publish"
  /\ UNCHANGED <<processVars, now, storeVars, faults, machineVars, signalVars,
                 admissionVars, socketVars>>

(* finish_hosted_terminal: any other stop, or none, ends the run.           *)
CheckTerminal ==
  /\ pc = "check" /\ Termination = "none" /\ stop # "uncertain"
  /\ draft' = IF stop = "none" THEN HostResult("passed", "none", 0)
              ELSE HostResult("blocked", stop, 0)
  /\ next' = "terminal" /\ pc' = "publish"
  /\ UNCHANGED <<processVars, now, storeVars, faults, mem, machineVars, signalVars,
                 admissionVars, socketVars>>

(* Without its evidence bundle (or, at launch, its journal) the flow returns*)
(* an error, and the host process exits with it.                            *)
PublishesBundle ==
  \/ pc \in {"launch", "pause", "apply"}
  \/ (pc = "waiting" /\ Termination # "none")
  \/ pc = "check" /\ (Termination # "none" \/ stop # "uncertain")

BundleFails ==
  /\ PublishesBundle
  /\ Fault
  /\ pc' = "exit"
  /\ UNCHANGED <<processVars, now, storeVars, publicationVars, machineVars, signalVars,
                 admissionVars, socketVars>>

-----------------------------------------------------------------------------
(* publish_checkpoint, under the publication mutex: the memory first, then  *)
(* the immutable answer of a disposition that waits for it, then the file.  *)

UpdatePauseDeadline(run, result) ==
  IF result.state # "uncertain" THEN NoDeadline
  ELSE IF run.pauseAt = NoDeadline THEN PauseDeadline(now) ELSE run.pauseAt

(* Mutant of Publish: the publication mutex is not taken.                   *)
PublishUnlocked ==
  /\ pc = "publish"
  /\ mem' = [seq |-> mem.seq + 1, result |-> draft,
             pauseAt |-> UpdatePauseDeadline(mem, draft)]
  /\ pc' = "respond"
  /\ UNCHANGED <<processVars, now, storeVars, faults, draft, next, machineVars, signalVars,
                 admissionVars, socketVars>>

Publish ==
  /\ pc = "publish" /\ ~PublicationHeld
  /\ mem' = [seq |-> mem.seq + 1, result |-> draft,
             pauseAt |-> UpdatePauseDeadline(mem, draft)]
  /\ pc' = "respond"
  /\ UNCHANGED <<processVars, now, storeVars, faults, draft, next, machineVars, signalVars,
                 admissionVars, socketVars>>

(* Mutant of FrozenResponse: a retried answer is the later checkpoint.      *)
LatestResponse == draft

(* The first checkpoint tried after a disposition was taken is its answer,  *)
(* also when it has to be tried again.                                      *)
FrozenResponse == IF awaiting.response = NoResult THEN draft ELSE awaiting.response

PublishResponse ==
  /\ pc = "respond"
  /\ pc' = "store"
  /\ IF awaiting.request = NoRequest
     THEN UNCHANGED <<records, awaiting>>
     ELSE /\ records' = [records EXCEPT ![awaiting.request] = Complete(@.esc, FrozenResponse)]
          /\ awaiting' = NoPublication
  /\ UNCHANGED <<processVars, now, control, journal, runLock, runRecord, abortRecord, faults,
                 publicationVars, machineVars, signalVars, pending, consumed,
                 taken, socketVars>>

AfterPublication ==
  IF next = "running" THEN "drive"
  ELSE IF next = "paused" THEN "waiting"
  ELSE IF next = "terminal" THEN "clear" ELSE "record"

(* The control file is written; a published running checkpoint completes    *)
(* its step.                                                                *)
PublishControl ==
  /\ pc = "store"
  /\ control' = mem
  /\ pc' = AfterPublication
  /\ index' = IF next = "running" THEN index + 1 ELSE index
  /\ UNCHANGED <<processVars, now, journal, runLock, records, runRecord, abortRecord, faults,
                 publicationVars, stop, issued, inflight, signalVars,
                 admissionVars, socketVars>>

(* A checkpoint that cannot be published stops a running machine and ends   *)
(* the host otherwise.                                                      *)
PublicationFailed ==
  IF next = "running"
  THEN pc' = "check" /\ stop' = "evidence_unavailable"
  ELSE pc' = "exit" /\ UNCHANGED stop

(* Mutant of ResponseFails: a disposition whose answer failed is forgotten. *)
ResponseForgotten ==
  /\ pc = "respond" /\ awaiting.request # NoRequest
  /\ Fault
  /\ awaiting' = NoPublication
  /\ PublicationFailed
  /\ UNCHANGED <<processVars, now, storeVars, publicationVars, issued, index, inflight,
                 signalVars, pending, consumed, taken, socketVars>>

ResponseFails ==
  /\ pc = "respond" /\ awaiting.request # NoRequest
  /\ Fault
  /\ awaiting' = [awaiting EXCEPT !.response = FrozenResponse]
  /\ LET r == awaiting.request IN
       \E record \in FailedWrite(records[r], Complete(records[r].esc, FrozenResponse)) :
         records' = [records EXCEPT ![r] = record]
  /\ PublicationFailed
  /\ UNCHANGED <<processVars, now, control, journal, runLock, runRecord, abortRecord,
                 publicationVars, issued, index, inflight, signalVars, pending,
                 consumed, taken, socketVars>>

ControlFails ==
  /\ pc = "store"
  /\ Fault
  /\ control' \in FailedWrite(control, mem)
  /\ PublicationFailed
  /\ UNCHANGED <<processVars, now, journal, runLock, records, runRecord, abortRecord,
                 publicationVars, issued, index, inflight, signalVars,
                 admissionVars, socketVars>>

-----------------------------------------------------------------------------
(* wait_while_paused polls: first for a termination, then, under the resume *)
(* mutex, for a disposition of its own escalation.                          *)

WaitTermination ==
  /\ pc = "waiting" /\ Termination # "none"
  /\ Terminate(Termination, "terminal")
  /\ UNCHANGED <<processVars, now, control, runLock, records, runRecord, abortRecord, faults,
                 mem, machineVars, signalVars, admissionVars, socketVars>>

WaitPoll ==
  /\ pc = "waiting" /\ Termination = "none"
  /\ pc' = "polling"
  /\ UNCHANGED <<processVars, now, storeVars, faults, machineVars, publicationVars, signalVars,
                 admissionVars, socketVars>>

(* Mutant of TakeDisposition: its answer is not awaited.                    *)
TakeUnanswered ==
  /\ pc = "polling" /\ admitting = NoRequest
  /\ IF pending # NoRequest /\ consumed[issued] = pending
     THEN /\ taken' = [taken EXCEPT ![issued] = pending]
          /\ pending' = NoRequest
          /\ pc' = "apply"
     ELSE pc' = "waiting" /\ UNCHANGED <<pending, taken>>
  /\ UNCHANGED <<processVars, now, storeVars, faults, machineVars, publicationVars, signalVars,
                 awaiting, consumed, socketVars>>

TakeDisposition ==
  /\ pc = "polling" /\ admitting = NoRequest
  /\ IF pending # NoRequest /\ consumed[issued] = pending
     THEN /\ awaiting' = [request |-> pending, response |-> NoResult]
          /\ taken' = [taken EXCEPT ![issued] = pending]
          /\ pending' = NoRequest
          /\ pc' = "apply"
     ELSE pc' = "waiting" /\ UNCHANGED <<pending, awaiting, taken>>
  /\ UNCHANGED <<processVars, now, storeVars, faults, machineVars, publicationVars, signalVars,
                 consumed, socketVars>>

(* HostedMachine::apply: an abort terminates the run; otherwise the pause is*)
(* cleared or a fresh escalation is issued in its place.                    *)
ApplyAbort ==
  /\ pc = "apply"
  /\ Terminate("caller_aborted", "terminal")
  /\ UNCHANGED <<processVars, now, control, runLock, records, runRecord, abortRecord, faults,
                 mem, machineVars, signalVars, admissionVars, socketVars>>

ClearPause == stop' = "none" /\ UNCHANGED issued

RetryObservation == ClearPause /\ pc' = "drive" /\ UNCHANGED <<index, journal>>

(* The caller attests the step or the verification, or it turns out to hold *)
(* by now: the index advances without a checkpoint of its own.              *)
AdvanceStep ==
  ClearPause /\ pc' = "drive" /\ index' = index + 1 /\ UNCHANGED journal

(* The disposition is not permitted, or the page has changed since.         *)
Reissue == Escalate /\ pc' = "check" /\ UNCHANGED <<index, journal>>

EndWith == stop' = "stopped" /\ pc' = "check" /\ UNCHANGED <<issued, index, journal>>

(* The candidate the caller chose is prepared; it exists only for a step.   *)
ExecuteCandidate ==
  /\ index < Steps
  /\ ClearPause /\ journal' = "prepared" /\ pc' = "dispatch"
  /\ UNCHANGED index

ApplyDisposition ==
  /\ pc = "apply"
  /\ RetryObservation \/ AdvanceStep \/ Reissue \/ EndWith \/ ExecuteCandidate
  /\ UNCHANGED <<processVars, now, control, runLock, records, runRecord, abortRecord, faults,
                 publicationVars, inflight, signalVars, admissionVars, socketVars>>

-----------------------------------------------------------------------------
(* After a terminal checkpoint: the journal is cleared, the flow returns,   *)
(* finalize_flow publishes the result once more and records it for the run  *)
(* request, and the process exits.                                          *)

ClearJournal ==
  /\ pc = "clear"
  /\ journal' \in {journal, "absent"}
  /\ next' = "final" /\ pc' = "publish"
  /\ UNCHANGED <<processVars, now, control, runLock, records, runRecord, abortRecord, faults,
                 mem, draft, machineVars, signalVars, admissionVars, socketVars>>

FinalizeRequest ==
  /\ pc = "record"
  /\ runRecord' = draft
  /\ pc' = "exit"
  /\ UNCHANGED <<processVars, now, control, journal, runLock, records, abortRecord, faults,
                 publicationVars, machineVars, signalVars, admissionVars, socketVars>>

FinalizeFails ==
  /\ pc = "record"
  /\ Fault
  /\ runRecord' \in FailedWrite(runRecord, draft)
  /\ pc' = "exit"
  /\ UNCHANGED <<processVars, now, control, journal, runLock, records, abortRecord,
                 publicationVars, machineVars, signalVars, admissionVars, socketVars>>

(* The process is gone, however it ended: its memory is lost, the run lock  *)
(* is released and its connections are reset.  What was dispatched and which*)
(* dispositions were accepted or taken stay as history.                     *)
LoseMemory ==
  /\ mem' = InitialControl /\ draft' = RunningResult /\ next' = "running"
  /\ stop' = "none" /\ issued' = 0 /\ index' = 0
  /\ abort' = FALSE /\ watchdogLost' = FALSE /\ cancelled' = FALSE
  /\ pending' = NoRequest /\ awaiting' = NoPublication

Die ==
  /\ LoseMemory
  /\ pc' = "dead"
  /\ runLock' = IF runLock = "host" THEN "free" ELSE runLock
  /\ inbox' = <<>>
  /\ resumeCall' = [r \in Requests |-> IF resumeCall[r] = "sent" THEN "idle" ELSE resumeCall[r]]
  /\ admitting' = NoRequest
  /\ UNCHANGED <<inflight, consumed, taken>>

HostExit ==
  /\ pc = "exit"
  /\ Die
  /\ UNCHANGED <<processVars, now, control, journal, records, runRecord, abortRecord, faults>>

-----------------------------------------------------------------------------
(* The socket thread: one connection at a time, in the order accepted.      *)

Reply(m, answer) ==
  /\ inbox' = Tail(inbox)
  /\ resumeCall' = IF m.live THEN [resumeCall EXCEPT ![m.request] = answer]
                   ELSE resumeCall

Serving(kind) == HostAlive /\ inbox # <<>> /\ Head(inbox).kind = kind

(* Mutant of CanAdmit: an escalation that the run is not paused on is       *)
(* answered.                                                                *)
CanAdmitAnyEscalation(m) ==
  consumed[m.esc] = NoRequest /\ pending = NoRequest /\ Paused(mem)

(* admit_disposition: a repeat of the consumed request is accepted again; a *)
(* disposition of any other escalation than the paused one is stale.        *)
CanAdmit(m) ==
  /\ consumed[m.esc] = NoRequest
  /\ pending = NoRequest
  /\ PausedAt(mem.result, m.esc)

(* Mutant of AnswerResume: a repeat of the consumed request is stale too.   *)
AnswerRepeatAsStale ==
  /\ Serving("resume") /\ ~PublicationHeld
  /\ LET m == Head(inbox) IN ~CanAdmit(m) /\ Reply(m, "stale")
  /\ UNCHANGED <<processVars, now, storeVars, faults, hostVars>>

AnswerResume ==
  /\ Serving("resume") /\ ~PublicationHeld
  /\ LET m == Head(inbox) IN
       /\ ~CanAdmit(m)
       /\ Reply(m, IF consumed[m.esc] = m.request THEN "idle" ELSE "stale")
  /\ UNCHANGED <<processVars, now, storeVars, faults, hostVars>>

(* Mutant of AdmitResume: the pause deadline is not suspended.              *)
AdmitWithoutSuspending ==
  /\ Serving("resume") /\ ~PublicationHeld
  /\ CanAdmit(Head(inbox))
  /\ admitting' = Head(inbox).request
  /\ UNCHANGED <<processVars, now, storeVars, faults, pc, publicationVars, machineVars,
                 signalVars, admissionVars, inbox, resumeCall>>

(* suspend_pause_deadline: the deadline is cleared in memory before the     *)
(* admission is persisted.                                                  *)
AdmitResume ==
  /\ Serving("resume") /\ ~PublicationHeld
  /\ CanAdmit(Head(inbox))
  /\ mem' = [mem EXCEPT !.pauseAt = NoDeadline]
  /\ admitting' = Head(inbox).request
  /\ UNCHANGED <<processVars, now, storeVars, faults, pc, draft, next, machineVars, signalVars,
                 admissionVars, inbox, resumeCall>>

AdmitPersist ==
  /\ HostAlive /\ admitting # NoRequest
  /\ control' = mem
  /\ consumed' = [consumed EXCEPT ![Head(inbox).esc] = admitting]
  /\ pending' = admitting
  /\ admitting' = NoRequest
  /\ Reply(Head(inbox), "idle")
  /\ UNCHANGED <<processVars, now, journal, runLock, records, runRecord, abortRecord, faults, pc,
                 publicationVars, machineVars, signalVars, awaiting, taken>>

(* resume_state_unavailable: the deadline stays cleared in memory.          *)
AdmitFails ==
  /\ HostAlive /\ admitting # NoRequest
  /\ Fault
  /\ control' \in FailedWrite(control, mem)
  /\ admitting' = NoRequest
  /\ Reply(Head(inbox), "idle")
  /\ UNCHANGED <<processVars, now, journal, runLock, records, runRecord, abortRecord, pc,
                 publicationVars, machineVars, signalVars, admissionVars>>

ServeAbort ==
  /\ Serving("abort") /\ admitting = NoRequest
  /\ abort' = TRUE /\ cancelled' = TRUE
  /\ inbox' = Tail(inbox)
  /\ UNCHANGED <<processVars, now, storeVars, faults, pc, machineVars, publicationVars,
                 watchdogLost, admissionVars, admitting, resumeCall>>

(* A deadline notice cancels input only if the host's own clock and         *)
(* deadlines confirm it.                                                    *)
ServeDeadline ==
  /\ Serving("deadline") /\ admitting = NoRequest
  /\ cancelled' = (cancelled \/ DeadlineReason(mem) # "none")
  /\ inbox' = Tail(inbox)
  /\ UNCHANGED <<processVars, now, storeVars, faults, pc, machineVars, publicationVars, abort,
                 watchdogLost, admissionVars, admitting, resumeCall>>

-----------------------------------------------------------------------------
DriveNext ==
  \/ Launch \/ DriveStep \/ PrepareFails \/ DriveVerification
  \/ Dispatch \/ RecordFact \/ FactFails
PublishNext ==
  \/ CheckTermination \/ CheckPause \/ SetPauseDeadline \/ CheckTerminal
  \/ BundleFails
  \/ Publish \/ PublishResponse \/ PublishControl \/ ResponseFails \/ ControlFails
PauseNext ==
  \/ WaitTermination \/ WaitPoll \/ TakeDisposition \/ ApplyAbort \/ ApplyDisposition
FinishNext == ClearJournal \/ FinalizeRequest \/ FinalizeFails \/ HostExit
FlowNext == DriveNext \/ PublishNext \/ PauseNext \/ FinishNext

SocketNext ==
  \/ AnswerResume \/ AdmitResume \/ AdmitPersist \/ AdmitFails
  \/ ServeAbort \/ ServeDeadline
=============================================================================
