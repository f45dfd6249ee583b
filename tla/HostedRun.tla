----------------------------- MODULE HostedRun ------------------------------
(***************************************************************************)
(* One hosted run: its host, its watchdog and the clients that act on it,  *)
(* composed over the shared store and the control socket.                  *)
(***************************************************************************)
EXTENDS ControlClients

vars == <<processVars, now, storeVars, faults, pc, machineVars, publicationVars,
          signalVars, admissionVars, socketVars>>

Init == StoreInit /\ HostInit /\ WatchdogInit /\ ClientInit

Tick ==
  /\ now < Lifetime
  /\ now' = now + 1
  /\ UNCHANGED <<processVars, storeVars, faults, pc, machineVars, publicationVars,
                 signalVars, admissionVars, socketVars>>

(* The run is over for everyone: its host and its watchdog are gone and the *)
(* result is terminal.                                                      *)
Quiescent ==
  /\ ~HostAlive /\ watchdog = "gone" /\ Terminal(control.result)
  /\ UNCHANGED vars

Next ==
  \/ Tick \/ Quiescent
  \/ FlowNext \/ SocketNext
  \/ WatchdogNext \/ MonitorWatchdog \/ CrashNext
  \/ ClientNext

Spec == Init /\ [][Next]_vars

-----------------------------------------------------------------------------
(* Fairness.  A watchdog that runs makes steps and the clock advances: its  *)
(* loops sleep for bounded times and nothing it waits for is unbounded.     *)
FairSpec == Spec /\ WF_vars(WatchdogNext)
FairClock == WF_vars(Tick)

(* The flow and socket threads make steps when browser calls, model calls   *)
(* and writes return, which their timeouts bound; and some client asks for  *)
(* the status of a run that lost both its processes.                        *)
FairHost ==
  /\ WF_vars(FlowNext)
  /\ WF_vars(SocketNext)
  /\ WF_vars(MonitorWatchdog)
FairStatus == WF_vars(StatusNext)

-----------------------------------------------------------------------------
(* Every variable has its type, deadlines and counters stay in range.       *)
TypeOK == StoreTypeOK /\ HostTypeOK /\ WatchdogTypeOK /\ ClientTypeOK

(* The loss of a run is published, or about to be, only when the host is    *)
(* dead: a live host is never contradicted by the watchdog, which reads     *)
(* liveness long before it writes, nor by a status client.                  *)
LossOnlyAfterDeath ==
  (control.result.cleanup # "host" \/ runLock \in {"watchdog", "client"}) => ~HostAlive

(* A caller whose resume is recorded as stale was never acted for, and one  *)
(* whose resume is recorded with a result was: retries, queued duplicates   *)
(* and replies nobody read never make the record disagree with admission.   *)
AnswersAreFaithful ==
  \A r \in Requests : Completed(r) => (records[r].response = StaleError <=> ~Accepted(r))

(* The disposition the flow applies to an escalation is the one that was    *)
(* accepted for it, and the flow never goes back to waiting, nor returns    *)
(* for good, while a disposition it took has no recorded answer.            *)
TakenIsAnswered ==
  \A e \in Escalations : taken[e] # NoRequest =>
    /\ taken[e] = consumed[e]
    /\ pc \in {"waiting", "polling", "clear", "record"} => Completed(taken[e])

(* What the watchdog reads of a paused run: a deadline to enforce exactly as*)
(* long as no disposition of its escalation has been accepted.              *)
PauseIsBounded ==
  \A e \in Escalations : PausedAt(control.result, e) =>
    (control.pauseAt = NoDeadline <=> consumed[e] # NoRequest)

(* A reconciled run whose host died between dispatching an input and        *)
(* journaling its fact says so.                                             *)
CrashWindowIsHonest ==
  (control.result.cleanup # "host" /\ inflight) => control.result.action = "uncertain"

(* With failed writes too: the only reconciled run that does not say so is  *)
(* one whose unsettled entry was left by a failed write and then cleared    *)
(* from the journal by the stop that followed.                              *)
OnlyClearingForgets ==
  (control.result.cleanup # "host" /\ inflight) =>
    \/ control.result.action = "uncertain"
    \/ journal = "absent" /\ faults > 0

(* With failed writes too: the watchdog never reads a deadline of a pause   *)
(* whose disposition was accepted, whether the flow has published since, is *)
(* setting a deadline for the next escalation, or gave a publication up.    *)
AnsweredPauseIsUnbounded ==
  \A e \in Escalations :
    PausedAt(control.result, e) /\ consumed[e] # NoRequest => control.pauseAt = NoDeadline

(* The result recorded for the run request and the one recorded for an abort*)
(* are the durable terminal result, whichever process published it.         *)
RecordsAgree ==
  /\ runRecord # NoResult => Terminal(control.result) /\ runRecord = control.result
  /\ abortRecord # NoResult => Terminal(control.result) /\ abortRecord = control.result

(* A terminal result is final: no late checkpoint, admission or             *)
(* reconciliation changes it.                                               *)
TerminalIsFinal ==
  [][Terminal(control.result) => control'.result = control.result]_vars

(* A reader that saw a sequence number sees every later change of the       *)
(* result: whoever writes it, it comes with a greater sequence number.      *)
SequenceShowsChange ==
  [][control'.result # control.result => control'.seq > control.seq]_vars

(* The escalation a disposition consumed, and an answer once recorded, stay *)
(* what they are.                                                           *)
ResumeIsFinal ==
  [][/\ \A e \in Escalations : consumed[e] # NoRequest => consumed'[e] = consumed[e]
     /\ \A r \in Requests : Completed(r) => records'[r] = records[r]]_vars

-----------------------------------------------------------------------------
(* Why they hold: an invariant that every step preserves.                   *)

(* Who holds the run lock is who may write the control file.                *)
LockIsOwned ==
  /\ HostAlive <=> runLock = "host"
  /\ watchdog = "locked" <=> runLock = "watchdog"
  /\ status = "locked" <=> runLock = "client"

(* A socket thread that persists an admission holds the publication mutex:  *)
(* the run it admits the disposition of stays paused in memory, and the     *)
(* admission is that of the connection it serves.                           *)
AdmissionIsServed ==
  admitting # NoRequest =>
    /\ pc \notin {"respond", "store", "dead"}
    /\ Paused(mem) /\ inbox # <<>>

(* A step is complete at most once: while it is being published, or while   *)
(* its escalation is being answered, the index still names it.              *)
Publishing == pc \in {"publish", "respond", "store"}
IndexIsCurrent ==
  /\ Publishing /\ next = "running" => index < Steps
  /\ stop = "uncertain" => index <= Steps
  /\ pc \in {"pause", "waiting", "polling", "apply"} => stop = "uncertain"
  /\ Publishing /\ next = "paused" => stop = "uncertain"
  /\ pc \in {"dispatch", "fact"} => index < Steps
  /\ pc \in {"launch", "drive", "dispatch", "fact"} => stop = "none"
  /\ Publishing /\ next = "running" => stop = "none"

(* The host's memory is at least as new as the file it writes, and newer    *)
(* while a publication is on its way there.                                 *)
MemoryLeads ==
  HostAlive =>
    /\ control.seq <= mem.seq
    /\ control.seq = mem.seq => control.result = mem.result
    /\ pc \in {"respond", "store"} => control.seq < mem.seq

(* What the host publishes is its own result, of the kind its next step     *)
(* expects.                                                                 *)
DraftIsPublished ==
  /\ draft.cleanup = "host" /\ mem.result.cleanup = "host"
  /\ control.result.cleanup # "host" => ~HostAlive
  /\ pc \in {"respond", "store", "clear", "record"} => mem.result = draft
  /\ Publishing => (Terminal(draft) <=> next \in {"terminal", "final"})
  /\ pc \in {"clear", "record"} => Terminal(draft) /\ control.result = draft

(* Once the file holds a terminal result, a live host can only repeat it.   *)
EndIsRepeated ==
  HostAlive /\ Terminal(control.result) =>
    /\ mem.result = control.result /\ draft = control.result
    /\ pc \in {"clear", "record", "exit"} \/ (Publishing /\ next = "final")

Coherent ==
  /\ LockIsOwned /\ AdmissionIsServed /\ IndexIsCurrent
  /\ MemoryLeads /\ DraftIsPublished /\ EndIsRepeated /\ RecordsAgree

-----------------------------------------------------------------------------
(* The watchdog alone ends every run: while it is not killed, a terminal    *)
(* result is published whatever the host does, hangs included.              *)
EventuallyTerminal ==
  FairClock /\ [](watchdogCrashes = 0) => <>Terminal(control.result)

(* Without the clock: once an abort was served, the watchdog is gone or the *)
(* host is dead, the run ends with a terminal result.                       *)
AbortOrLossEndsRun ==
  FairHost /\ FairStatus =>
    ((abort \/ watchdog = "gone" \/ ~HostAlive) ~> Terminal(control.result))

-----------------------------------------------------------------------------
(* What a caller reads of the run: the state in the control file, the       *)
(* dispositions the host acknowledged and the request records.              *)
PublishedState ==
  CASE control.result.state = "running" -> "running"
    [] control.result.state = "uncertain" -> "paused"
    [] OTHER -> "over"

AnswerOf(r) ==
  IF ~Completed(r) THEN "none"
  ELSE IF records[r].response = StaleError THEN "stale" ELSE "result"

Lifecycle == INSTANCE RunLifecycle WITH
  published <- PublishedState,
  escalation <- IF PublishedState = "paused" THEN control.result.esc ELSE 0,
  disposition <- consumed,
  answer <- [r \in Requests |-> AnswerOf(r)]

(* The composed processes keep the promise of RunLifecycle: pauses are left *)
(* only with an accepted disposition, an escalation is answered once, a     *)
(* request is answered once and truthfully, and the end is final.           *)
ImplementsLifecycle == Lifecycle!Spec

-----------------------------------------------------------------------------
(* What documentation and comments say, and the code does not do.           *)

(* README.md: a request id recovers the response of its request.  A host    *)
(* that finished in order has answered every disposition it accepted.       *)
AcceptedIsAnswered ==
  runRecord # NoResult => \A r \in Requests : Accepted(r) => Completed(r)

(* step_driver.rs: the hosted loop publishes the termination that cancelled *)
(* the run in place of the run_cancelled stop.                              *)
CancellationIsExplained == control.result.reason # "run_cancelled"
=============================================================================
