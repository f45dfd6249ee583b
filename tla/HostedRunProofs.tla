-------------------------- MODULE HostedRunProofs ---------------------------
(***************************************************************************)
(* Proofs about HostedRun, for every number of requests, escalations,      *)
(* steps, crashes and failed writes.  TypeOK and Coherent are inductive    *)
(* together: lemmas TypeStep and CoherentStep, with one step per action,   *)
(* and the theorems follow from them.                                      *)
(***************************************************************************)
EXTENDS HostedRun, SequenceTheorems, TLAPS

USE DEF TypeOK, StoreTypeOK, HostTypeOK, ClientTypeOK, Coherent, HostAlive, Publishing,
        vars, hostVars, storeVars, processVars, machineVars, publicationVars, signalVars,
        admissionVars, socketVars,
        StepDone, ActionPrepared, StepEscalates, StepStops,
        ClearPause, RetryObservation, AdvanceStep, Reissue, EndWith, ExecuteCandidate

-----------------------------------------------------------------------------
(* What the operators of the model build.                                   *)

(* A result the host publishes is a result.                                 *)
LEMMA HostResultType ==
  ASSUME NEW s \in States, NEW reason \in Reasons, NEW e \in 0 .. MaxEscalations
  PROVE  HostResult(s, reason, e) \in Results
  BY DEF HostResult, Results

(* The results that the host's loop builds, escalation by escalation.       *)
LEMMA LoopResultTypes ==
  /\ RunningResult \in Results
  /\ HostResult("passed", "none", 0) \in Results
  /\ \A e \in 0 .. MaxEscalations : HostResult("uncertain", "none", e) \in Results
  /\ \A reason \in {"stopped", "run_cancelled", "evidence_unavailable"} :
       HostResult("blocked", reason, 0) \in Results
  <1>1. 0 \in 0 .. MaxEscalations
    BY SizesAssumption
  <1>. QED BY <1>1, HostResultType DEF RunningResult, States, Reasons

(* "No deadline" is a value a pause deadline may have.                      *)
LEMMA NoDeadlineType == NoDeadline \in Deadlines
  BY SizesAssumption DEF NoDeadline, Deadlines

(* The control a host starts with, and forgets at its death, is a control.  *)
LEMMA InitialControlType == InitialControl \in Controls
  BY NoDeadlineType, LoopResultTypes DEF InitialControl, Controls

(* A pause deadline is never "no deadline", at whatever time it is set.     *)
LEMMA PauseDeadlineType ==
  ASSUME NEW t \in Times
  PROVE  PauseDeadline(t) \in Deadlines \ {NoDeadline}
  BY SizesAssumption DEF PauseDeadline, Times, Deadlines, NoDeadline

(* The reasons for which a host ends its run.                               *)
LEMMA TerminationType == Termination \in Reasons
  <1>1. DeadlineReason(mem) \in Reasons
    BY DEF DeadlineReason, Reasons
  <1>. QED BY <1>1 DEF Termination, Reasons

(* Terminating the run publishes a terminal result of the host's own.       *)
LEMMA TerminateDraft ==
  ASSUME MachineTypeOK, NEW reason \in Reasons, NEW then, Terminate(reason, then)
  PROVE  draft' \in Results /\ Terminal(draft') /\ draft'.cleanup = "host"
  <1>1. TerminationState(reason) \in States \ {"running", "uncertain"}
    BY DEF TerminationState, States
  <1>2. CurrentEscalation \in 0 .. MaxEscalations
    BY SizesAssumption DEF CurrentEscalation, MachineTypeOK
  <1>. QED BY <1>1, <1>2, HostResultType DEF Terminate, HostResult, Terminal

(* A reconciled control is a control.                                       *)
LEMMA LostControlType ==
  ASSUME control \in Controls, NEW s \in States, NEW reason \in Reasons,
         NEW process \in {"watchdog", "client"}
  PROVE  LostControl(control, s, reason, process) \in Controls
  <1>1. UnresolvedAction \in {"none", "uncertain"}
    BY DEF UnresolvedAction
  <1>. QED BY <1>1, NoDeadlineType DEF LostControl, Controls, Results

(* The control the watchdog writes for a lost host is a control.           *)
LEMMA WatchdogControlType ==
  ASSUME control \in Controls, WatchdogTypeOK
  PROVE  WatchdogControl \in Controls
  <1>1. loss.state \in States /\ loss.reason \in Reasons
    BY DEF WatchdogTypeOK, HostLost, Expired, States, Reasons
  <1>. QED BY <1>1, LostControlType DEF WatchdogControl

(* The control socket's queue.                                              *)
LEMMA ServedInbox ==
  ASSUME InboxTypeOK, inbox # <<>>
  PROVE  /\ Head(inbox) \in Messages
         /\ Tail(inbox) \in Seq(Messages) /\ Len(Tail(inbox)) <= InboxBound
  BY SizesAssumption, HeadTailProperties DEF InboxTypeOK

(* A connection that finds room keeps the queue within its bound.          *)
LEMMA ExtendedInbox ==
  ASSUME InboxTypeOK, InboxHasRoom, NEW m \in Messages
  PROVE  Append(inbox, m) \in Seq(Messages) /\ Len(Append(inbox, m)) <= InboxBound
  BY SizesAssumption, AppendProperties DEF InboxTypeOK, InboxHasRoom

(* A queued connection stays one when its client goes away.                *)
LEMMA ElementsOfInbox ==
  ASSUME InboxTypeOK, NEW i \in DOMAIN inbox
  PROVE  inbox[i] \in Messages /\ [inbox[i] EXCEPT !.live = FALSE] \in Messages
  <1>1. inbox[i] \in Messages
    BY ElementOfSeq DEF InboxTypeOK
  <1>. QED BY <1>1 DEF Messages

(* An abandoned request keeps its place in the queue.                      *)
LEMMA AbandonedInbox ==
  ASSUME InboxTypeOK, NEW r \in Requests, Abandon(r)
  PROVE  InboxTypeOK'
  <1>1. inbox' \in [1 .. Len(inbox) -> Messages]
    BY ElementsOfInbox DEF Abandon, InboxTypeOK
  <1>2. Len(inbox) \in Nat
    BY DEF InboxTypeOK
  <1>3. inbox' \in Seq(Messages) /\ Len(inbox') = Len(inbox)
    BY <1>1, <1>2
  <1>. QED BY <1>3 DEF InboxTypeOK

(* What clients and the watchdog send are connections.                     *)
LEMMA MessageTypes ==
  /\ Abort \in Messages /\ Deadline \in Messages
  /\ \A r \in Requests, e \in 0 .. MaxEscalations : Resume(r, e) \in Messages
  BY SizesAssumption DEF Abort, Deadline, Resume, Messages

(* The records a request goes through.                                      *)
LEMMA RecordTypes ==
  ASSUME NEW e \in 0 .. MaxEscalations,
         NEW response \in Results \cup {NoResult, StaleError}
  PROVE  Intent(e) \in Records /\ Complete(e, response) \in Records
  BY DEF Intent, Complete, Records

(* A failed write is counted within its bound.                             *)
LEMMA FaultType ==
  ASSUME faults \in 0 .. MaxFaults, Fault
  PROVE  faults' \in 0 .. MaxFaults
  BY BudgetsAssumption DEF Fault

(* The failed write of an answer leaves the old record or the new one.      *)
LEMMA ResponseRecords ==
  ASSUME FilesTypeOK, PublicationTypeOK, ResponseFails
  PROVE  /\ awaiting' \in [request : Requests \cup {NoRequest}, response : Results \cup {NoResult}]
         /\ records' \in [Requests -> Records]
  <1>1. awaiting.request \in Requests /\ FrozenResponse \in Results
    BY DEF ResponseFails, PublicationTypeOK, FrozenResponse
  <1>2. awaiting' \in [request : Requests \cup {NoRequest}, response : Results \cup {NoResult}]
    BY <1>1 DEF ResponseFails, PublicationTypeOK
  <1>3. records[awaiting.request] \in Records /\ records[awaiting.request].esc \in 0 .. MaxEscalations
    BY <1>1 DEF FilesTypeOK, Records
  <1>4. Complete(records[awaiting.request].esc, FrozenResponse) \in Records
    BY <1>1, <1>3, RecordTypes
  <1>5. PICK record \in Records : records' = [records EXCEPT ![awaiting.request] = record]
    BY <1>3, <1>4 DEF ResponseFails, FailedWrite
  <1>. QED BY <1>1, <1>2, <1>5 DEF FilesTypeOK

(* Replying to a connection takes it from the queue and tells its client.   *)
LEMMA ReplyTypes ==
  ASSUME InboxTypeOK, AdmissionTypeOK, inbox # <<>>, NEW m,
         NEW answer \in {"idle", "stale"}, Reply(m, answer)
  PROVE  /\ InboxTypeOK'
         /\ resumeCall' \in [Requests -> {"idle", "sent", "stale", "refused"}]
  BY ServedInbox DEF Reply, InboxTypeOK, AdmissionTypeOK

(* The death of the host process, however it comes about.                   *)
LEMMA DeathTypes ==
  ASSUME TypeOK, Die
  PROVE  HostTypeOK' /\ inbox' = <<>> /\ runLock' \in {"host", "watchdog", "client", "free"}
  <1>. USE DEF Die, LoseMemory
  <1>1. MachineTypeOK'
    BY SizesAssumption DEF MachineTypeOK, FlowPcs
  <1>2. SignalTypeOK'
    BY Zenon DEF SignalTypeOK
  <1>3. awaiting' \in [request : Requests \cup {NoRequest}, response : Results \cup {NoResult}]
    BY DEF NoPublication
  <1>4. PublicationTypeOK'
    BY <1>3, LoopResultTypes, InitialControlType DEF PublicationTypeOK
  <1>5. AdmissionTypeOK'
    BY DEF AdmissionTypeOK
  <1>6. inbox' = <<>> /\ runLock' \in {"host", "watchdog", "client", "free"}
    BY DEF FilesTypeOK
  <1>. QED
    BY <1>1, <1>2, <1>4, <1>5, <1>6

(* A host that dies leaves well-typed variables behind.                    *)
LEMMA DeathStep ==
  ASSUME TypeOK, Die, UNCHANGED <<now, faults, control, journal, records, runRecord, abortRecord>>
  PROVE  StoreTypeOK' /\ HostTypeOK'
  <1>0. inbox' = <<>> /\ <<>> \in Seq(Messages) /\ Len(<<>>) = 0
    BY DeathTypes
  <1>1. InboxTypeOK'
    BY <1>0, SizesAssumption DEF InboxTypeOK
  <1>2. FilesTypeOK'
    BY DeathTypes DEF FilesTypeOK
  <1>3. HostTypeOK'
    BY DeathTypes
  <1>4. now' \in Times /\ faults' \in 0 .. MaxFaults
    OBVIOUS
  <1>. QED BY <1>1, <1>2, <1>3, <1>4

-----------------------------------------------------------------------------
(* The inductive invariant: one step per action.                             *)

(* Every step keeps the types.                                              *)
LEMMA TypeStep ==
  ASSUME TypeOK, Coherent, [Next]_vars
  PROVE  TypeOK'
  <1>. USE SizesAssumption, BudgetsAssumption
       DEF FilesTypeOK, InboxTypeOK, MachineTypeOK, FlowPcs, SignalTypeOK, PublicationTypeOK,
           AdmissionTypeOK, WatchdogTypeOK, IndexIsCurrent, AdmissionIsServed
  <1>1. CASE DriveNext
    <2>1. CASE Launch
      <3>1. PublicationTypeOK'
        BY <2>1, LoopResultTypes DEF Launch, PublicationTypeOK
      <3>. QED BY <2>1, <3>1 DEF Launch
    <2>2. CASE DriveStep
      <3>1. PublicationTypeOK'
        BY <2>2, LoopResultTypes DEF DriveStep, PublicationTypeOK
      <3>2. SignalTypeOK'
        BY <2>2 DEF DriveStep, SignalTypeOK
      <3>. QED BY <2>2, <3>1, <3>2 DEF DriveStep, Escalate
    <2>3. CASE PrepareFails
      BY <2>3 DEF PrepareFails, Fault, FailedWrite
    <2>4. CASE DriveVerification
      BY <2>4 DEF DriveVerification, Escalate
    <2>5. CASE Dispatch
      <3>1. SignalTypeOK'
        BY <2>5, Zenon DEF Dispatch, SignalTypeOK
      <3>. QED BY <2>5, <3>1 DEF Dispatch
    <2>6. CASE RecordFact
      <3>1. SignalTypeOK'
        BY <2>6, Zenon DEF RecordFact, SignalTypeOK
      <3>. QED BY <2>6, <3>1 DEF RecordFact, Escalate
    <2>7. CASE FactFails
      BY <2>7 DEF FactFails, Fault, FailedWrite
    <2>. QED BY <1>1, <2>1, <2>2, <2>3, <2>4, <2>5, <2>6, <2>7 DEF DriveNext
  <1>2. CASE PublishNext
    <2>1. CASE CheckTermination
      <3>1. draft' \in Results
        BY <2>1, TerminationType, TerminateDraft DEF CheckTermination
      <3>. QED BY <2>1, <3>1 DEF CheckTermination, Terminate
    <2>2. CASE CheckPause
      BY <2>2 DEF CheckPause
    <2>3. CASE SetPauseDeadline
      <3>1. draft' \in Results
        BY <2>3, LoopResultTypes DEF SetPauseDeadline, MachineTypeOK
      <3>2. mem' \in Controls
        BY <2>3, PauseDeadlineType DEF SetPauseDeadline, PublicationTypeOK, Controls
      <3>. QED BY <2>3, <3>1, <3>2 DEF SetPauseDeadline
    <2>4. CASE CheckTerminal
      <3>1. draft' \in Results
        BY <2>4, LoopResultTypes DEF CheckTerminal, MachineTypeOK
      <3>. QED BY <2>4, <3>1 DEF CheckTerminal
    <2>5. CASE BundleFails
      BY <2>5 DEF BundleFails, Fault, PublishesBundle
    <2>6. CASE Publish
      <3>1. UpdatePauseDeadline(mem, draft) \in Deadlines
        <4>1. NoDeadline \in Deadlines
          BY SizesAssumption DEF NoDeadline, Deadlines
        <4>. QED BY <4>1, PauseDeadlineType DEF UpdatePauseDeadline, PublicationTypeOK, Controls
      <3>2. mem' \in Controls
        BY <2>6, <3>1 DEF Publish, PublicationTypeOK, Controls
      <3>. QED BY <2>6, <3>2 DEF Publish
    <2>7. CASE PublishResponse
      <3>1. CASE awaiting.request = NoRequest
        BY <2>7, <3>1 DEF PublishResponse
      <3>2. CASE awaiting.request # NoRequest
        <4>1. awaiting.request \in Requests /\ FrozenResponse \in Results \cup {NoResult, StaleError}
          BY <3>2 DEF PublicationTypeOK, FrozenResponse
        <4>2. records[awaiting.request].esc \in 0 .. MaxEscalations
          BY <4>1 DEF FilesTypeOK, Records
        <4>3. FilesTypeOK'
          BY <2>7, <3>2, <4>1, <4>2, RecordTypes DEF PublishResponse, FilesTypeOK
        <4>4. awaiting' \in [request : Requests \cup {NoRequest}, response : Results \cup {NoResult}]
          BY <2>7, <3>2 DEF PublishResponse, NoPublication
        <4>. QED BY <2>7, <4>3, <4>4 DEF PublishResponse
      <3>. QED BY <3>1, <3>2
    <2>8. CASE PublishControl
      BY <2>8 DEF PublishControl, AfterPublication
    <2>9. CASE ResponseFails
      <3>1. FilesTypeOK'
        BY <2>9, ResponseRecords DEF ResponseFails
      <3>2. PublicationTypeOK'
        BY <2>9, ResponseRecords DEF ResponseFails
      <3>3. MachineTypeOK'
        BY <2>9 DEF ResponseFails, PublicationFailed
      <3>4. SignalTypeOK' /\ AdmissionTypeOK' /\ InboxTypeOK'
        BY <2>9 DEF ResponseFails
      <3>5. now' \in Times /\ WatchdogTypeOK' /\ ClientTypeOK'
        BY <2>9 DEF ResponseFails
      <3>6. faults' \in 0 .. MaxFaults
        BY <2>9, FaultType DEF ResponseFails
      <3>. QED BY <3>1, <3>2, <3>3, <3>4, <3>5, <3>6
    <2>10. CASE ControlFails
      BY <2>10 DEF ControlFails, PublicationFailed, FailedWrite, Fault
    <2>. QED BY <1>2, <2>1, <2>2, <2>3, <2>4, <2>5, <2>6, <2>7, <2>8, <2>9, <2>10 DEF PublishNext
  <1>3. CASE PauseNext
    <2>1. CASE WaitTermination
      <3>1. draft' \in Results
        BY <2>1, TerminationType, TerminateDraft DEF WaitTermination
      <3>. QED BY <2>1, <3>1 DEF WaitTermination, Terminate
    <2>2. CASE WaitPoll
      BY <2>2 DEF WaitPoll
    <2>3. CASE TakeDisposition
      BY <2>3 DEF TakeDisposition
    <2>4. CASE ApplyAbort
      <3>1. draft' \in Results
        BY <2>4, TerminateDraft DEF ApplyAbort, Reasons
      <3>. QED BY <2>4, <3>1 DEF ApplyAbort, Terminate
    <2>5. CASE ApplyDisposition
      BY <2>5 DEF ApplyDisposition, Escalate
    <2>. QED BY <1>3, <2>1, <2>2, <2>3, <2>4, <2>5 DEF PauseNext
  <1>4. CASE FinishNext
    <2>1. CASE ClearJournal
      BY <2>1 DEF ClearJournal
    <2>2. CASE FinalizeRequest
      BY <2>2 DEF FinalizeRequest
    <2>3. CASE FinalizeFails
      BY <2>3 DEF FinalizeFails, Fault, FailedWrite
    <2>4. CASE HostExit
      <3>1. StoreTypeOK' /\ HostTypeOK'
        BY <2>4, DeathStep DEF HostExit
      <3>. QED BY <2>4, <3>1, BudgetsAssumption DEF HostExit, WatchdogTypeOK
    <2>. QED BY <1>4, <2>1, <2>2, <2>3, <2>4 DEF FinishNext
  <1>5. CASE SocketNext
    <2>1. CASE AnswerResume
      <3>1. InboxTypeOK' /\ resumeCall' \in [Requests -> {"idle", "sent", "stale", "refused"}]
        BY <2>1, ReplyTypes DEF AnswerResume, Serving
      <3>. QED BY <2>1, <3>1 DEF AnswerResume
    <2>2. CASE AdmitResume
      <3>1. mem' \in Controls
        BY <2>2, NoDeadlineType DEF AdmitResume, Controls
      <3>2. admitting' \in Requests \cup {NoRequest}
        BY <2>2, ServedInbox DEF AdmitResume, Serving, Messages
      <3>3. PublicationTypeOK' /\ AdmissionTypeOK'
        BY <2>2, <3>1, <3>2 DEF AdmitResume
      <3>4. StoreTypeOK' /\ WatchdogTypeOK' /\ ClientTypeOK'
        BY <2>2 DEF AdmitResume
      <3>5. MachineTypeOK' /\ SignalTypeOK'
        BY <2>2 DEF AdmitResume
      <3>. QED BY <3>3, <3>4, <3>5
    <2>3. CASE AdmitPersist
      <3>1. InboxTypeOK' /\ resumeCall' \in [Requests -> {"idle", "sent", "stale", "refused"}]
        BY <2>3, ReplyTypes DEF AdmitPersist, AdmissionIsServed
      <3>2. AdmissionTypeOK'
        BY <2>3, <3>1 DEF AdmitPersist
      <3>3. FilesTypeOK'
        BY <2>3 DEF AdmitPersist, FilesTypeOK, PublicationTypeOK
      <3>. QED BY <2>3, <3>1, <3>2, <3>3 DEF AdmitPersist
    <2>4. CASE AdmitFails
      <3>1. InboxTypeOK' /\ resumeCall' \in [Requests -> {"idle", "sent", "stale", "refused"}]
        BY <2>4, ReplyTypes DEF AdmitFails, AdmissionIsServed
      <3>2. FilesTypeOK'
        BY <2>4 DEF AdmitFails, FailedWrite, FilesTypeOK, PublicationTypeOK
      <3>. QED BY <2>4, <3>1, <3>2, BudgetsAssumption DEF AdmitFails, Fault
    <2>5. CASE ServeAbort
      BY <2>5 DEF ServeAbort, Serving
    <2>6. CASE ServeDeadline
      BY <2>6 DEF ServeDeadline, Serving
    <2>. QED BY <1>5, <2>1, <2>2, <2>3, <2>4, <2>5, <2>6 DEF SocketNext
  <1>6. CASE WatchdogNext
    <2>1. CASE SeesDeadHost
      BY <2>1 DEF SeesDeadHost
    <2>2. CASE SeesAlive
      BY <2>2 DEF SeesAlive
    <2>3. CASE SeesTerminal
      BY <2>3 DEF SeesTerminal
    <2>4. CASE SeesDeadline
      <3>1. loss' \in {HostLost, Expired("resume_deadline_elapsed"), Expired("lifetime_elapsed")}
        BY <2>4 DEF SeesDeadline, DeadlineReason
      <3>. QED BY <2>4, <3>1 DEF SeesDeadline, WatchdogTypeOK
    <2>5. CASE SeesNothing
      BY <2>5 DEF SeesNothing
    <2>6. CASE SendDeadline
      <3>1. InboxTypeOK'
        BY <2>6, ExtendedInbox, MessageTypes DEF SendDeadline, InboxTypeOK
      <3>. QED BY <2>6, <3>1 DEF SendDeadline, WatchdogTypeOK
    <2>7. CASE HostStops
      BY <2>7 DEF HostStops, Stopped
    <2>8. CASE KillHost
      <3>1. StoreTypeOK' /\ HostTypeOK'
        BY <2>8, DeathStep DEF KillHost
      <3>. QED BY <2>8, <3>1, BudgetsAssumption DEF KillHost, Stopped, WatchdogTypeOK
    <2>9. CASE LockDeadRun
      BY <2>9 DEF LockDeadRun, TakeRunLock
    <2>10. CASE ReconcileDeadHost
      <3>1. FilesTypeOK'
        BY <2>10, WatchdogControlType DEF ReconcileDeadHost, FilesTypeOK
      <3>. QED BY <2>10, <3>1 DEF ReconcileDeadHost, WatchdogTypeOK
    <2>11. CASE ReconcileFails
      <3>1. FilesTypeOK'
        BY <2>11, WatchdogControlType DEF ReconcileFails, FailedWrite, FilesTypeOK
      <3>. QED BY <2>11, <3>1, BudgetsAssumption DEF ReconcileFails, Fault, WatchdogTypeOK
    <2>. QED BY <1>6, <2>1, <2>2, <2>3, <2>4, <2>5, <2>6, <2>7, <2>8, <2>9, <2>10, <2>11
      DEF WatchdogNext
  <1>7. CASE CrashNext
    <2>1. CASE HostCrash
      <3>1. StoreTypeOK' /\ HostTypeOK'
        BY <2>1, DeathStep DEF HostCrash
      <3>. QED BY <2>1, <3>1, BudgetsAssumption DEF HostCrash, WatchdogTypeOK
    <2>2. CASE WatchdogCrash
      BY <2>2 DEF WatchdogCrash
    <2>. QED BY <1>7, <2>1, <2>2 DEF CrashNext
  <1>8. CASE ClientNext
    <2>1. ASSUME NEW r \in Requests, ResumeNext(r) PROVE TypeOK'
      <3>1. ASSUME NEW e \in Escalations, RecordIntent(r, e) PROVE TypeOK'
        <4>1. Intent(e) \in Records /\ Complete(e, StaleError) \in Records
          BY RecordTypes DEF Escalations
        <4>2. FilesTypeOK'
          BY <3>1, <4>1 DEF RecordIntent, FilesTypeOK
        <4>. QED BY <3>1, <4>2 DEF RecordIntent
      <3>2. CASE SendResume(r)
        <4>1. records[r].esc \in 0 .. MaxEscalations
          BY DEF FilesTypeOK, Records
        <4>2. InboxTypeOK'
          BY <3>2, <4>1, ExtendedInbox, MessageTypes DEF SendResume, InboxTypeOK
        <4>. QED BY <3>2, <4>2 DEF SendResume
      <3>3. CASE Abandon(r)
        <4>1. InboxTypeOK'
          BY <3>3, AbandonedInbox
        <4>2. FilesTypeOK' /\ now' \in Times /\ faults' \in 0 .. MaxFaults
          BY <3>3 DEF Abandon
        <4>3. MachineTypeOK' /\ SignalTypeOK' /\ PublicationTypeOK'
          BY <3>3 DEF Abandon
        <4>4. AdmissionTypeOK' /\ WatchdogTypeOK' /\ ClientTypeOK'
          BY <3>3 DEF Abandon
        <4>. QED BY <4>1, <4>2, <4>3, <4>4
      <3>4. CASE RecoverResume(r)
        BY <3>4 DEF RecoverResume
      <3>5. CASE PersistResumeError(r)
        <4>1. records[r].esc \in 0 .. MaxEscalations
          BY DEF FilesTypeOK, Records
        <4>2. Complete(records[r].esc, StaleError) \in Records
          BY <4>1, RecordTypes
        <4>3. FilesTypeOK'
          BY <3>5, <4>2 DEF PersistResumeError, FilesTypeOK
        <4>. QED BY <3>5, <4>3 DEF PersistResumeError
      <3>. QED BY <2>1, <3>1, <3>2, <3>3, <3>4, <3>5 DEF ResumeNext
    <2>2. CASE SendAbort
      <3>1. InboxTypeOK'
        BY <2>2, ExtendedInbox, MessageTypes DEF SendAbort, InboxTypeOK
      <3>. QED BY <2>2, <3>1 DEF SendAbort
    <2>3. CASE FinalizeAbort
      <3>1. control.result \in Results
        BY DEF FilesTypeOK, Controls
      <3>2. FilesTypeOK'
        BY <2>3, <3>1 DEF FinalizeAbort, FilesTypeOK
      <3>. QED BY <2>3, <3>2 DEF FinalizeAbort
    <2>4. CASE LockLostRun
      BY <2>4 DEF LockLostRun, TakeRunLock
    <2>5. CASE PublishHostLoss
      <3>1. LostControl(control, "blocked", "host_lost", "client") \in Controls
        BY LostControlType DEF FilesTypeOK, States, Reasons
      <3>2. FilesTypeOK'
        BY <2>5, <3>1 DEF PublishHostLoss, FilesTypeOK
      <3>. QED BY <2>5, <3>2 DEF PublishHostLoss
    <2>6. CASE StatusCrash
      BY <2>6 DEF StatusCrash
    <2>. QED BY <1>8, <2>1, <2>2, <2>3, <2>4, <2>5, <2>6 DEF ClientNext, StatusNext
  <1>9. CASE MonitorWatchdog
    BY <1>9 DEF MonitorWatchdog
  <1>10. CASE Tick
    BY <1>10 DEF Tick, Times
  <1>11. CASE Quiescent
    BY <1>11 DEF Quiescent
  <1>12. CASE UNCHANGED vars
    BY <1>12
  <1>. QED BY <1>1, <1>2, <1>3, <1>4, <1>5, <1>6, <1>7, <1>8, <1>9, <1>10, <1>11, <1>12
    DEF Next, FlowNext

(* Every step keeps the host, the store and its writers coherent.           *)
LEMMA CoherentStep ==
  ASSUME TypeOK, Coherent, [Next]_vars
  PROVE  Coherent'
  <1>. USE SizesAssumption
       DEF FilesTypeOK, MachineTypeOK, PublicationTypeOK, Controls, Terminal, LockIsOwned,
           AdmissionIsServed, IndexIsCurrent, MemoryLeads, DraftIsPublished, EndIsRepeated,
           RecordsAgree, Paused
  <1>1. CASE DriveNext
    <2>1. CASE Launch
      BY <2>1 DEF Launch, HostResult
    <2>2. CASE DriveStep
      BY <2>2 DEF DriveStep, Escalate, HostResult, RunningResult
    <2>3. CASE PrepareFails
      BY <2>3 DEF PrepareFails, Fault, FailedWrite
    <2>4. CASE DriveVerification
      BY <2>4 DEF DriveVerification, Escalate
    <2>5. CASE Dispatch
      BY <2>5 DEF Dispatch
    <2>6. CASE RecordFact
      BY <2>6 DEF RecordFact, Escalate
    <2>7. CASE FactFails
      BY <2>7 DEF FactFails, Fault, FailedWrite
    <2>. QED BY <1>1, <2>1, <2>2, <2>3, <2>4, <2>5, <2>6, <2>7 DEF DriveNext
  <1>2. CASE PublishNext
    <2>1. CASE CheckTermination
      <3>1. Terminal(draft') /\ draft'.cleanup = "host"
        BY <2>1, TerminationType, TerminateDraft DEF CheckTermination
      <3>. QED BY <2>1, <3>1 DEF CheckTermination, Terminate
    <2>2. CASE CheckPause
      BY <2>2 DEF CheckPause
    <2>3. CASE SetPauseDeadline
      BY <2>3 DEF SetPauseDeadline, HostResult
    <2>4. CASE CheckTerminal
      BY <2>4 DEF CheckTerminal, HostResult
    <2>5. CASE BundleFails
      BY <2>5 DEF BundleFails, Fault, PublishesBundle
    <2>6. CASE Publish
      BY <2>6 DEF Publish, PublicationHeld
    <2>7. CASE PublishResponse
      BY <2>7 DEF PublishResponse
    <2>8. CASE PublishControl
      BY <2>8 DEF PublishControl, AfterPublication
    <2>9. CASE ResponseFails
      BY <2>9 DEF ResponseFails, PublicationFailed, FailedWrite, Fault
    <2>10. CASE ControlFails
      BY <2>10 DEF ControlFails, PublicationFailed, FailedWrite, Fault
    <2>. QED BY <1>2, <2>1, <2>2, <2>3, <2>4, <2>5, <2>6, <2>7, <2>8, <2>9, <2>10 DEF PublishNext
  <1>3. CASE PauseNext
    <2>1. CASE WaitTermination
      <3>1. Terminal(draft') /\ draft'.cleanup = "host"
        BY <2>1, TerminationType, TerminateDraft DEF WaitTermination
      <3>. QED BY <2>1, <3>1 DEF WaitTermination, Terminate
    <2>2. CASE WaitPoll
      BY <2>2 DEF WaitPoll
    <2>3. CASE TakeDisposition
      BY <2>3 DEF TakeDisposition
    <2>4. CASE ApplyAbort
      <3>1. Terminal(draft') /\ draft'.cleanup = "host"
        BY <2>4, TerminateDraft DEF ApplyAbort, Reasons
      <3>. QED BY <2>4, <3>1 DEF ApplyAbort, Terminate
    <2>5. CASE ApplyDisposition
      BY <2>5 DEF ApplyDisposition, Escalate
    <2>. QED BY <1>3, <2>1, <2>2, <2>3, <2>4, <2>5 DEF PauseNext
  <1>4. CASE FinishNext
    <2>1. CASE ClearJournal
      BY <2>1 DEF ClearJournal
    <2>2. CASE FinalizeRequest
      BY <2>2 DEF FinalizeRequest
    <2>3. CASE FinalizeFails
      BY <2>3 DEF FinalizeFails, Fault, FailedWrite
    <2>4. CASE HostExit
      BY <2>4 DEF HostExit, Die, LoseMemory, InitialControl, RunningResult, HostResult
    <2>. QED BY <1>4, <2>1, <2>2, <2>3, <2>4 DEF FinishNext
  <1>5. CASE SocketNext
    <2>1. CASE AnswerResume
      BY <2>1 DEF AnswerResume, Serving, PublicationHeld, Reply
    <2>2. CASE AdmitResume
      BY <2>2 DEF AdmitResume, Serving, PublicationHeld, CanAdmit, PausedAt
    <2>3. CASE AdmitPersist
      BY <2>3 DEF AdmitPersist, Reply
    <2>4. CASE AdmitFails
      BY <2>4 DEF AdmitFails, Reply, Fault, FailedWrite
    <2>5. CASE ServeAbort
      BY <2>5 DEF ServeAbort, Serving
    <2>6. CASE ServeDeadline
      BY <2>6 DEF ServeDeadline, Serving
    <2>. QED BY <1>5, <2>1, <2>2, <2>3, <2>4, <2>5, <2>6 DEF SocketNext
  <1>6. CASE WatchdogNext
    <2>1. CASE SeesDeadHost
      BY <2>1 DEF SeesDeadHost
    <2>2. CASE SeesAlive
      BY <2>2 DEF SeesAlive
    <2>3. CASE SeesTerminal
      BY <2>3 DEF SeesTerminal
    <2>4. CASE SeesDeadline
      BY <2>4 DEF SeesDeadline
    <2>5. CASE SeesNothing
      BY <2>5 DEF SeesNothing
    <2>6. CASE SendDeadline
      BY <2>6 DEF SendDeadline, InboxHasRoom
    <2>7. CASE HostStops
      BY <2>7 DEF HostStops, Stopped
    <2>8. CASE KillHost
      BY <2>8
        DEF KillHost, Stopped, Die, LoseMemory, InitialControl, RunningResult,
            HostResult
    <2>9. CASE LockDeadRun
      BY <2>9 DEF LockDeadRun, TakeRunLock
    <2>10. CASE ReconcileDeadHost
      BY <2>10 DEF ReconcileDeadHost, WatchdogControl, LostControl
    <2>11. CASE ReconcileFails
      BY <2>11 DEF ReconcileFails, WatchdogControl, LostControl, Fault, FailedWrite
    <2>. QED BY <1>6, <2>1, <2>2, <2>3, <2>4, <2>5, <2>6, <2>7, <2>8, <2>9, <2>10, <2>11
      DEF WatchdogNext
  <1>7. CASE CrashNext
    <2>1. CASE HostCrash
      BY <2>1 DEF HostCrash, Die, LoseMemory, InitialControl, RunningResult, HostResult
    <2>2. CASE WatchdogCrash
      BY <2>2 DEF WatchdogCrash
    <2>. QED BY <1>7, <2>1, <2>2 DEF CrashNext
  <1>8. CASE ClientNext
    <2>1. ASSUME NEW r \in Requests, ResumeNext(r) PROVE Coherent'
      <3>1. ASSUME NEW e \in Escalations, RecordIntent(r, e) PROVE Coherent'
        BY <3>1 DEF RecordIntent
      <3>2. CASE SendResume(r)
        BY <3>2 DEF SendResume, InboxHasRoom
      <3>3. CASE Abandon(r)
        BY <3>3 DEF Abandon
      <3>4. CASE RecoverResume(r)
        BY <3>4 DEF RecoverResume
      <3>5. CASE PersistResumeError(r)
        BY <3>5 DEF PersistResumeError
      <3>. QED BY <2>1, <3>1, <3>2, <3>3, <3>4, <3>5 DEF ResumeNext
    <2>2. CASE SendAbort
      BY <2>2 DEF SendAbort, InboxHasRoom
    <2>3. CASE FinalizeAbort
      BY <2>3 DEF FinalizeAbort
    <2>4. CASE LockLostRun
      BY <2>4 DEF LockLostRun, TakeRunLock
    <2>5. CASE PublishHostLoss
      BY <2>5 DEF PublishHostLoss, LostControl
    <2>6. CASE StatusCrash
      BY <2>6 DEF StatusCrash
    <2>. QED BY <1>8, <2>1, <2>2, <2>3, <2>4, <2>5, <2>6 DEF ClientNext, StatusNext
  <1>9. CASE MonitorWatchdog
    BY <1>9 DEF MonitorWatchdog
  <1>10. CASE Tick
    BY <1>10 DEF Tick
  <1>11. CASE Quiescent
    BY <1>11 DEF Quiescent
  <1>12. CASE UNCHANGED vars
    BY <1>12
  <1>. QED BY <1>1, <1>2, <1>3, <1>4, <1>5, <1>6, <1>7, <1>8, <1>9, <1>10, <1>11, <1>12
    DEF Next, FlowNext

(* Every initial state has the types and is coherent.                       *)
LEMMA InitInv == ASSUME Init PROVE TypeOK /\ Coherent
  <1>. USE SizesAssumption, BudgetsAssumption
       DEF Init, StoreInit, HostInit, WatchdogInit, ClientInit
  <1>1. StoreTypeOK
    <2>1. FilesTypeOK
      BY InitialControlType DEF FilesTypeOK, NoRecord, Records
    <2>2. InboxTypeOK
      BY DEF InboxTypeOK
    <2>. QED BY <2>1, <2>2 DEF Times
  <1>2. MachineTypeOK
    BY DEF MachineTypeOK, FlowPcs
  <1>6. SignalTypeOK
    BY Zenon DEF SignalTypeOK
  <1>3. PublicationTypeOK /\ AdmissionTypeOK
    BY InitialControlType, LoopResultTypes
    DEF PublicationTypeOK, AdmissionTypeOK, NoPublication
  <1>4. WatchdogTypeOK /\ ClientTypeOK
    BY DEF WatchdogTypeOK
  <1>5. Coherent
    BY DEF LockIsOwned, AdmissionIsServed, IndexIsCurrent, MemoryLeads, DraftIsPublished,
           EndIsRepeated, RecordsAgree, Terminal, InitialControl, RunningResult, HostResult,
           NoResult
  <1>. QED BY <1>1, <1>2, <1>3, <1>4, <1>5, <1>6

(* The types and the coherence of the run are an invariant.                 *)
LEMMA Invariance == Spec => [](TypeOK /\ Coherent)
  <1>. HIDE DEF TypeOK, Coherent, vars
  <1>1. Init => TypeOK /\ Coherent
    BY InitInv
  <1>2. TypeOK /\ Coherent /\ [Next]_vars => TypeOK' /\ Coherent'
    BY TypeStep, CoherentStep
  <1>. QED BY <1>1, <1>2, PTL DEF Spec

-----------------------------------------------------------------------------
(* How the control file changes: a live host writes its memory, and only a  *)
(* process that found the host dead and the run not over writes its loss.   *)
ControlMoves ==
  \/ control' = control
  \/ HostAlive /\ control' = mem
  \/ ~HostAlive /\ ~Terminal(control.result) /\ control'.seq = control.seq + 1

(* Nothing else ever changes the control file.                              *)
LEMMA ControlStep ==
  ASSUME LockIsOwned, [Next]_vars
  PROVE  ControlMoves
  <1>. USE DEF ControlMoves, LockIsOwned, FailedWrite
  <1>1. CASE DriveNext
    BY <1>1 DEF DriveNext, Launch, DriveStep, PrepareFails, DriveVerification, Dispatch,
                RecordFact, FactFails
  <1>2. CASE PublishNext
    <2>1. CASE PublishControl \/ ControlFails
      BY <2>1 DEF PublishControl, ControlFails
    <2>. QED
      BY <1>2, <2>1 DEF PublishNext, CheckTermination, CheckPause, SetPauseDeadline,
         CheckTerminal, BundleFails, Publish, PublishResponse, ResponseFails
  <1>3. CASE PauseNext
    BY <1>3 DEF PauseNext, WaitTermination, WaitPoll, TakeDisposition, ApplyAbort,
                ApplyDisposition
  <1>4. CASE FinishNext
    BY <1>4 DEF FinishNext, ClearJournal, FinalizeRequest, FinalizeFails, HostExit
  <1>5. CASE SocketNext
    <2>1. CASE AdmitPersist \/ AdmitFails
      BY <2>1 DEF AdmitPersist, AdmitFails
    <2>. QED
      BY <1>5, <2>1 DEF SocketNext, AnswerResume, AdmitResume, ServeAbort, ServeDeadline
  <1>6. CASE WatchdogNext
    <2>1. CASE ReconcileDeadHost \/ ReconcileFails
      BY <2>1 DEF ReconcileDeadHost, ReconcileFails, WatchdogControl, LostControl
    <2>. QED
      BY <1>6, <2>1 DEF WatchdogNext, SeesDeadHost, SeesAlive, SeesTerminal, SeesDeadline,
         SeesNothing, SendDeadline, HostStops, KillHost, LockDeadRun
  <1>7. CASE CrashNext \/ MonitorWatchdog
    BY <1>7 DEF CrashNext, HostCrash, WatchdogCrash, MonitorWatchdog
  <1>8. CASE ClientNext
    <2>1. CASE PublishHostLoss
      BY <2>1 DEF PublishHostLoss, LostControl
    <2>2. CASE \E r \in Requests : ResumeNext(r)
      BY <2>2 DEF ResumeNext, RecordIntent, SendResume, Abandon, RecoverResume,
         PersistResumeError
    <2>. QED
      BY <1>8, <2>1, <2>2 DEF ClientNext, StatusNext, SendAbort, FinalizeAbort, LockLostRun,
         StatusCrash
  <1>9. CASE Tick \/ Quiescent \/ UNCHANGED vars
    BY <1>9 DEF Tick, Quiescent
  <1>. QED BY <1>1, <1>2, <1>3, <1>4, <1>5, <1>6, <1>7, <1>8, <1>9 DEF Next, FlowNext

-----------------------------------------------------------------------------
(* Every variable of the run keeps its type: counters, deadlines, the step  *)
(* index and the socket's queue stay in range in every interleaving.        *)
THEOREM TypeCorrect == Spec => []TypeOK
  BY Invariance, PTL

(* The invariant that the proofs rest on, and that Crashes.cfg checks:       *)
(* the run lock, the host's memory and the control file agree.              *)
THEOREM CoherentAlways == Spec => []Coherent
  BY Invariance, PTL

(* However the host, the watchdog, the clients and the crashes interleave,  *)
(* a run is published as lost only when its host is dead.                   *)
THEOREM HostLossIsReal == Spec => []LossOnlyAfterDeath
  <1>1. TypeOK /\ Coherent => LossOnlyAfterDeath
    BY DEF LossOnlyAfterDeath, LockIsOwned, DraftIsPublished
  <1>. QED BY <1>1, Invariance, PTL

(* The results recorded for the run request and for an abort are the        *)
(* durable terminal result.                                                 *)
THEOREM RecordsAgreeAlways == Spec => []RecordsAgree
  <1>1. TypeOK /\ Coherent => RecordsAgree
    OBVIOUS
  <1>. QED BY <1>1, Invariance, PTL

(* No process changes a terminal result, whoever published it and whatever  *)
(* was already on its way when it was published.                            *)
THEOREM ResultsAreFinal == Spec => TerminalIsFinal
  <1>1. ASSUME TypeOK, Coherent, [Next]_vars, Terminal(control.result)
        PROVE  control'.result = control.result
    <2>1. ControlMoves
      BY <1>1, ControlStep
    <2>. QED BY <1>1, <2>1 DEF ControlMoves, EndIsRepeated
  <1>2. TypeOK /\ Coherent /\ [Next]_vars
          => [Terminal(control.result) => control'.result = control.result]_vars
    BY <1>1
  <1>. QED BY <1>2, Invariance, PTL DEF Spec, TerminalIsFinal

(* Whoever changes the published result also raises its sequence number.    *)
THEOREM SequencesShowChanges == Spec => SequenceShowsChange
  <1>1. ASSUME TypeOK, Coherent, [Next]_vars, control'.result # control.result
        PROVE  control'.seq > control.seq
    <2>1. ControlMoves
      BY <1>1, ControlStep
    <2>2. control.seq \in Nat /\ mem.seq \in Nat
      BY <1>1 DEF FilesTypeOK, PublicationTypeOK, Controls
    <2>. QED BY <1>1, <2>1, <2>2 DEF ControlMoves, MemoryLeads
  <1>2. TypeOK /\ Coherent /\ [Next]_vars
          => [control'.result # control.result => control'.seq > control.seq]_vars
    BY <1>1
  <1>. QED BY <1>2, Invariance, PTL DEF Spec, SequenceShowsChange
=============================================================================
