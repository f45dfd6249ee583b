------------------------- MODULE HostedResumeProofs --------------------------
(***************************************************************************)
(* Proofs about the dispositions of HostedRun: which callers are answered, *)
(* and how; how long a pause lasts; and what a lost host is said to have   *)
(* done.  They rest on TypeOK and Coherent, proved in HostedRunProofs, and *)
(* on ResumeInv, inductive with them.                                      *)
(***************************************************************************)
EXTENDS HostedRunProofs

USE DEF TypeOK, StoreTypeOK, HostTypeOK, ClientTypeOK, Coherent, HostAlive, Publishing,
        vars, hostVars, storeVars, processVars, machineVars, publicationVars, signalVars,
        admissionVars, socketVars,
        StepDone, ActionPrepared, StepEscalates, StepStops,
        ClearPause, RetryObservation, AdvanceStep, Reissue, EndWith, ExecuteCandidate

-----------------------------------------------------------------------------
(* What is published of a pause is the escalation issued last.               *)
DraftFits ==
  /\ Publishing /\ next = "paused" => draft.state = "uncertain" /\ draft.esc = issued
  /\ Publishing /\ next = "running" => draft.state = "running"
  /\ pc \in {"respond", "store"} /\ next = "paused" => mem.pauseAt # NoDeadline
  /\ pc \in {"waiting", "polling"} => PausedAt(mem.result, issued)
  /\ stop = "uncertain" => issued >= 1

(* No escalation is answered, or shown, before it is issued.                 *)
IssuedFirst ==
  HostAlive =>
    /\ \A e \in Escalations : consumed[e] # NoRequest => e <= issued
    /\ Paused(mem) => mem.result.esc \in 1 .. issued

(* A machine that was driven on from a pause was answered.  A fresh          *)
(* escalation was not, until the host's memory shows it.                     *)
DrivenOn ==
  \/ pc \in {"launch", "drive", "dispatch", "fact", "check", "pause", "apply"}
  \/ pc = "publish" /\ next \in {"running", "paused"}
FreshPause ==
  \/ pc = "pause" \/ (pc = "check" /\ stop = "uncertain")
  \/ Publishing /\ next = "paused"
DrivenOnAnswered ==
  /\ DrivenOn /\ Paused(mem) => consumed[mem.result.esc] # NoRequest
  /\ FreshPause => consumed[issued] = NoRequest

(* What the socket thread is persisting can still be admitted.               *)
AdmissionFits ==
  admitting # NoRequest =>
    /\ Head(inbox).kind = "resume" /\ Head(inbox).request = admitting
    /\ CanAdmit(Head(inbox)) /\ mem.pauseAt = NoDeadline

(* A queued resume carries the escalation its request recorded, and of the   *)
(* connections of one request only the last can have a client that waits.    *)
Open(r) == records[r].kind # "none" /\ records[r].response # StaleError
Sent(r) == resumeCall[r] \in {"idle", "sent"}
QueuedFits(m, record, call) ==
  IF m.kind = "resume"
  THEN /\ m.request \in Requests /\ m.esc \in Escalations
       /\ record[m.request].kind # "none" /\ record[m.request].response # StaleError
       /\ m.esc = record[m.request].esc /\ call[m.request] \in {"idle", "sent"}
  ELSE m.request = NoRequest /\ ~m.live
InboxFits ==
  \A i \in DOMAIN inbox :
    /\ QueuedFits(inbox[i], records, resumeCall)
    /\ inbox[i].live =>
         /\ resumeCall[inbox[i].request] = "sent"
         /\ \A j \in DOMAIN inbox : i < j => inbox[j].request # inbox[i].request

(* An accepted request answers the escalation it recorded, and is not        *)
(* refused; a request that has a result was taken.  Only a request without   *)
(* an answer is refused.                                                     *)
AcceptedFits ==
  \A e \in Escalations : consumed[e] # NoRequest =>
    Open(consumed[e]) /\ records[consumed[e]].esc = e /\ Sent(consumed[e])
Taken(r) == \E e \in Escalations : taken[e] = r
RecordsFit ==
  \A r \in Requests :
    /\ records[r].kind # "none" => records[r].esc \in Escalations
    /\ records[r].response = NoResult <=> ~Completed(r)
    /\ Completed(r) => records[r].response = StaleError \/ Taken(r)
    /\ ~Sent(r) => records[r].kind = "intent"

(* A disposition waits to be taken, is taken, and then waits for its answer: *)
(* the checkpoint whose first attempt may have recorded it.                  *)
PendingFits == pending # NoRequest => Accepted(pending) /\ ~Taken(pending)
AwaitingFits ==
  awaiting.request # NoRequest =>
    /\ Taken(awaiting.request)
    /\ Completed(awaiting.request) => records[awaiting.request].response = awaiting.response

(* A disposition that was taken is answered before the flow waits again.     *)
TakenFits ==
  /\ \A e \in Escalations : taken[e] # NoRequest =>
       /\ taken[e] = consumed[e]
       /\ Completed(taken[e]) \/ awaiting.request = taken[e] \/ pc = "dead"
  /\ pc \in {"store", "waiting", "polling", "clear", "record"} => awaiting.request = NoRequest

(* What can be promised only as long as no durable write has failed.         *)
NoWriteFailed == faults = 0

(* As long as no durable write failed: the file shows the pause deadline of  *)
(* an unanswered pause, and the journal the input that was dispatched.       *)
PauseShown == faults = 0 => PauseIsBounded
DispatchShown ==
  /\ pc = "dispatch" => journal = "prepared"
  /\ faults = 0 /\ inflight =>
       /\ pc \in {"fact", "dead"} /\ journal = "prepared"
       /\ control.result.cleanup # "host" => control.result.action = "uncertain"

(* Failed writes or not: an input without its fact is in the journal, until  *)
(* the stop that ends the run may clear it, and the host never drives the    *)
(* machine again; what a reconciler said of it agrees with the journal.      *)
Stopping ==
  \/ pc = "check" /\ stop = "stopped"
  \/ Publishing /\ next \in {"terminal", "final"}
  \/ pc \in {"clear", "record", "exit", "dead"}
DispatchTraced ==
  /\ inflight => pc = "fact" \/ Stopping
  /\ inflight => journal = "prepared" \/ (journal = "absent" /\ faults > 0 /\ Stopping)
  /\ control.result.cleanup # "host" => control.result.action = UnresolvedAction

(* Failed writes or not: no answered pause has a deadline, in the file or in *)
(* memory, except while the flow, which has set the deadline of a fresh      *)
(* escalation, has yet to publish it.                                        *)
AnsweredUnbounded(run) ==
  \A e \in Escalations :
    PausedAt(run.result, e) /\ consumed[e] # NoRequest => run.pauseAt = NoDeadline
SuspensionKept ==
  /\ AnsweredUnbounded(control)
  /\ ~(pc = "publish" /\ next = "paused") => AnsweredUnbounded(mem)

(* And outside a publication, the file shows the result in memory; while a   *)
(* machine that was driven on is published, the file shows an answered pause.*)
MemoryShown ==
  faults = 0 /\ HostAlive =>
    IF pc \notin {"respond", "store"} THEN control.result = mem.result
    ELSE next \in {"running", "paused"} /\ Paused(control) =>
           consumed[control.result.esc] # NoRequest

ResumeInv ==
  /\ DraftFits /\ IssuedFirst /\ DrivenOnAnswered /\ AdmissionFits
  /\ InboxFits /\ AcceptedFits /\ RecordsFit /\ PendingFits /\ AwaitingFits
  /\ TakenFits /\ PauseShown /\ DispatchShown /\ MemoryShown
  /\ DispatchTraced /\ SuspensionKept

(* A published result is told from a stale answer and from none.             *)
LEMMA ResultIsAnswer == StaleError \notin Results /\ NoResult \notin Results
  BY DEF StaleError, NoResult, Results, States

(* The first checkpoint after a disposition was taken writes its answer.     *)
LEMMA AnswerWritten ==
  ASSUME TypeOK, PublishResponse \/ ResponseFails
  PROVE  /\ UNCHANGED <<consumed, taken, inbox, resumeCall>>
         /\ \A q \in Requests :
              \/ records'[q] = records[q]
              \/ /\ q = awaiting.request /\ records'[q].kind = "complete"
                 /\ records'[q].esc = records[q].esc
                 /\ records'[q].response \notin {StaleError, NoResult}
<1>1. CASE UNCHANGED records
  BY <1>1 DEF PublishResponse, ResponseFails
<1>2. CASE awaiting.request # NoRequest
  <2>1. awaiting.request \in Requests /\ FrozenResponse \in Results
    BY <1>2 DEF PublicationTypeOK, FrozenResponse
  <2>2. PICK x \in {records[awaiting.request], Complete(records[awaiting.request].esc, FrozenResponse)} :
          records' = [records EXCEPT ![awaiting.request] = x]
    BY <1>2 DEF PublishResponse, ResponseFails, FailedWrite
  <2> QED
    BY <2>1, <2>2, ResultIsAnswer DEF PublishResponse, ResponseFails, Complete, FilesTypeOK
<1> QED
  BY <1>1, <1>2 DEF PublishResponse, ResponseFails

(* A served connection leaves the others as they are.                        *)
LEMMA ServedLeaves ==
  ASSUME InboxTypeOK, inbox # <<>>
  PROVE  /\ Head(inbox) = inbox[1] /\ 1 \in DOMAIN inbox
         /\ \A i \in DOMAIN Tail(inbox) :
              i \in Nat /\ i >= 1 /\ i + 1 \in DOMAIN inbox /\ Tail(inbox)[i] = inbox[i + 1]
  BY HeadTailProperties DEF InboxTypeOK

(* A new connection is the last.                                             *)
LEMMA AppendedLast ==
  ASSUME InboxTypeOK, NEW m
  PROVE  /\ DOMAIN Append(inbox, m) = (DOMAIN inbox) \cup {Len(inbox) + 1}
         /\ Append(inbox, m)[Len(inbox) + 1] = m
         /\ \A i \in DOMAIN inbox : i \in Nat /\ i <= Len(inbox) /\ Append(inbox, m)[i] = inbox[i]
         /\ Len(inbox) \in Nat
  BY DEF InboxTypeOK

(* Abandoning a request only turns its connections over to nobody.           *)
LEMMA AbandonLeaves ==
  ASSUME InboxTypeOK, NEW r \in Requests, Abandon(r)
  PROVE  /\ DOMAIN inbox' = DOMAIN inbox
         /\ \A i \in DOMAIN inbox :
              /\ inbox'[i].kind = inbox[i].kind /\ inbox'[i].request = inbox[i].request
              /\ inbox'[i].esc = inbox[i].esc
              /\ inbox'[i].live => inbox[i].live /\ inbox[i].request # r
  BY ElementsOfInbox DEF Abandon, Messages, InboxTypeOK


(* Connections that stay queued still fit, as long as their requests keep   *)
(* the escalation they recorded and wait as before.                         *)
LEMMA QueueKept ==
  ASSUME InboxTypeOK, InboxFits, UNCHANGED inbox,
         \A q \in Requests : Open(q) /\ Sent(q) =>
           /\ Open(q)' /\ records'[q].esc = records[q].esc
           /\ resumeCall'[q] = resumeCall[q]
  PROVE  InboxFits'
<1>1. ASSUME NEW i \in DOMAIN inbox
      PROVE  /\ QueuedFits(inbox[i], records', resumeCall')
             /\ inbox[i].live =>
                  /\ resumeCall'[inbox[i].request] = "sent"
                  /\ \A j \in DOMAIN inbox : i < j => inbox[j].request # inbox[i].request
  BY <1>1 DEF InboxFits, QueuedFits, Sent, Open
<1> QED
  BY <1>1 DEF InboxFits

(* So do those behind the one that was served, whose own request may have   *)
(* been answered: if anyone waits for it, it is queued nowhere else.        *)
LEMMA QueueServed ==
  ASSUME InboxTypeOK, InboxFits, inbox # <<>>, inbox' = Tail(inbox),
         \A q \in Requests : Open(q) /\ Sent(q) =>
           /\ Open(q)' /\ records'[q].esc = records[q].esc
           /\ ~(inbox[1].live /\ inbox[1].request = q) => resumeCall'[q] = resumeCall[q]
  PROVE  InboxFits'
<1>1. /\ 1 \in DOMAIN inbox
      /\ \A i \in DOMAIN inbox' : /\ i \in Nat /\ 1 < i + 1 /\ i + 1 \in DOMAIN inbox
                                  /\ inbox'[i] = inbox[i + 1]
  BY ServedLeaves
<1>2. ASSUME NEW i \in DOMAIN inbox'
      PROVE  /\ QueuedFits(inbox'[i], records', resumeCall')
             /\ inbox'[i].live =>
                  /\ resumeCall'[inbox'[i].request] = "sent"
                  /\ \A j \in DOMAIN inbox' : i < j => inbox'[j].request # inbox'[i].request
  <2> DEFINE m == inbox[i + 1]
  <2>1. /\ inbox'[i] = m /\ QueuedFits(m, records, resumeCall)
        /\ m.live => /\ resumeCall[m.request] = "sent"
                     /\ \A j \in DOMAIN inbox : i + 1 < j => inbox[j].request # m.request
    BY <1>1, <1>2 DEF InboxFits
  <2>2. ~(inbox[1].live /\ inbox[1].request = m.request)
    BY <1>1, <1>2 DEF InboxFits
  <2>3. m.kind = "resume" \/ ~m.live
    BY <2>1 DEF QueuedFits
  <2>4. QueuedFits(m, records', resumeCall') /\ (m.live => resumeCall'[m.request] = "sent")
    BY <2>1, <2>2, <2>3 DEF QueuedFits, Sent, Open
  <2>5. ASSUME m.live, NEW j \in DOMAIN inbox', i < j PROVE inbox'[j].request # m.request
    BY <2>1, <2>5, <1>1, <1>2
  <2> QED
    BY <2>1, <2>4, <2>5
<1> QED
  BY <1>2 DEF InboxFits

(* And those in front of a new connection that fits, if no client waits for *)
(* another connection of its request.                                       *)
LEMMA QueueExtended ==
  ASSUME InboxTypeOK, InboxFits, NEW m, inbox' = Append(inbox, m), UNCHANGED records,
         QueuedFits(m, records', resumeCall'), m.live => resumeCall'[m.request] = "sent",
         \A i \in DOMAIN inbox : inbox[i].live => inbox[i].request # m.request,
         \A q \in Requests : q # m.request => resumeCall'[q] = resumeCall[q],
         m.kind = "resume" => m.request \in Requests /\ resumeCall'[m.request] = "sent"
  PROVE  InboxFits'
<1>1. /\ DOMAIN inbox' = (DOMAIN inbox) \cup {Len(inbox) + 1} /\ inbox'[Len(inbox) + 1] = m
      /\ \A i \in DOMAIN inbox : i \in Nat /\ i <= Len(inbox) /\ inbox'[i] = inbox[i]
      /\ Len(inbox) \in Nat
  BY AppendedLast
<1>2. ASSUME NEW i \in DOMAIN inbox
      PROVE  /\ QueuedFits(inbox[i], records', resumeCall')
             /\ inbox[i].live => resumeCall'[inbox[i].request] = "sent"
             /\ inbox[i].live =>
                  \A j \in DOMAIN inbox : i < j => inbox[j].request # inbox[i].request
  <2>1. /\ QueuedFits(inbox[i], records, resumeCall)
        /\ inbox[i].live =>
             /\ resumeCall[inbox[i].request] = "sent" /\ inbox[i].request # m.request
             /\ \A j \in DOMAIN inbox : i < j => inbox[j].request # inbox[i].request
    BY <1>2 DEF InboxFits
  <2>2. inbox[i].kind = "resume" \/ ~inbox[i].live
    BY <2>1 DEF QueuedFits
  <2>3. QueuedFits(inbox[i], records', resumeCall')
    BY <2>1, <2>2, RequestsAssumption DEF QueuedFits, Sent, Open
  <2>4. inbox[i].live => inbox[i].request \in Requests
    BY <2>1, <2>2 DEF QueuedFits
  <2> QED
    BY <2>1, <2>3, <2>4
<1>3. \A i \in DOMAIN inbox' : i \in DOMAIN inbox \/ (i = Len(inbox) + 1 /\ inbox'[i] = m)
  BY <1>1
<1>4. ASSUME NEW i \in DOMAIN inbox'
      PROVE  /\ QueuedFits(inbox'[i], records', resumeCall')
             /\ inbox'[i].live => resumeCall'[inbox'[i].request] = "sent"
             /\ inbox'[i].live =>
                  \A j \in DOMAIN inbox' : i < j => inbox'[j].request # inbox'[i].request
  <2>1. CASE i \in DOMAIN inbox
    <3>1. ASSUME inbox[i].live, NEW j \in DOMAIN inbox', i < j
          PROVE  inbox'[j].request # inbox[i].request
      BY <2>1, <3>1, <1>1, <1>2, <1>3
    <3> QED
      BY <2>1, <3>1, <1>1, <1>2
  <2>2. CASE i = Len(inbox) + 1
    BY <2>2, <1>1, <1>3
  <2> QED
    BY <2>1, <2>2, <1>3, <1>4
<1> QED
  BY <1>4 DEF InboxFits

-----------------------------------------------------------------------------
(* What kinds of steps there are, and what each kind leaves alone.           *)

(* The host process dies: it exits, or is killed.                            *)
HostDies == HostExit \/ KillHost \/ HostCrash

(* The clients of resume and abort requests call, give up and record.        *)
CallStep == (\E r \in Requests : ResumeNext(r)) \/ SendAbort

(* The watchdog, the threads that watch it, the clock and the clients that   *)
(* reconcile.                                                                *)
Reconciles == ReconcileDeadHost \/ ReconcileFails \/ PublishHostLoss
OutsideStep ==
  \/ SeesDeadHost \/ SeesAlive \/ SeesTerminal \/ SeesDeadline \/ SeesNothing
  \/ SendDeadline \/ HostStops \/ LockDeadRun \/ Reconciles
  \/ WatchdogCrash \/ MonitorWatchdog \/ Tick \/ Quiescent \/ UNCHANGED vars
  \/ FinalizeAbort \/ LockLostRun \/ StatusCrash

FinishStep == ClearJournal \/ FinalizeRequest \/ FinalizeFails

(* There are no other steps.                                                 *)
LEMMA StepKinds ==
  ASSUME [Next]_vars
  PROVE  \/ DriveNext \/ PublishNext \/ PauseNext \/ FinishStep \/ SocketNext
         \/ HostDies \/ CallStep \/ OutsideStep
  BY DEF Next, FlowNext, FinishNext, FinishStep, WatchdogNext, CrashNext, ClientNext, StatusNext,
     HostDies, CallStep, OutsideStep, Reconciles

(* Steps outside the host leave its memory alone.  Only a reconciliation of  *)
(* a dead host's run writes the control file, and only the watchdog's notice *)
(* is queued.                                                                *)
LEMMA OutsideLeaves ==
  ASSUME Coherent, OutsideStep
  PROVE  /\ UNCHANGED <<pc, machineVars, publicationVars, admissionVars, admitting, resumeCall>>
         /\ UNCHANGED <<records, journal>>
         /\ Reconciles \/ UNCHANGED <<control, faults>>
         /\ \/ UNCHANGED inbox
            \/ SendDeadline /\ InboxHasRoom /\ inbox' = Append(inbox, Deadline)
<1>1. CASE Reconciles
  BY <1>1 DEF Reconciles, ReconcileDeadHost, ReconcileFails, PublishHostLoss
<1>2. CASE SendDeadline \/ HostStops \/ LockDeadRun
  BY <1>2 DEF SendDeadline, HostStops, LockDeadRun
<1>3. CASE SeesDeadHost \/ SeesAlive \/ SeesTerminal \/ SeesDeadline \/ SeesNothing
  BY <1>3 DEF SeesDeadHost, SeesAlive, SeesTerminal, SeesDeadline, SeesNothing
<1>4. CASE WatchdogCrash \/ MonitorWatchdog \/ Tick \/ Quiescent \/ UNCHANGED vars
  BY <1>4 DEF WatchdogCrash, MonitorWatchdog, Tick, Quiescent
<1>5. CASE FinalizeAbort \/ LockLostRun \/ StatusCrash
  BY <1>5 DEF FinalizeAbort, LockLostRun, StatusCrash
<1> QED
  BY <1>1, <1>2, <1>3, <1>4, <1>5 DEF OutsideStep

(* A reconciliation writes the control of a lost host, or fails to.          *)
LEMMA ReconciledControl ==
  ASSUME TypeOK, Coherent, Reconciles
  PROVE  /\ ~HostAlive /\ faults' >= faults
         /\ \/ control' = control
            \/ ~Terminal(control.result) /\ Terminal(control'.result)
               /\ control'.result.action = UnresolvedAction
<1> USE DEF FilesTypeOK, WatchdogTypeOK, Terminal, LockIsOwned, LostControl
<1>1. CASE ReconcileDeadHost
  BY <1>1 DEF ReconcileDeadHost, WatchdogControl, HostLost, Expired
<1>2. CASE ReconcileFails
  BY <1>2 DEF ReconcileFails, WatchdogControl, FailedWrite, Fault, HostLost, Expired
<1>3. CASE PublishHostLoss
  BY <1>3 DEF PublishHostLoss
<1> QED
  BY <1>1, <1>2, <1>3 DEF Reconciles

(* Calls leave the host and the control file alone.                          *)
LEMMA CallLeaves ==
  ASSUME CallStep
  PROVE  UNCHANGED <<hostVars, control, journal, faults>>
<1>1. CASE SendAbort
  BY <1>1 DEF SendAbort
<1>2. CASE \E r \in Requests : ResumeNext(r)
  BY <1>2 DEF ResumeNext, RecordIntent, SendResume, Abandon, RecoverResume, PersistResumeError
<1> QED
  BY <1>1, <1>2 DEF CallStep

(* A host that dies leaves its files, and what happened, behind.             *)
LEMMA DeathLeaves ==
  ASSUME HostDies
  PROVE  /\ Die /\ UNCHANGED <<control, journal, records, faults, inflight, consumed, taken>>
         /\ pc' = "dead" /\ mem' = InitialControl /\ draft' = RunningResult /\ next' = "running"
         /\ stop' = "none" /\ issued' = 0 /\ index' = 0 /\ pending' = NoRequest
         /\ awaiting' = NoPublication /\ inbox' = <<>> /\ admitting' = NoRequest
         /\ resumeCall' = [r \in Requests |->
                             IF resumeCall[r] = "sent" THEN "idle" ELSE resumeCall[r]]
  BY DEF HostDies, HostExit, KillHost, HostCrash, Die, LoseMemory

(* The flow thread accepts no disposition and serves no connection; it takes *)
(* an accepted one, and only a published answer changes a request's record.  *)
LEMMA FlowLeaves ==
  ASSUME DriveNext \/ PublishNext \/ PauseNext \/ FinishStep
  PROVE  /\ UNCHANGED <<consumed, inbox, resumeCall, admitting>>
         /\ UNCHANGED records \/ PublishResponse \/ ResponseFails
         /\ UNCHANGED <<taken, pending>> \/ TakeDisposition
<1>1. CASE DriveNext
  BY <1>1 DEF DriveNext, Launch, DriveStep, PrepareFails, DriveVerification, Dispatch, RecordFact,
     FactFails
<1>2. CASE PublishNext
  BY <1>2 DEF PublishNext, CheckTermination, CheckPause, SetPauseDeadline, CheckTerminal,
     BundleFails, Publish, PublishResponse, PublishControl, ResponseFails, ControlFails
<1>3. CASE PauseNext \/ FinishStep
  BY <1>3 DEF PauseNext, WaitTermination, WaitPoll, TakeDisposition, ApplyAbort,
     ApplyDisposition, FinishStep, ClearJournal, FinalizeRequest, FinalizeFails
<1> QED
  BY <1>1, <1>2, <1>3

(* What calls do to a record: a new intent, or the refusal of a resume that  *)
(* was answered as stale.  They only ask for an answer again, or for the     *)
(* first time.                                                               *)
LEMMA CallRecords ==
  ASSUME TypeOK, CallStep, NEW q \in Requests
  PROVE  /\ \/ records'[q] = records[q]
            \/ /\ records[q].kind = "none"
               /\ \E e \in Escalations : records'[q] \in {Intent(e), Complete(e, StaleError)}
            \/ ~Sent(q) /\ records'[q] = Complete(records[q].esc, StaleError)
         /\ Sent(q) => Sent(q)'
         /\ ~Sent(q)' => ~Sent(q)
<1> USE DEF FilesTypeOK, AdmissionTypeOK, Sent, NoRecord
<1>1. CASE SendAbort
  BY <1>1 DEF SendAbort
<1>2. ASSUME NEW r \in Requests, NEW e \in Escalations, RecordIntent(r, e)
      PROVE  /\ records'[q] = records[q] \/ records[q].kind = "none"
             /\ records'[q] = records[q] \/ records'[q] \in {Intent(e), Complete(e, StaleError)}
             /\ UNCHANGED resumeCall
  BY <1>2 DEF RecordIntent
<1>3. ASSUME NEW r \in Requests, SendResume(r) \/ Abandon(r) \/ RecoverResume(r)
      PROVE  /\ UNCHANGED records
             /\ Sent(q) => Sent(q)'
             /\ ~Sent(q)' => ~Sent(q)
  BY <1>3 DEF SendResume, Abandon, RecoverResume
<1>4. ASSUME NEW r \in Requests, PersistResumeError(r)
      PROVE  /\ \/ records'[q] = records[q]
                \/ ~Sent(q) /\ records'[q] = Complete(records[q].esc, StaleError)
             /\ Sent(q) => Sent(q)'
             /\ ~Sent(q)' => ~Sent(q)
  BY <1>4 DEF PersistResumeError
<1>5. ASSUME NEW r \in Requests, ResumeNext(r)
      PROVE  /\ \/ records'[q] = records[q]
                \/ /\ records[q].kind = "none"
                   /\ \E e \in Escalations : records'[q] \in {Intent(e), Complete(e, StaleError)}
                \/ ~Sent(q) /\ records'[q] = Complete(records[q].esc, StaleError)
             /\ Sent(q) => Sent(q)'
             /\ ~Sent(q)' => ~Sent(q)
  <2>1. CASE \E e \in Escalations : RecordIntent(r, e)
    BY <2>1, <1>2
  <2> QED
    BY <1>5, <2>1, <1>3, <1>4 DEF ResumeNext
<1> QED
  BY <1>1, <1>5 DEF CallStep

(* No call takes a recorded answer back.                                     *)
LEMMA CallKeepsAnswers ==
  ASSUME TypeOK, CallStep, NEW q \in Requests, Completed(q)
  PROVE  Completed(q)'
<1>1. records'[q] = records[q] \/ records'[q] = Complete(records[q].esc, StaleError)
  BY CallRecords DEF Completed
<1> QED
  BY <1>1 DEF Completed, Complete

(* A call leaves a refused request without an answer.                        *)
LEMMA RefusedStaysRefused ==
  ASSUME TypeOK, RecordsFit, CallStep, NEW q \in Requests, ~Sent(q)'
  PROVE  records'[q].kind = "intent"
<1>1. ~Sent(q) /\ records[q].kind = "intent"
  BY CallRecords DEF RecordsFit
<1>2. \A r \in Requests : ~PersistResumeError(r) \/ records'[q] = records[q]
  BY DEF PersistResumeError, Sent, FilesTypeOK, AdmissionTypeOK
<1>3. \A r \in Requests, e \in Escalations : ~RecordIntent(r, e) \/ records'[q] = records[q]
  BY <1>1 DEF RecordIntent, NoRecord, FilesTypeOK
<1>4. \A r \in Requests : SendResume(r) \/ Abandon(r) \/ RecoverResume(r) => records' = records
  BY DEF SendResume, Abandon, RecoverResume
<1>5. SendAbort => records' = records
  BY DEF SendAbort
<1> QED
  BY <1>1, <1>2, <1>3, <1>4, <1>5 DEF CallStep, ResumeNext

(* A connection being served stays the first while others arrive or give up. *)
LEMMA HeadKept ==
  ASSUME TypeOK, Coherent, CallStep \/ OutsideStep, inbox # <<>>
  PROVE  /\ inbox' # <<>> /\ Head(inbox).kind = Head(inbox').kind
         /\ Head(inbox).request = Head(inbox').request /\ Head(inbox).esc = Head(inbox').esc
<1> USE DEF InboxTypeOK
<1>1. CASE UNCHANGED inbox
  BY <1>1
<1>2. ASSUME NEW m, inbox' = Append(inbox, m)
      PROVE  inbox' # <<>> /\ Head(inbox') = Head(inbox)
  BY <1>2
<1>3. ASSUME NEW r \in Requests, Abandon(r)
      PROVE  /\ inbox' # <<>> /\ Head(inbox).kind = Head(inbox').kind
             /\ Head(inbox).request = Head(inbox').request /\ Head(inbox).esc = Head(inbox').esc
  <2>1. 1 \in DOMAIN inbox /\ Head(inbox) = inbox[1]
    BY ServedLeaves
  <2>2. inbox' \in Seq(Messages) /\ DOMAIN inbox' = DOMAIN inbox
    BY <1>3, AbandonedInbox, AbandonLeaves
  <2>3. inbox' # <<>> /\ Head(inbox') = inbox'[1]
    BY <2>1, <2>2
  <2> QED
    BY <1>3, <2>1, <2>3, AbandonLeaves
<1>4. ASSUME NEW r \in Requests,
             (\E e \in Escalations : RecordIntent(r, e))
               \/ RecoverResume(r) \/ PersistResumeError(r)
      PROVE  UNCHANGED inbox
  BY <1>4 DEF RecordIntent, RecoverResume, PersistResumeError
<1>5. ASSUME NEW r \in Requests, SendResume(r)
      PROVE  inbox' = Append(inbox, Resume(r, records[r].esc))
  BY <1>5 DEF SendResume
<1>6. CASE CallStep
  <2>1. CASE SendAbort
    BY <2>1, <1>2 DEF SendAbort
  <2> QED
    BY <2>1, <1>1, <1>2, <1>3, <1>4, <1>5, <1>6 DEF CallStep, ResumeNext
<1> QED
  BY <1>1, <1>2, <1>6, OutsideLeaves

-----------------------------------------------------------------------------
(* Every step preserves the invariant, part by part.                        *)

(* Whatever is published of a pause shows the escalation issued last.        *)
LEMMA DraftFitsStep ==
  ASSUME TypeOK, Coherent, DraftFits, [Next]_vars
  PROVE  DraftFits'
<1> USE SizesAssumption DEF DraftFits, IndexIsCurrent, DraftIsPublished, MachineTypeOK,
        Controls, FlowPcs, HostResult, RunningResult, PausedAt, UpdatePauseDeadline
<1>1. CASE DriveNext
  <2>1. CASE Launch
    BY <2>1 DEF Launch
  <2>2. CASE DriveStep
    BY <2>2 DEF DriveStep, Escalate
  <2>3. CASE PrepareFails
    BY <2>3 DEF PrepareFails, Fault, FailedWrite
  <2>4. CASE DriveVerification
    BY <2>4 DEF DriveVerification, Escalate
  <2>5. CASE Dispatch
    BY <2>5 DEF Dispatch
  <2>6. CASE RecordFact
    BY <2>6 DEF RecordFact, Escalate
  <2>7. CASE FactFails
    BY <2>7 DEF FactFails, Fault, FailedWrite
  <2> QED
    BY <1>1, <2>1, <2>2, <2>3, <2>4, <2>5, <2>6, <2>7 DEF DriveNext
<1>2. CASE PublishNext
  <2>1. CASE CheckTermination
    BY <2>1 DEF CheckTermination, Terminate, HostResult
  <2>2. CASE CheckPause
    BY <2>2 DEF CheckPause
  <2>3. CASE SetPauseDeadline
    BY <2>3 DEF SetPauseDeadline
  <2>4. CASE CheckTerminal
    BY <2>4 DEF CheckTerminal
  <2>5. CASE BundleFails
    BY <2>5 DEF BundleFails, Fault, PublishesBundle
  <2>6. CASE Publish
  BY <2>6, PauseDeadlineType DEF Publish, PublicationTypeOK, PublicationHeld
  <2>7. CASE PublishResponse
    BY <2>7 DEF PublishResponse
  <2>8. CASE PublishControl
    BY <2>8 DEF PublishControl, AfterPublication
  <2>9. CASE ResponseFails
    BY <2>9 DEF ResponseFails, PublicationFailed, Fault, FailedWrite
  <2>10. CASE ControlFails
    BY <2>10 DEF ControlFails, PublicationFailed, Fault, FailedWrite
  <2> QED
    BY <1>2, <2>1, <2>2, <2>3, <2>4, <2>5, <2>6, <2>7, <2>8, <2>9, <2>10 DEF PublishNext
<1>3. CASE PauseNext
  <2>1. CASE WaitTermination
    BY <2>1 DEF WaitTermination, Terminate, HostResult
  <2>2. CASE WaitPoll
    BY <2>2 DEF WaitPoll
  <2>3. CASE TakeDisposition
    BY <2>3 DEF TakeDisposition
  <2>4. CASE ApplyAbort
    BY <2>4 DEF ApplyAbort, Terminate, HostResult
  <2>5. CASE ApplyDisposition
    BY <2>5 DEF ApplyDisposition, Escalate
  <2> QED
    BY <1>3, <2>1, <2>2, <2>3, <2>4, <2>5 DEF PauseNext
<1>4. CASE FinishStep
  <2>1. CASE ClearJournal
    BY <2>1 DEF ClearJournal
  <2>2. CASE FinalizeRequest
    BY <2>2 DEF FinalizeRequest
  <2>3. CASE FinalizeFails
    BY <2>3 DEF FinalizeFails, Fault
  <2> QED
    BY <1>4, <2>1, <2>2, <2>3 DEF FinishStep
<1>5. CASE SocketNext
  <2>1. CASE AnswerResume
    BY <2>1 DEF AnswerResume, Reply, Serving
  <2>2. CASE AdmitResume
  BY <2>2, PauseDeadlineType DEF AdmitResume, PublicationTypeOK, PublicationHeld
  <2>3. CASE AdmitPersist
    BY <2>3 DEF AdmitPersist, Reply
  <2>4. CASE AdmitFails
    BY <2>4 DEF AdmitFails, Reply, Fault, FailedWrite
  <2>5. CASE ServeAbort
    BY <2>5 DEF ServeAbort, Serving
  <2>6. CASE ServeDeadline
    BY <2>6 DEF ServeDeadline, Serving
  <2> QED
    BY <1>5, <2>1, <2>2, <2>3, <2>4, <2>5, <2>6 DEF SocketNext
<1>6. CASE HostDies
  BY <1>6, DeathLeaves
<1>7. CASE CallStep
  BY <1>7, CallLeaves
<1>8. CASE OutsideStep
  BY <1>8, OutsideLeaves
<1> QED
  BY <1>1, <1>2, <1>3, <1>4, <1>5, <1>6, <1>7, <1>8, StepKinds

(* An escalation is issued before it is answered and before it is shown.    *)
LEMMA IssuedFirstStep ==
  ASSUME TypeOK, Coherent, DraftFits, AdmissionFits, IssuedFirst, [Next]_vars
  PROVE  IssuedFirst'
<1> USE SizesAssumption DEF IssuedFirst, DraftFits, AdmissionFits, CanAdmit, PausedAt, Paused,
        DraftIsPublished, IndexIsCurrent, MachineTypeOK, PublicationTypeOK, AdmissionTypeOK,
        Controls, Terminal, RunningResult, HostResult, InitialControl, FlowPcs, Escalations
<1>1. CASE DriveNext
  <2>1. CASE Launch
    BY <2>1 DEF Launch
  <2>2. CASE DriveStep
    BY <2>2 DEF DriveStep, Escalate
  <2>3. CASE PrepareFails
    BY <2>3 DEF PrepareFails, Fault, FailedWrite
  <2>4. CASE DriveVerification
    BY <2>4 DEF DriveVerification, Escalate
  <2>5. CASE Dispatch
    BY <2>5 DEF Dispatch
  <2>6. CASE RecordFact
    BY <2>6 DEF RecordFact, Escalate
  <2>7. CASE FactFails
    BY <2>7 DEF FactFails, Fault, FailedWrite
  <2> QED
    BY <1>1, <2>1, <2>2, <2>3, <2>4, <2>5, <2>6, <2>7 DEF DriveNext
<1>2. CASE PublishNext
  <2>1. CASE CheckTermination
    BY <2>1 DEF CheckTermination, Terminate, HostResult
  <2>2. CASE CheckPause
    BY <2>2 DEF CheckPause
  <2>3. CASE SetPauseDeadline
    BY <2>3 DEF SetPauseDeadline
  <2>4. CASE CheckTerminal
    BY <2>4 DEF CheckTerminal
  <2>5. CASE BundleFails
    BY <2>5 DEF BundleFails, Fault, PublishesBundle
  <2>6. CASE Publish
    BY <2>6 DEF Publish
  <2>7. CASE PublishResponse
    BY <2>7 DEF PublishResponse
  <2>8. CASE PublishControl
    BY <2>8 DEF PublishControl, AfterPublication
  <2>9. CASE ResponseFails
    BY <2>9 DEF ResponseFails, PublicationFailed, Fault, FailedWrite
  <2>10. CASE ControlFails
    BY <2>10 DEF ControlFails, PublicationFailed, Fault, FailedWrite
  <2> QED
    BY <1>2, <2>1, <2>2, <2>3, <2>4, <2>5, <2>6, <2>7, <2>8, <2>9, <2>10 DEF PublishNext
<1>3. CASE PauseNext
  <2>1. CASE WaitTermination
    BY <2>1 DEF WaitTermination, Terminate, HostResult
  <2>2. CASE WaitPoll
    BY <2>2 DEF WaitPoll
  <2>3. CASE TakeDisposition
    BY <2>3 DEF TakeDisposition
  <2>4. CASE ApplyAbort
    BY <2>4 DEF ApplyAbort, Terminate, HostResult
  <2>5. CASE ApplyDisposition
    BY <2>5 DEF ApplyDisposition, Escalate
  <2> QED
    BY <1>3, <2>1, <2>2, <2>3, <2>4, <2>5 DEF PauseNext
<1>4. CASE FinishStep
  <2>1. CASE ClearJournal
    BY <2>1 DEF ClearJournal
  <2>2. CASE FinalizeRequest
    BY <2>2 DEF FinalizeRequest
  <2>3. CASE FinalizeFails
    BY <2>3 DEF FinalizeFails, Fault
  <2> QED
    BY <1>4, <2>1, <2>2, <2>3 DEF FinishStep
<1>5. CASE SocketNext
  <2>1. CASE AnswerResume
    BY <2>1 DEF AnswerResume, Reply, Serving
  <2>2. CASE AdmitResume
    BY <2>2 DEF AdmitResume, Serving
  <2>3. CASE AdmitPersist
    BY <2>3 DEF AdmitPersist, Reply
  <2>4. CASE AdmitFails
    BY <2>4 DEF AdmitFails, Reply, Fault, FailedWrite
  <2>5. CASE ServeAbort
    BY <2>5 DEF ServeAbort, Serving
  <2>6. CASE ServeDeadline
    BY <2>6 DEF ServeDeadline, Serving
  <2> QED
    BY <1>5, <2>1, <2>2, <2>3, <2>4, <2>5, <2>6 DEF SocketNext
<1>6. CASE HostDies
  BY <1>6, DeathLeaves
<1>7. CASE CallStep
  BY <1>7, CallLeaves
<1>8. CASE OutsideStep
  BY <1>8, OutsideLeaves
<1> QED
  BY <1>1, <1>2, <1>3, <1>4, <1>5, <1>6, <1>7, <1>8, StepKinds

(* The machine is driven on from a pause only once the pause is answered.    *)
LEMMA DrivenOnStep ==
  ASSUME TypeOK, Coherent, DraftFits, IssuedFirst, AdmissionFits, DrivenOnAnswered, [Next]_vars
  PROVE  DrivenOnAnswered'
<1> USE SizesAssumption DEF DrivenOnAnswered, DrivenOn, FreshPause, IssuedFirst, DraftFits,
        AdmissionFits, CanAdmit, PausedAt, Paused, DraftIsPublished, IndexIsCurrent,
        MachineTypeOK, PublicationTypeOK, AdmissionTypeOK, Controls, RunningResult, HostResult,
        InitialControl, FlowPcs, Escalations
<1>1. CASE DriveNext
  <2>1. CASE Launch
    BY <2>1 DEF Launch
  <2>2. CASE DriveStep
    BY <2>2 DEF DriveStep, Escalate
  <2>3. CASE PrepareFails
    BY <2>3 DEF PrepareFails, Fault, FailedWrite
  <2>4. CASE DriveVerification
    BY <2>4 DEF DriveVerification, Escalate
  <2>5. CASE Dispatch
    BY <2>5 DEF Dispatch
  <2>6. CASE RecordFact
    BY <2>6 DEF RecordFact, Escalate
  <2>7. CASE FactFails
    BY <2>7 DEF FactFails, Fault, FailedWrite
  <2> QED
    BY <1>1, <2>1, <2>2, <2>3, <2>4, <2>5, <2>6, <2>7 DEF DriveNext
<1>2. CASE PublishNext
  <2>1. CASE CheckTermination
    BY <2>1 DEF CheckTermination, Terminate, HostResult
  <2>2. CASE CheckPause
    BY <2>2 DEF CheckPause
  <2>3. CASE SetPauseDeadline
    BY <2>3 DEF SetPauseDeadline
  <2>4. CASE CheckTerminal
    BY <2>4 DEF CheckTerminal
  <2>5. CASE BundleFails
    BY <2>5 DEF BundleFails, Fault, PublishesBundle
  <2>6. CASE Publish
    BY <2>6 DEF Publish
  <2>7. CASE PublishResponse
    BY <2>7 DEF PublishResponse
  <2>8. CASE PublishControl
    BY <2>8 DEF PublishControl, AfterPublication
  <2>9. CASE ResponseFails
    BY <2>9 DEF ResponseFails, PublicationFailed, Fault, FailedWrite
  <2>10. CASE ControlFails
    BY <2>10 DEF ControlFails, PublicationFailed, Fault, FailedWrite
  <2> QED
    BY <1>2, <2>1, <2>2, <2>3, <2>4, <2>5, <2>6, <2>7, <2>8, <2>9, <2>10 DEF PublishNext
<1>3. CASE PauseNext
  <2>1. CASE WaitTermination
    BY <2>1 DEF WaitTermination, Terminate, HostResult
  <2>2. CASE WaitPoll
    BY <2>2 DEF WaitPoll
  <2>3. CASE TakeDisposition
    BY <2>3 DEF TakeDisposition
  <2>4. CASE ApplyAbort
    BY <2>4 DEF ApplyAbort, Terminate, HostResult
  <2>5. CASE ApplyDisposition
    BY <2>5 DEF ApplyDisposition, Escalate
  <2> QED
    BY <1>3, <2>1, <2>2, <2>3, <2>4, <2>5 DEF PauseNext
<1>4. CASE FinishStep
  <2>1. CASE ClearJournal
    BY <2>1 DEF ClearJournal
  <2>2. CASE FinalizeRequest
    BY <2>2 DEF FinalizeRequest
  <2>3. CASE FinalizeFails
    BY <2>3 DEF FinalizeFails, Fault
  <2> QED
    BY <1>4, <2>1, <2>2, <2>3 DEF FinishStep
<1>5. CASE SocketNext
  <2>1. CASE AnswerResume
    BY <2>1 DEF AnswerResume, Reply, Serving
  <2>2. CASE AdmitResume
    BY <2>2 DEF AdmitResume, Serving
  <2>3. CASE AdmitPersist
    BY <2>3 DEF AdmitPersist, Reply
  <2>4. CASE AdmitFails
    BY <2>4 DEF AdmitFails, Reply, Fault, FailedWrite
  <2>5. CASE ServeAbort
    BY <2>5 DEF ServeAbort, Serving
  <2>6. CASE ServeDeadline
    BY <2>6 DEF ServeDeadline, Serving
  <2> QED
    BY <1>5, <2>1, <2>2, <2>3, <2>4, <2>5, <2>6 DEF SocketNext
<1>6. CASE HostDies
  BY <1>6, DeathLeaves
<1>7. CASE CallStep
  BY <1>7, CallLeaves
<1>8. CASE OutsideStep
  BY <1>8, OutsideLeaves
<1> QED
  BY <1>1, <1>2, <1>3, <1>4, <1>5, <1>6, <1>7, <1>8, StepKinds

(* While an admission is persisted, nothing makes it inadmissible.            *)
LEMMA AdmissionFitsStep ==
  ASSUME TypeOK, Coherent, DrivenOnAnswered, AdmissionFits, [Next]_vars
  PROVE  AdmissionFits'
<1> USE SizesAssumption DEF DrivenOnAnswered, DrivenOn, AdmissionFits, AdmissionIsServed,
        CanAdmit, PausedAt, Paused, MachineTypeOK, PublicationTypeOK, AdmissionTypeOK, Controls,
        InboxTypeOK, PublicationHeld, FlowPcs
<1>1. CASE DriveNext
  <2>1. CASE Launch
    BY <2>1 DEF Launch
  <2>2. CASE DriveStep
    BY <2>2 DEF DriveStep, Escalate
  <2>3. CASE PrepareFails
    BY <2>3 DEF PrepareFails, Fault, FailedWrite
  <2>4. CASE DriveVerification
    BY <2>4 DEF DriveVerification, Escalate
  <2>5. CASE Dispatch
    BY <2>5 DEF Dispatch
  <2>6. CASE RecordFact
    BY <2>6 DEF RecordFact, Escalate
  <2>7. CASE FactFails
    BY <2>7 DEF FactFails, Fault, FailedWrite
  <2> QED
    BY <1>1, <2>1, <2>2, <2>3, <2>4, <2>5, <2>6, <2>7 DEF DriveNext
<1>2. CASE PublishNext
  <2>1. CASE CheckTermination
    BY <2>1 DEF CheckTermination, Terminate, HostResult
  <2>2. CASE CheckPause
    BY <2>2 DEF CheckPause
  <2>3. CASE SetPauseDeadline
    BY <2>3 DEF SetPauseDeadline
  <2>4. CASE CheckTerminal
    BY <2>4 DEF CheckTerminal
  <2>5. CASE BundleFails
    BY <2>5 DEF BundleFails, Fault, PublishesBundle
  <2>6. CASE Publish
    BY <2>6 DEF Publish
  <2>7. CASE PublishResponse
    BY <2>7 DEF PublishResponse
  <2>8. CASE PublishControl
    BY <2>8 DEF PublishControl, AfterPublication
  <2>9. CASE ResponseFails
    BY <2>9 DEF ResponseFails, PublicationFailed, Fault, FailedWrite
  <2>10. CASE ControlFails
    BY <2>10 DEF ControlFails, PublicationFailed, Fault, FailedWrite
  <2> QED
    BY <1>2, <2>1, <2>2, <2>3, <2>4, <2>5, <2>6, <2>7, <2>8, <2>9, <2>10 DEF PublishNext
<1>3. CASE PauseNext
  <2>1. CASE WaitTermination
    BY <2>1 DEF WaitTermination, Terminate, HostResult
  <2>2. CASE WaitPoll
    BY <2>2 DEF WaitPoll
  <2>3. CASE TakeDisposition
    BY <2>3 DEF TakeDisposition
  <2>4. CASE ApplyAbort
    BY <2>4 DEF ApplyAbort, Terminate, HostResult
  <2>5. CASE ApplyDisposition
    BY <2>5 DEF ApplyDisposition, Escalate
  <2> QED
    BY <1>3, <2>1, <2>2, <2>3, <2>4, <2>5 DEF PauseNext
<1>4. CASE FinishStep
  <2>1. CASE ClearJournal
    BY <2>1 DEF ClearJournal
  <2>2. CASE FinalizeRequest
    BY <2>2 DEF FinalizeRequest
  <2>3. CASE FinalizeFails
    BY <2>3 DEF FinalizeFails, Fault
  <2> QED
    BY <1>4, <2>1, <2>2, <2>3 DEF FinishStep
<1>5. CASE SocketNext
  <2>1. CASE AnswerResume
    BY <2>1 DEF AnswerResume, Reply, Serving
  <2>2. CASE AdmitResume
    BY <2>2 DEF AdmitResume, Serving
  <2>3. CASE AdmitPersist
    BY <2>3 DEF AdmitPersist, Reply
  <2>4. CASE AdmitFails
    BY <2>4 DEF AdmitFails, Reply, Fault, FailedWrite
  <2>5. CASE ServeAbort
    BY <2>5 DEF ServeAbort, Serving
  <2>6. CASE ServeDeadline
    BY <2>6 DEF ServeDeadline, Serving
  <2> QED
    BY <1>5, <2>1, <2>2, <2>3, <2>4, <2>5, <2>6 DEF SocketNext
<1>6. CASE HostDies
  BY <1>6, DeathLeaves
<1>7. CASE CallStep
  BY <1>7, CallLeaves, HeadKept
<1>8. CASE OutsideStep
  BY <1>8, OutsideLeaves, HeadKept
<1> QED
  BY <1>1, <1>2, <1>3, <1>4, <1>5, <1>6, <1>7, <1>8, StepKinds

(* An accepted request keeps the escalation it answers and is not refused.   *)
LEMMA AcceptedFitsStep ==
  ASSUME TypeOK, Coherent, AdmissionFits, InboxFits, AcceptedFits, [Next]_vars
  PROVE  AcceptedFits'
<1> USE RequestsAssumption DEF AcceptedFits, Open, Sent, CanAdmit, AdmissionFits,
        AdmissionIsServed, AdmissionTypeOK, InboxTypeOK, InboxFits, QueuedFits, FilesTypeOK
<1>1. CASE DriveNext \/ PublishNext \/ PauseNext \/ FinishStep
  BY <1>1, FlowLeaves, AnswerWritten
<1>2. CASE SocketNext
  <2>1. CASE AnswerResume
    BY <2>1 DEF AnswerResume, Reply, Serving
  <2>2. CASE AdmitResume
    BY <2>2 DEF AdmitResume, Serving
  <2>3. CASE AdmitPersist
    BY <2>3 DEF AdmitPersist, Reply
  <2>4. CASE AdmitFails
    BY <2>4 DEF AdmitFails, Reply, Fault, FailedWrite
  <2>5. CASE ServeAbort
    BY <2>5 DEF ServeAbort, Serving
  <2>6. CASE ServeDeadline
    BY <2>6 DEF ServeDeadline, Serving
  <2> QED
    BY <1>2, <2>1, <2>2, <2>3, <2>4, <2>5, <2>6 DEF SocketNext
<1>3. CASE HostDies
  BY <1>3, DeathLeaves
<1>4. CASE CallStep
  <2>1. ASSUME NEW e \in Escalations, consumed'[e] # NoRequest
        PROVE  /\ records'[consumed'[e]].kind # "none"
               /\ records'[consumed'[e]].response # StaleError
               /\ records'[consumed'[e]].esc = e /\ resumeCall'[consumed'[e]] \in {"idle", "sent"}
    <3>1. consumed'[e] = consumed[e] /\ consumed[e] \in Requests
      BY <1>4, <2>1, CallLeaves
    <3>2. Open(consumed[e]) /\ records[consumed[e]].esc = e /\ Sent(consumed[e])
      BY <2>1, <3>1
    <3>3. records'[consumed[e]] = records[consumed[e]] /\ resumeCall'[consumed[e]] \in {"idle", "sent"}
      BY <1>4, <3>1, <3>2, CallRecords
    <3> QED
      BY <3>1, <3>2, <3>3
  <2> QED
    BY <2>1
<1>5. CASE OutsideStep
  BY <1>5, OutsideLeaves
<1> QED
  BY <1>1, <1>2, <1>3, <1>4, <1>5, StepKinds

(* A request whose disposition was taken was accepted, and so is not refused.*)
LEMMA TakenWasAccepted ==
  ASSUME TypeOK, AcceptedFits, TakenFits, NEW r \in Requests, Taken(r)
  PROVE  /\ Accepted(r) /\ Open(r) /\ Sent(r) /\ records[r].esc \in Escalations
         /\ consumed[records[r].esc] = r
<1>1. PICK e \in Escalations : taken[e] = r
  BY DEF Taken
<1>2. consumed[e] = r
  BY <1>1, RequestsAssumption DEF TakenFits
<1> QED
  BY <1>2, RequestsAssumption DEF AcceptedFits, Accepted

(* What was taken stays taken.                                               *)
LEMMA TakenGrows ==
  ASSUME TypeOK, Coherent, DraftFits, TakenFits, NEW r \in Requests, Taken(r),
         DriveNext \/ PublishNext \/ PauseNext \/ FinishStep
  PROVE  Taken(r)'
<1>1. PICK e \in Escalations : taken[e] = r
  BY DEF Taken
<1>2. CASE UNCHANGED taken
  BY <1>1, <1>2 DEF Taken
<1>3. CASE TakeDisposition
  <2>1. taken'[e] = taken[e]
    BY <1>1, <1>3, RequestsAssumption DEF TakeDisposition, TakenFits, AdmissionTypeOK
  <2> QED
    BY <1>1, <2>1 DEF Taken
<1> QED
  BY <1>2, <1>3, FlowLeaves

(* A connection that is answered as stale is that of a request without       *)
(* answer: the repeat of an answered one is accepted again.                  *)
LEMMA RefusedHasNoAnswer ==
  ASSUME TypeOK, InboxFits, AcceptedFits, TakenFits, RecordsFit, AnswerResume,
         NEW r \in Requests, Sent(r), resumeCall'[r] = "stale"
  PROVE  records[r].kind = "intent"
<1> DEFINE m == inbox[1]
<1>1. inbox # <<>> /\ Head(inbox) = m /\ 1 \in DOMAIN inbox /\ m.kind = "resume"
  BY ServedLeaves DEF AnswerResume, Serving
<1>2. m.request = r /\ consumed[m.esc] # m.request
  BY <1>1 DEF AnswerResume, Reply, AdmissionTypeOK, Sent
<1>3. Open(r) /\ m.esc = records[r].esc
  BY <1>1, <1>2 DEF InboxFits, QueuedFits, Open
<1>4. ~Taken(r)
  BY <1>2, <1>3, TakenWasAccepted
<1>5. records[r].kind \in {"none", "intent", "complete"}
  BY DEF FilesTypeOK, Records
<1> QED
  BY <1>3, <1>4, <1>5 DEF RecordsFit, Completed, Open

(* Whoever has a result recorded was taken, and whoever is refused has none. *)
LEMMA RecordsFitStep ==
  ASSUME TypeOK, Coherent, DraftFits, InboxFits, AcceptedFits, TakenFits, AwaitingFits, RecordsFit,
         [Next]_vars
  PROVE  RecordsFit'
<1> USE RequestsAssumption DEF RecordsFit, Completed
<1> DEFINE RecordFits(r, record) ==
      /\ record.kind # "none" => record.esc \in Escalations
      /\ record.response = NoResult <=> ~(record.kind = "complete")
      /\ record.kind = "complete" => record.response = StaleError \/ Taken(r)
<1>1. CASE DriveNext \/ PublishNext \/ PauseNext \/ FinishStep
  <2>1. ASSUME NEW r \in Requests
        PROVE  /\ RecordFits(r, records'[r])
               /\ ~Sent(r) => records'[r].kind = "intent"
    <3>1. CASE records'[r] = records[r]
      BY <3>1
    <3>2. CASE records'[r] # records[r]
      <4>1. /\ r = awaiting.request /\ records'[r].kind = "complete"
            /\ records'[r].esc = records[r].esc
            /\ records'[r].response \notin {StaleError, NoResult}
        BY <1>1, <3>2, FlowLeaves, AnswerWritten
      <4>2. Taken(r) /\ Sent(r) /\ records[r].esc \in Escalations
        BY <4>1, TakenWasAccepted DEF AwaitingFits
      <4> QED
        BY <4>1, <4>2
    <3> QED
      BY <3>1, <3>2
  <2>2. \A r \in Requests : Taken(r) => Taken(r)'
    BY <1>1, TakenGrows
  <2>3. UNCHANGED resumeCall
    BY <1>1, FlowLeaves
  <2> QED
    BY <2>1, <2>2, <2>3 DEF Sent
<1>2. CASE SocketNext
  <2>1. UNCHANGED <<records, taken>>
    BY <1>2 DEF SocketNext, AnswerResume, AdmitResume, AdmitPersist, AdmitFails, ServeAbort,
       ServeDeadline
  <2>2. ASSUME NEW r \in Requests, ~Sent(r)'
        PROVE  records[r].kind = "intent"
    <3>1. CASE ~Sent(r)
      BY <3>1
    <3>2. CASE Sent(r)
      <4>1. AnswerResume /\ resumeCall'[r] = "stale"
        BY <1>2, <2>2, <3>2
        DEF SocketNext, AnswerResume, AdmitResume, AdmitPersist, AdmitFails, ServeAbort,
            ServeDeadline, Reply, Sent, AdmissionTypeOK
      <4> QED
        BY <3>2, <4>1, RefusedHasNoAnswer
    <3> QED
      BY <3>1, <3>2
  <2> QED
    BY <2>1, <2>2 DEF Taken
<1>3. CASE HostDies
  BY <1>3, DeathLeaves DEF Taken, Sent
<1>4. CASE CallStep
  <2>1. UNCHANGED taken
    BY <1>4, CallLeaves
  <2>2. ASSUME NEW r \in Requests
        PROVE  RecordFits(r, records'[r])
    <3>1. CASE records'[r] = records[r]
      BY <3>1
    <3>2. CASE records[r].kind = "none" /\ records'[r] # records[r]
      <4>1. PICK e \in Escalations : records'[r] \in {Intent(e), Complete(e, StaleError)}
        BY <1>4, <3>2, CallRecords DEF Sent
      <4> QED
        BY <4>1 DEF Intent, Complete, NoResult, StaleError
    <3>3. CASE ~Sent(r) /\ records'[r] = Complete(records[r].esc, StaleError)
      BY <3>3 DEF Complete, NoResult, StaleError
    <3> QED
      BY <1>4, <3>1, <3>2, <3>3, CallRecords
  <2>3. ASSUME NEW r \in Requests, ~Sent(r)'
        PROVE  records'[r].kind = "intent"
    BY <1>4, <2>3, RefusedStaysRefused
  <2> QED
    BY <2>1, <2>2, <2>3 DEF Taken
<1>5. CASE OutsideStep
  BY <1>5, OutsideLeaves DEF Taken, Sent
<1> QED
  BY <1>1, <1>2, <1>3, <1>4, <1>5, StepKinds

(* A disposition that was admitted waits to be taken, once.                  *)
LEMMA PendingFitsStep ==
  ASSUME TypeOK, Coherent, AdmissionFits, InboxFits, AcceptedFits, TakenFits, PendingFits,
         [Next]_vars
  PROVE  PendingFits'
<1> USE RequestsAssumption DEF PendingFits
<1>1. CASE DriveNext \/ PublishNext \/ PauseNext \/ FinishStep
  <2>1. CASE UNCHANGED <<taken, pending>>
    BY <1>1, <2>1, FlowLeaves DEF Taken, Accepted
  <2>2. CASE TakeDisposition
    BY <2>2 DEF TakeDisposition, Taken, Accepted
  <2> QED
    BY <1>1, <2>1, <2>2, FlowLeaves
<1>2. CASE SocketNext
  <2>1. CASE AdmitPersist
    <3> DEFINE m == Head(inbox)
    <3>1. /\ 1 \in DOMAIN inbox /\ m = inbox[1] /\ m.kind = "resume" /\ m.request = admitting
          /\ consumed[m.esc] = NoRequest
      BY <2>1, ServedLeaves DEF AdmitPersist, AdmissionFits, AdmissionIsServed, CanAdmit
    <3>2. admitting \in Requests /\ m.esc \in Escalations /\ records[admitting].esc = m.esc
      BY <3>1 DEF InboxFits, QueuedFits
    <3>3. ~Taken(admitting)
      BY <3>1, <3>2, TakenWasAccepted
    <3>4. pending' = admitting /\ taken' = taken /\ consumed'[m.esc] = admitting
      BY <2>1, <3>2 DEF AdmitPersist, AdmissionTypeOK
    <3> QED
      BY <3>2, <3>3, <3>4 DEF Taken, Accepted
  <2>2. CASE ~AdmitPersist
    BY <1>2, <2>2
    DEF SocketNext, AnswerResume, AdmitResume, AdmitFails, ServeAbort, ServeDeadline, Taken,
        Accepted
  <2> QED
    BY <2>1, <2>2
<1>3. CASE HostDies
  BY <1>3, DeathLeaves
<1>4. CASE CallStep
  BY <1>4, CallLeaves DEF Taken, Accepted
<1>5. CASE OutsideStep
  BY <1>5, OutsideLeaves DEF Taken, Accepted
<1> QED
  BY <1>1, <1>2, <1>3, <1>4, <1>5, StepKinds

(* The flow awaits the answer of a disposition it took, and repeats the one  *)
(* that its first attempt may have recorded.                                 *)
LEMMA AwaitingFitsStep ==
  ASSUME TypeOK, Coherent, DraftFits, AcceptedFits, TakenFits, RecordsFit, PendingFits,
         AwaitingFits, [Next]_vars
  PROVE  AwaitingFits'
<1> USE RequestsAssumption DEF AwaitingFits
<1>0. ASSUME NEW r \in Requests, awaiting' = awaiting, awaiting.request = r, Taken(r) => Taken(r)',
             records'[r] = records[r]
      PROVE  AwaitingFits'
  BY <1>0 DEF Completed
<1>1. CASE DriveNext \/ PublishNext \/ PauseNext \/ FinishStep
  <2>1. CASE PublishResponse
    BY <2>1 DEF PublishResponse, NoPublication
  <2>2. CASE ResponseFails
    <3> DEFINE r == awaiting.request
    <3>1. r \in Requests /\ taken' = taken /\ Taken(r)
      BY <2>2 DEF ResponseFails, PublicationTypeOK
    <3>2. awaiting'.request = r /\ awaiting'.response = FrozenResponse
      BY <2>2 DEF ResponseFails, PublicationTypeOK
    <3>3. records'[r] = records[r] \/ records'[r] = Complete(records[r].esc, FrozenResponse)
      BY <2>2, <3>1 DEF ResponseFails, FailedWrite, FilesTypeOK
    <3>4. Completed(r) => records[r].response = FrozenResponse
      BY <3>1 DEF RecordsFit, FrozenResponse
    <3> HIDE DEF r
    <3> QED
      BY <3>1, <3>2, <3>3, <3>4 DEF Completed, Complete, Taken
  <2>3. CASE TakeDisposition
    <3>1. CASE awaiting' = awaiting /\ taken' = taken
      BY <2>3, <3>1 DEF TakeDisposition, Completed, Taken
    <3>2. CASE pending # NoRequest /\ consumed[issued] = pending
      <4>0. issued \in Escalations
        BY <2>3, SizesAssumption
        DEF TakeDisposition, DraftFits, IndexIsCurrent, MachineTypeOK, Escalations
      <4>1. /\ awaiting'.request = pending /\ pending \in Requests /\ records' = records
            /\ issued \in Escalations /\ taken'[issued] = pending
        BY <2>3, <3>2, <4>0 DEF TakeDisposition, AdmissionTypeOK
      <4>2. ~Completed(pending)
        BY <3>2, <4>1 DEF PendingFits, RecordsFit, AcceptedFits, Open
      <4> QED
        BY <4>1, <4>2 DEF Completed, Taken
    <3> QED
      BY <2>3, <3>1, <3>2 DEF TakeDisposition
  <2>4. CASE ~(PublishResponse \/ ResponseFails \/ TakeDisposition)
    <3>1. UNCHANGED <<awaiting, taken, records>>
      BY <1>1, <2>4
      DEF DriveNext, Launch, DriveStep, PrepareFails, DriveVerification, Dispatch, RecordFact,
          FactFails, PublishNext, CheckTermination, CheckPause, SetPauseDeadline, CheckTerminal,
          BundleFails, Publish, PublishControl, ControlFails, PauseNext, WaitTermination, WaitPoll,
          ApplyAbort, ApplyDisposition, FinishStep, ClearJournal, FinalizeRequest, FinalizeFails
    <3> QED
      BY <3>1 DEF Completed, Taken
  <2> QED
    BY <2>1, <2>2, <2>3, <2>4
<1>2. CASE SocketNext
  <2>1. UNCHANGED <<awaiting, taken, records>>
    BY <1>2 DEF SocketNext, AnswerResume, AdmitResume, AdmitPersist, AdmitFails, ServeAbort,
       ServeDeadline
  <2> QED
    BY <2>1 DEF Completed, Taken
<1>3. CASE HostDies
  BY <1>3, DeathLeaves DEF NoPublication
<1>4. CASE CallStep
  <2>1. UNCHANGED <<awaiting, taken>>
    BY <1>4, CallLeaves
  <2>2. CASE awaiting.request = NoRequest
    BY <2>1, <2>2
  <2>3. CASE awaiting.request # NoRequest
    <3>1. awaiting.request \in Requests /\ Taken(awaiting.request)
      BY <2>3 DEF PublicationTypeOK
    <3>2. records'[awaiting.request] = records[awaiting.request]
      BY <1>4, <3>1, TakenWasAccepted, CallRecords DEF Open
    <3> QED
      BY <2>1, <3>1, <3>2 DEF Completed, Taken
  <2> QED
    BY <2>2, <2>3
<1>5. CASE OutsideStep
  BY <1>5, OutsideLeaves DEF Completed, Taken
<1> QED
  BY <1>1, <1>2, <1>3, <1>4, <1>5, StepKinds

(* A disposition taken stays taken, and a recorded answer stays recorded.    *)
LEMMA TakenStays ==
  ASSUME TypeOK, AcceptedFits, TakenFits, UNCHANGED <<taken, consumed>>,
         \A q \in Requests : Completed(q) => Completed(q)',
         \A q \in Requests : awaiting.request = q =>
            awaiting'.request = q \/ Completed(q)' \/ pc' = "dead",
         pc = "dead" => pc' = "dead",
         pc' \in {"store", "waiting", "polling", "clear", "record"} => awaiting'.request = NoRequest
  PROVE  TakenFits'
<1>1. \A e \in Escalations : taken[e] \in Requests \cup {NoRequest}
  BY DEF AdmissionTypeOK
<1> QED
  BY <1>1 DEF TakenFits

(* Between taking a disposition and waiting again, its answer is recorded.   *)
LEMMA TakenFitsStep ==
  ASSUME TypeOK, Coherent, DraftFits, AdmissionFits, AcceptedFits, TakenFits, [Next]_vars
  PROVE  TakenFits'
<1> USE RequestsAssumption DEF TakenFits, AcceptedFits, Open, Sent, NoPublication, Completed,
        Complete, CanAdmit, AdmissionFits, AdmissionIsServed, DraftFits, IndexIsCurrent,
        MachineTypeOK, FlowPcs, Escalations, PublicationTypeOK, AdmissionTypeOK, FilesTypeOK,
        PublishesBundle
<1>1. CASE DriveNext
  <2>1. CASE Launch
    BY <2>1 DEF Launch
  <2>2. CASE DriveStep
    BY <2>2 DEF DriveStep, Escalate
  <2>3. CASE PrepareFails
    BY <2>3 DEF PrepareFails, Fault, FailedWrite
  <2>4. CASE DriveVerification
    BY <2>4 DEF DriveVerification, Escalate
  <2>5. CASE Dispatch
    BY <2>5 DEF Dispatch
  <2>6. CASE RecordFact
    BY <2>6 DEF RecordFact, Escalate
  <2>7. CASE FactFails
    BY <2>7 DEF FactFails, Fault, FailedWrite
  <2> QED
    BY <1>1, <2>1, <2>2, <2>3, <2>4, <2>5, <2>6, <2>7 DEF DriveNext
<1>2. CASE PublishNext
  <2>1. CASE CheckTermination
    BY <2>1 DEF CheckTermination, Terminate, HostResult
  <2>2. CASE CheckPause
    BY <2>2 DEF CheckPause
  <2>3. CASE SetPauseDeadline
    BY <2>3 DEF SetPauseDeadline
  <2>4. CASE CheckTerminal
    BY <2>4 DEF CheckTerminal
  <2>5. CASE BundleFails
    BY <2>5 DEF BundleFails, Fault, PublishesBundle
  <2>6. CASE Publish
    BY <2>6 DEF Publish
  <2>7. CASE PublishResponse
    BY <2>7 DEF PublishResponse
  <2>8. CASE PublishControl
    BY <2>8 DEF PublishControl, AfterPublication
  <2>9. CASE ResponseFails
    BY <2>9 DEF ResponseFails, PublicationFailed, Fault, FailedWrite
  <2>10. CASE ControlFails
    BY <2>10 DEF ControlFails, PublicationFailed, Fault, FailedWrite
  <2> QED
    BY <1>2, <2>1, <2>2, <2>3, <2>4, <2>5, <2>6, <2>7, <2>8, <2>9, <2>10 DEF PublishNext
<1>3. CASE PauseNext
  <2>1. CASE WaitTermination
    BY <2>1 DEF WaitTermination, Terminate, HostResult
  <2>2. CASE WaitPoll
    BY <2>2 DEF WaitPoll
  <2>3. CASE TakeDisposition
  <3>1. CASE taken' = taken /\ awaiting' = awaiting
    BY <2>3, <3>1, TakenStays DEF TakeDisposition
  <3>2. CASE pending # NoRequest /\ consumed[issued] = pending
    <4>1. issued \in Escalations /\ taken' = [taken EXCEPT ![issued] = consumed[issued]]
      BY <2>3, <3>2 DEF TakeDisposition
    <4>2. awaiting'.request = consumed[issued] /\ pc' = "apply" /\ UNCHANGED <<consumed, records>>
      BY <2>3, <3>2 DEF TakeDisposition
    <4>3. awaiting.request = NoRequest /\ pc # "dead"
      BY <2>3 DEF TakeDisposition
    <4> QED
      BY <4>1, <4>2, <4>3
  <3> QED
    BY <2>3, <3>1, <3>2 DEF TakeDisposition
  <2>4. CASE ApplyAbort
    BY <2>4 DEF ApplyAbort, Terminate, HostResult
  <2>5. CASE ApplyDisposition
    BY <2>5 DEF ApplyDisposition, Escalate
  <2> QED
    BY <1>3, <2>1, <2>2, <2>3, <2>4, <2>5 DEF PauseNext
<1>4. CASE FinishStep
  <2>1. CASE ClearJournal
    BY <2>1 DEF ClearJournal
  <2>2. CASE FinalizeRequest
    BY <2>2 DEF FinalizeRequest
  <2>3. CASE FinalizeFails
    BY <2>3 DEF FinalizeFails, Fault
  <2> QED
    BY <1>4, <2>1, <2>2, <2>3 DEF FinishStep
<1>5. CASE SocketNext
  <2>1. CASE AnswerResume
    BY <2>1 DEF AnswerResume, Reply, Serving
  <2>2. CASE AdmitResume
    BY <2>2 DEF AdmitResume, Serving
  <2>3. CASE AdmitPersist
    BY <2>3 DEF AdmitPersist, Reply
  <2>4. CASE AdmitFails
    BY <2>4 DEF AdmitFails, Reply, Fault, FailedWrite
  <2>5. CASE ServeAbort
    BY <2>5 DEF ServeAbort, Serving
  <2>6. CASE ServeDeadline
    BY <2>6 DEF ServeDeadline, Serving
  <2> QED
    BY <1>5, <2>1, <2>2, <2>3, <2>4, <2>5, <2>6 DEF SocketNext
<1>6. CASE HostDies
  BY <1>6, DeathLeaves
<1>7. CASE CallStep
  <2>1. UNCHANGED <<taken, consumed, awaiting, pc>>
    BY <1>7, CallLeaves
  <2>2. ASSUME NEW q \in Requests, Completed(q) PROVE Completed(q)'
    BY <1>7, <2>2, CallKeepsAnswers
  <2> QED
    BY <2>1, <2>2, TakenStays
<1>8. CASE OutsideStep
  BY <1>8, OutsideLeaves, TakenStays
<1> QED
  BY <1>1, <1>2, <1>3, <1>4, <1>5, <1>6, <1>7, <1>8, StepKinds

(* Connections keep fitting, in whatever order they arrive, are served, are  *)
(* given up by their clients and are recorded.                              *)
LEMMA InboxFitsStep ==
  ASSUME TypeOK, Coherent, AdmissionFits, InboxFits, RecordsFit, [Next]_vars
  PROVE  InboxFits'
<1> USE RequestsAssumption DEF Open, Sent
<1>1. CASE DriveNext \/ PublishNext \/ PauseNext \/ FinishStep
  <2>1. UNCHANGED <<inbox, resumeCall>>
    BY <1>1, FlowLeaves
  <2>2. ASSUME NEW q \in Requests, Open(q)
        PROVE  /\ records'[q].kind # "none" /\ records'[q].response # StaleError
               /\ records'[q].esc = records[q].esc
    BY <1>1, <2>2, FlowLeaves, AnswerWritten
  <2> QED
    BY <2>1, <2>2, QueueKept
<1>2. CASE SocketNext
  <2>1. CASE AdmitResume
    BY <2>1, QueueKept DEF AdmitResume
  <2>2. CASE AnswerResume \/ AdmitPersist \/ AdmitFails \/ ServeAbort \/ ServeDeadline
    <3>1. inbox # <<>> /\ inbox' = Tail(inbox) /\ UNCHANGED records /\ Head(inbox) = inbox[1]
      BY <2>2, ServedLeaves
      DEF AdmissionIsServed, AnswerResume, AdmitPersist, AdmitFails, ServeAbort, ServeDeadline,
          Reply, Serving
    <3>2. ASSUME NEW q \in Requests, ~(inbox[1].live /\ inbox[1].request = q)
          PROVE  resumeCall'[q] = resumeCall[q]
      BY <2>2, <3>1, <3>2
      DEF AdmissionTypeOK, AnswerResume, AdmitPersist, AdmitFails, ServeAbort, ServeDeadline, Reply
    <3> QED
      BY <3>1, <3>2, QueueServed
  <2> QED
    BY <1>2, <2>1, <2>2 DEF SocketNext
<1>3. CASE HostDies
  BY <1>3, DeathLeaves DEF InboxFits
<1>4. CASE CallStep
  <2>1. CASE SendAbort
    BY <2>1, QueueExtended DEF SendAbort, Abort, QueuedFits, InboxFits
  <2>2. ASSUME NEW r \in Requests, NEW e \in Escalations, RecordIntent(r, e)
        PROVE  InboxFits'
    BY <2>2, QueueKept DEF RecordIntent, NoRecord, FilesTypeOK
  <2>3. ASSUME NEW r \in Requests, SendResume(r)
        PROVE  InboxFits'
    <3> DEFINE m == Resume(r, records[r].esc)
    <3>1. m.kind = "resume" /\ m.request = r /\ m.esc = records[r].esc
      BY DEF Resume
    <3>2. /\ inbox' = Append(inbox, m) /\ UNCHANGED records
          /\ resumeCall'[r] = "sent" /\ resumeCall[r] = "idle"
          /\ records[r].kind = "intent"
          /\ \A q \in Requests : q # r => resumeCall'[q] = resumeCall[q]
      BY <2>3 DEF SendResume, AdmissionTypeOK
    <3>3. QueuedFits(m, records', resumeCall')
      BY <3>1, <3>2 DEF QueuedFits, RecordsFit, Completed, NoResult, StaleError
    <3>4. ASSUME NEW i \in DOMAIN inbox, inbox[i].live
          PROVE  inbox[i].request # r
      BY <3>2, <3>4 DEF InboxFits
    <3>5. \A q \in Requests : q # m.request => resumeCall'[q] = resumeCall[q]
      BY <3>1, <3>2
    <3> HIDE DEF m
    <3> QED
      BY <3>1, <3>2, <3>3, <3>4, <3>5, QueueExtended
  <2>4. ASSUME NEW r \in Requests, Abandon(r)
        PROVE  InboxFits'
    <3>1. UNCHANGED records /\ resumeCall' = [resumeCall EXCEPT ![r] = "idle"]
      BY <2>4 DEF Abandon
    <3> QED
      BY <2>4, <3>1, AbandonLeaves DEF InboxFits, QueuedFits, AdmissionTypeOK
  <2>5. ASSUME NEW r \in Requests, RecoverResume(r) \/ PersistResumeError(r)
        PROVE  InboxFits'
    BY <2>5, QueueKept DEF RecoverResume, PersistResumeError, FilesTypeOK, AdmissionTypeOK
  <2> QED
    BY <1>4, <2>1, <2>2, <2>3, <2>4, <2>5 DEF CallStep, ResumeNext
<1>5. CASE OutsideStep
  <2>1. UNCHANGED <<records, resumeCall>>
    BY <1>5, OutsideLeaves
  <2>2. CASE UNCHANGED inbox
    BY <2>1, <2>2, QueueKept
  <2>3. CASE inbox' = Append(inbox, Deadline)
    BY <2>1, <2>3, QueueExtended DEF Deadline, QueuedFits, InboxFits
  <2> QED
    BY <1>5, <2>2, <2>3, OutsideLeaves
<1> QED
  BY <1>1, <1>2, <1>3, <1>4, <1>5, StepKinds

(* As long as no write failed, the file bounds the pauses it shows.           *)
LEMMA PauseShownStep ==
  ASSUME TypeOK, Coherent, DraftFits, DrivenOnAnswered, AdmissionFits, PauseShown, [Next]_vars
  PROVE  PauseShown'
<1> USE SizesAssumption DEF PauseShown, PauseIsBounded, DraftFits, DrivenOnAnswered, DrivenOn,
        FreshPause, AdmissionFits, CanAdmit, PausedAt, DraftIsPublished, MachineTypeOK,
        PublicationTypeOK, AdmissionTypeOK, FilesTypeOK, Controls, FlowPcs, Terminal
<1>1. CASE DriveNext
  <2>1. CASE Launch
    BY <2>1 DEF Launch
  <2>2. CASE DriveStep
    BY <2>2 DEF DriveStep, Escalate
  <2>3. CASE PrepareFails
    BY <2>3 DEF PrepareFails, Fault, FailedWrite
  <2>4. CASE DriveVerification
    BY <2>4 DEF DriveVerification, Escalate
  <2>5. CASE Dispatch
    BY <2>5 DEF Dispatch
  <2>6. CASE RecordFact
    BY <2>6 DEF RecordFact, Escalate
  <2>7. CASE FactFails
    BY <2>7 DEF FactFails, Fault, FailedWrite
  <2> QED
    BY <1>1, <2>1, <2>2, <2>3, <2>4, <2>5, <2>6, <2>7 DEF DriveNext
<1>2. CASE PublishNext
  <2>1. CASE CheckTermination
    BY <2>1 DEF CheckTermination, Terminate, HostResult
  <2>2. CASE CheckPause
    BY <2>2 DEF CheckPause
  <2>3. CASE SetPauseDeadline
    BY <2>3 DEF SetPauseDeadline
  <2>4. CASE CheckTerminal
    BY <2>4 DEF CheckTerminal
  <2>5. CASE BundleFails
    BY <2>5 DEF BundleFails, Fault, PublishesBundle
  <2>6. CASE Publish
    BY <2>6 DEF Publish
  <2>7. CASE PublishResponse
    BY <2>7 DEF PublishResponse
  <2>8. CASE PublishControl
    BY <2>8 DEF PublishControl, AfterPublication
  <2>9. CASE ResponseFails
    BY <2>9 DEF ResponseFails, PublicationFailed, Fault, FailedWrite
  <2>10. CASE ControlFails
    BY <2>10 DEF ControlFails, PublicationFailed, Fault, FailedWrite
  <2> QED
    BY <1>2, <2>1, <2>2, <2>3, <2>4, <2>5, <2>6, <2>7, <2>8, <2>9, <2>10 DEF PublishNext
<1>3. CASE PauseNext
  <2>1. CASE WaitTermination
    BY <2>1 DEF WaitTermination, Terminate, HostResult
  <2>2. CASE WaitPoll
    BY <2>2 DEF WaitPoll
  <2>3. CASE TakeDisposition
    BY <2>3 DEF TakeDisposition
  <2>4. CASE ApplyAbort
    BY <2>4 DEF ApplyAbort, Terminate, HostResult
  <2>5. CASE ApplyDisposition
    BY <2>5 DEF ApplyDisposition, Escalate
  <2> QED
    BY <1>3, <2>1, <2>2, <2>3, <2>4, <2>5 DEF PauseNext
<1>4. CASE FinishStep
  <2>1. CASE ClearJournal
    BY <2>1 DEF ClearJournal
  <2>2. CASE FinalizeRequest
    BY <2>2 DEF FinalizeRequest
  <2>3. CASE FinalizeFails
    BY <2>3 DEF FinalizeFails, Fault
  <2> QED
    BY <1>4, <2>1, <2>2, <2>3 DEF FinishStep
<1>5. CASE SocketNext
  <2>1. CASE AnswerResume
    BY <2>1 DEF AnswerResume, Reply, Serving
  <2>2. CASE AdmitResume
    BY <2>2 DEF AdmitResume, Serving
  <2>3. CASE AdmitPersist
    BY <2>3 DEF AdmitPersist, Reply
  <2>4. CASE AdmitFails
    BY <2>4 DEF AdmitFails, Reply, Fault, FailedWrite
  <2>5. CASE ServeAbort
    BY <2>5 DEF ServeAbort, Serving
  <2>6. CASE ServeDeadline
    BY <2>6 DEF ServeDeadline, Serving
  <2> QED
    BY <1>5, <2>1, <2>2, <2>3, <2>4, <2>5, <2>6 DEF SocketNext
<1>6. CASE HostDies
  BY <1>6, DeathLeaves
<1>7. CASE CallStep
  BY <1>7, CallLeaves
<1>8. CASE OutsideStep
  BY <1>8, OutsideLeaves, ReconciledControl
<1> QED
  BY <1>1, <1>2, <1>3, <1>4, <1>5, <1>6, <1>7, <1>8, StepKinds

(* As long as no write failed, the journal shows what was dispatched.        *)
LEMMA DispatchShownStep ==
  ASSUME TypeOK, Coherent, DispatchShown, [Next]_vars
  PROVE  DispatchShown'
<1> USE SizesAssumption DEF DispatchShown, DraftIsPublished, MachineTypeOK, PublicationTypeOK,
        SignalTypeOK, FilesTypeOK, FlowPcs, Terminal
<1>1. CASE DriveNext
  <2>1. CASE Launch
    BY <2>1 DEF Launch
  <2>2. CASE DriveStep
    BY <2>2 DEF DriveStep, Escalate
  <2>3. CASE PrepareFails
    BY <2>3 DEF PrepareFails, Fault, FailedWrite
  <2>4. CASE DriveVerification
    BY <2>4 DEF DriveVerification, Escalate
  <2>5. CASE Dispatch
    BY <2>5 DEF Dispatch
  <2>6. CASE RecordFact
    BY <2>6 DEF RecordFact, Escalate
  <2>7. CASE FactFails
    BY <2>7 DEF FactFails, Fault, FailedWrite
  <2> QED
    BY <1>1, <2>1, <2>2, <2>3, <2>4, <2>5, <2>6, <2>7 DEF DriveNext
<1>2. CASE PublishNext
  <2>1. CASE CheckTermination
    BY <2>1 DEF CheckTermination, Terminate, HostResult
  <2>2. CASE CheckPause
    BY <2>2 DEF CheckPause
  <2>3. CASE SetPauseDeadline
    BY <2>3 DEF SetPauseDeadline
  <2>4. CASE CheckTerminal
    BY <2>4 DEF CheckTerminal
  <2>5. CASE BundleFails
    BY <2>5 DEF BundleFails, Fault, PublishesBundle
  <2>6. CASE Publish
    BY <2>6 DEF Publish
  <2>7. CASE PublishResponse
    BY <2>7 DEF PublishResponse
  <2>8. CASE PublishControl
    BY <2>8 DEF PublishControl, AfterPublication
  <2>9. CASE ResponseFails
    BY <2>9 DEF ResponseFails, PublicationFailed, Fault, FailedWrite
  <2>10. CASE ControlFails
    BY <2>10 DEF ControlFails, PublicationFailed, Fault, FailedWrite
  <2> QED
    BY <1>2, <2>1, <2>2, <2>3, <2>4, <2>5, <2>6, <2>7, <2>8, <2>9, <2>10 DEF PublishNext
<1>3. CASE PauseNext
  <2>1. CASE WaitTermination
    BY <2>1 DEF WaitTermination, Terminate, HostResult
  <2>2. CASE WaitPoll
    BY <2>2 DEF WaitPoll
  <2>3. CASE TakeDisposition
    BY <2>3 DEF TakeDisposition
  <2>4. CASE ApplyAbort
    BY <2>4 DEF ApplyAbort, Terminate, HostResult
  <2>5. CASE ApplyDisposition
    BY <2>5 DEF ApplyDisposition, Escalate
  <2> QED
    BY <1>3, <2>1, <2>2, <2>3, <2>4, <2>5 DEF PauseNext
<1>4. CASE FinishStep
  <2>1. CASE ClearJournal
    BY <2>1 DEF ClearJournal
  <2>2. CASE FinalizeRequest
    BY <2>2 DEF FinalizeRequest
  <2>3. CASE FinalizeFails
    BY <2>3 DEF FinalizeFails, Fault
  <2> QED
    BY <1>4, <2>1, <2>2, <2>3 DEF FinishStep
<1>5. CASE SocketNext
  <2>1. CASE AnswerResume
    BY <2>1 DEF AnswerResume, Reply, Serving
  <2>2. CASE AdmitResume
    BY <2>2 DEF AdmitResume, Serving
  <2>3. CASE AdmitPersist
    BY <2>3 DEF AdmitPersist, Reply
  <2>4. CASE AdmitFails
    BY <2>4 DEF AdmitFails, Reply, Fault, FailedWrite
  <2>5. CASE ServeAbort
    BY <2>5 DEF ServeAbort, Serving
  <2>6. CASE ServeDeadline
    BY <2>6 DEF ServeDeadline, Serving
  <2> QED
    BY <1>5, <2>1, <2>2, <2>3, <2>4, <2>5, <2>6 DEF SocketNext
<1>6. CASE HostDies
  BY <1>6, DeathLeaves
<1>7. CASE CallStep
  BY <1>7, CallLeaves DEF hostVars
<1>8. CASE OutsideStep
  <2>1. UNCHANGED <<pc, inflight, journal>>
    BY <1>8, OutsideLeaves
  <2>2. faults' = 0 => faults = 0
    BY <1>8, OutsideLeaves, ReconciledControl DEF StoreTypeOK
  <2>3. control'.result = control.result \/ control'.result.action = UnresolvedAction
    BY <1>8, OutsideLeaves, ReconciledControl
  <2> QED
    BY <2>1, <2>2, <2>3 DEF UnresolvedAction
<1> QED
  BY <1>1, <1>2, <1>3, <1>4, <1>5, <1>6, <1>7, <1>8, StepKinds


(* As long as no write failed, the file keeps up with the memory.             *)
LEMMA MemoryShownStep ==
  ASSUME TypeOK, Coherent, DraftFits, DrivenOnAnswered, MemoryShown, [Next]_vars
  PROVE  MemoryShown'
<1> USE SizesAssumption DEF MemoryShown, AdmissionIsServed, DraftFits, DrivenOnAnswered,
        DrivenOn, DraftIsPublished, IndexIsCurrent, MachineTypeOK, PublicationTypeOK,
        AdmissionTypeOK, FilesTypeOK, Controls, FlowPcs, Terminal, Paused, InitialControl
<1>1. CASE DriveNext
  <2>1. CASE Launch
    BY <2>1 DEF Launch
  <2>2. CASE DriveStep
    BY <2>2 DEF DriveStep, Escalate
  <2>3. CASE PrepareFails
    BY <2>3 DEF PrepareFails, Fault, FailedWrite
  <2>4. CASE DriveVerification
    BY <2>4 DEF DriveVerification, Escalate
  <2>5. CASE Dispatch
    BY <2>5 DEF Dispatch
  <2>6. CASE RecordFact
    BY <2>6 DEF RecordFact, Escalate
  <2>7. CASE FactFails
    BY <2>7 DEF FactFails, Fault, FailedWrite
  <2> QED
    BY <1>1, <2>1, <2>2, <2>3, <2>4, <2>5, <2>6, <2>7 DEF DriveNext
<1>2. CASE PublishNext
  <2>1. CASE CheckTermination
    BY <2>1 DEF CheckTermination, Terminate, HostResult
  <2>2. CASE CheckPause
    BY <2>2 DEF CheckPause
  <2>3. CASE SetPauseDeadline
    BY <2>3 DEF SetPauseDeadline
  <2>4. CASE CheckTerminal
    BY <2>4 DEF CheckTerminal
  <2>5. CASE BundleFails
    BY <2>5 DEF BundleFails, Fault, PublishesBundle
  <2>6. CASE Publish
    BY <2>6 DEF Publish
  <2>7. CASE PublishResponse
    BY <2>7 DEF PublishResponse
  <2>8. CASE PublishControl
    BY <2>8 DEF PublishControl, AfterPublication
  <2>9. CASE ResponseFails
    BY <2>9 DEF ResponseFails, PublicationFailed, Fault, FailedWrite
  <2>10. CASE ControlFails
    BY <2>10 DEF ControlFails, PublicationFailed, Fault, FailedWrite
  <2> QED
    BY <1>2, <2>1, <2>2, <2>3, <2>4, <2>5, <2>6, <2>7, <2>8, <2>9, <2>10 DEF PublishNext
<1>3. CASE PauseNext
  <2>1. CASE WaitTermination
    BY <2>1 DEF WaitTermination, Terminate, HostResult
  <2>2. CASE WaitPoll
    BY <2>2 DEF WaitPoll
  <2>3. CASE TakeDisposition
    BY <2>3 DEF TakeDisposition
  <2>4. CASE ApplyAbort
    BY <2>4 DEF ApplyAbort, Terminate, HostResult
  <2>5. CASE ApplyDisposition
    BY <2>5 DEF ApplyDisposition, Escalate
  <2> QED
    BY <1>3, <2>1, <2>2, <2>3, <2>4, <2>5 DEF PauseNext
<1>4. CASE FinishStep
  <2>1. CASE ClearJournal
    BY <2>1 DEF ClearJournal
  <2>2. CASE FinalizeRequest
    BY <2>2 DEF FinalizeRequest
  <2>3. CASE FinalizeFails
    BY <2>3 DEF FinalizeFails, Fault
  <2> QED
    BY <1>4, <2>1, <2>2, <2>3 DEF FinishStep
<1>5. CASE SocketNext
  <2>1. CASE AnswerResume
    BY <2>1 DEF AnswerResume, Reply, Serving
  <2>2. CASE AdmitResume
    BY <2>2 DEF AdmitResume, Serving
  <2>3. CASE AdmitPersist
    BY <2>3 DEF AdmitPersist, Reply
  <2>4. CASE AdmitFails
    BY <2>4 DEF AdmitFails, Reply, Fault, FailedWrite
  <2>5. CASE ServeAbort
    BY <2>5 DEF ServeAbort, Serving
  <2>6. CASE ServeDeadline
    BY <2>6 DEF ServeDeadline, Serving
  <2> QED
    BY <1>5, <2>1, <2>2, <2>3, <2>4, <2>5, <2>6 DEF SocketNext
<1>6. CASE HostDies
  BY <1>6, DeathLeaves
<1>7. CASE CallStep
  BY <1>7, CallLeaves
<1>8. CASE OutsideStep
  BY <1>8, OutsideLeaves, ReconciledControl
<1> QED
  BY <1>1, <1>2, <1>3, <1>4, <1>5, <1>6, <1>7, <1>8, StepKinds

(* Failed writes or not, an input is traced in the journal.                  *)
LEMMA DispatchTracedStep ==
  ASSUME TypeOK, Coherent, DispatchShown, DispatchTraced, [Next]_vars
  PROVE  DispatchTraced'
<1> USE SizesAssumption DEF DispatchShown, DispatchTraced, Stopping, UnresolvedAction, Publishing,
        IndexIsCurrent, StoreTypeOK, DraftIsPublished, MachineTypeOK, PublicationTypeOK,
        SignalTypeOK, FilesTypeOK, FlowPcs, Terminal
<1>1. CASE DriveNext
  <2>1. CASE Launch
    BY <2>1 DEF Launch
  <2>2. CASE DriveStep
    BY <2>2 DEF DriveStep, Escalate
  <2>3. CASE PrepareFails
    BY <2>3 DEF PrepareFails, Fault, FailedWrite
  <2>4. CASE DriveVerification
    BY <2>4 DEF DriveVerification, Escalate
  <2>5. CASE Dispatch
    BY <2>5 DEF Dispatch
  <2>6. CASE RecordFact
    BY <2>6 DEF RecordFact, Escalate
  <2>7. CASE FactFails
    BY <2>7 DEF FactFails, Fault, FailedWrite
  <2> QED
    BY <1>1, <2>1, <2>2, <2>3, <2>4, <2>5, <2>6, <2>7 DEF DriveNext
<1>2. CASE PublishNext
  <2>1. CASE CheckTermination
    BY <2>1 DEF CheckTermination, Terminate, HostResult
  <2>2. CASE CheckPause
    BY <2>2 DEF CheckPause
  <2>3. CASE SetPauseDeadline
    BY <2>3 DEF SetPauseDeadline
  <2>4. CASE CheckTerminal
    BY <2>4 DEF CheckTerminal
  <2>5. CASE BundleFails
    BY <2>5 DEF BundleFails, Fault, PublishesBundle
  <2>6. CASE Publish
    BY <2>6 DEF Publish
  <2>7. CASE PublishResponse
    BY <2>7 DEF PublishResponse
  <2>8. CASE PublishControl
    BY <2>8 DEF PublishControl, AfterPublication
  <2>9. CASE ResponseFails
    BY <2>9 DEF ResponseFails, PublicationFailed, Fault, FailedWrite
  <2>10. CASE ControlFails
    BY <2>10 DEF ControlFails, PublicationFailed, Fault, FailedWrite
  <2> QED
    BY <1>2, <2>1, <2>2, <2>3, <2>4, <2>5, <2>6, <2>7, <2>8, <2>9, <2>10 DEF PublishNext
<1>3. CASE PauseNext
  <2>1. CASE WaitTermination
    BY <2>1 DEF WaitTermination, Terminate, HostResult
  <2>2. CASE WaitPoll
    BY <2>2 DEF WaitPoll
  <2>3. CASE TakeDisposition
    BY <2>3 DEF TakeDisposition
  <2>4. CASE ApplyAbort
    BY <2>4 DEF ApplyAbort, Terminate, HostResult
  <2>5. CASE ApplyDisposition
    BY <2>5 DEF ApplyDisposition, Escalate
  <2> QED
    BY <1>3, <2>1, <2>2, <2>3, <2>4, <2>5 DEF PauseNext
<1>4. CASE FinishStep
  <2>1. CASE ClearJournal
    BY <2>1 DEF ClearJournal
  <2>2. CASE FinalizeRequest
    BY <2>2 DEF FinalizeRequest
  <2>3. CASE FinalizeFails
    BY <2>3 DEF FinalizeFails, Fault
  <2> QED
    BY <1>4, <2>1, <2>2, <2>3 DEF FinishStep
<1>5. CASE SocketNext
  <2>1. CASE AnswerResume
    BY <2>1 DEF AnswerResume, Reply, Serving
  <2>2. CASE AdmitResume
    BY <2>2 DEF AdmitResume, Serving
  <2>3. CASE AdmitPersist
    BY <2>3 DEF AdmitPersist, Reply
  <2>4. CASE AdmitFails
    BY <2>4 DEF AdmitFails, Reply, Fault, FailedWrite
  <2>5. CASE ServeAbort
    BY <2>5 DEF ServeAbort, Serving
  <2>6. CASE ServeDeadline
    BY <2>6 DEF ServeDeadline, Serving
  <2> QED
    BY <1>5, <2>1, <2>2, <2>3, <2>4, <2>5, <2>6 DEF SocketNext
<1>6. CASE HostDies
  BY <1>6, DeathLeaves
<1>7. CASE CallStep
  BY <1>7, CallLeaves DEF hostVars
<1>8. CASE OutsideStep
  <2>1. UNCHANGED <<pc, stop, next, inflight, journal>>
    BY <1>8, OutsideLeaves
  <2>2. faults > 0 => faults' > 0
    <3>1. CASE UNCHANGED faults
      BY <3>1
    <3>2. CASE Reconciles
      BY <3>2 DEF Reconciles, ReconcileDeadHost, ReconcileFails, PublishHostLoss, Fault
    <3> QED
      BY <1>8, <3>1, <3>2, OutsideLeaves
  <2>3. control'.result = control.result \/ control'.result.action = UnresolvedAction
    BY <1>8, OutsideLeaves, ReconciledControl
  <2> QED
    BY <2>1, <2>2, <2>3 DEF UnresolvedAction
<1> QED
  BY <1>1, <1>2, <1>3, <1>4, <1>5, <1>6, <1>7, <1>8, StepKinds



(* Failed writes or not, no answered pause has a deadline.                   *)
LEMMA SuspensionKeptStep ==
  ASSUME TypeOK, Coherent, DraftFits, DrivenOnAnswered, AdmissionFits, SuspensionKept, [Next]_vars
  PROVE  SuspensionKept'
<1> USE SizesAssumption DEF SuspensionKept, AnsweredUnbounded, DraftFits, DrivenOnAnswered, DrivenOn,
        FreshPause, AdmissionFits, CanAdmit, PausedAt, DraftIsPublished, MachineTypeOK,
        PublicationTypeOK, AdmissionTypeOK, FilesTypeOK, Controls, FlowPcs, Terminal
<1>1. CASE DriveNext
  <2>1. CASE Launch
    BY <2>1 DEF Launch
  <2>2. CASE DriveStep
    BY <2>2 DEF DriveStep, Escalate
  <2>3. CASE PrepareFails
    BY <2>3 DEF PrepareFails, Fault, FailedWrite
  <2>4. CASE DriveVerification
    BY <2>4 DEF DriveVerification, Escalate
  <2>5. CASE Dispatch
    BY <2>5 DEF Dispatch
  <2>6. CASE RecordFact
    BY <2>6 DEF RecordFact, Escalate
  <2>7. CASE FactFails
    BY <2>7 DEF FactFails, Fault, FailedWrite
  <2> QED
    BY <1>1, <2>1, <2>2, <2>3, <2>4, <2>5, <2>6, <2>7 DEF DriveNext
<1>2. CASE PublishNext
  <2>1. CASE CheckTermination
    BY <2>1 DEF CheckTermination, Terminate, HostResult
  <2>2. CASE CheckPause
    BY <2>2 DEF CheckPause
  <2>3. CASE SetPauseDeadline
    BY <2>3 DEF SetPauseDeadline
  <2>4. CASE CheckTerminal
    BY <2>4 DEF CheckTerminal
  <2>5. CASE BundleFails
    BY <2>5 DEF BundleFails, Fault, PublishesBundle
  <2>6. CASE Publish
    BY <2>6 DEF Publish
  <2>7. CASE PublishResponse
    BY <2>7 DEF PublishResponse
  <2>8. CASE PublishControl
    BY <2>8 DEF PublishControl, AfterPublication
  <2>9. CASE ResponseFails
    BY <2>9 DEF ResponseFails, PublicationFailed, Fault, FailedWrite
  <2>10. CASE ControlFails
    BY <2>10 DEF ControlFails, PublicationFailed, Fault, FailedWrite
  <2> QED
    BY <1>2, <2>1, <2>2, <2>3, <2>4, <2>5, <2>6, <2>7, <2>8, <2>9, <2>10 DEF PublishNext
<1>3. CASE PauseNext
  <2>1. CASE WaitTermination
    BY <2>1 DEF WaitTermination, Terminate, HostResult
  <2>2. CASE WaitPoll
    BY <2>2 DEF WaitPoll
  <2>3. CASE TakeDisposition
    BY <2>3 DEF TakeDisposition
  <2>4. CASE ApplyAbort
    BY <2>4 DEF ApplyAbort, Terminate, HostResult
  <2>5. CASE ApplyDisposition
    BY <2>5 DEF ApplyDisposition, Escalate
  <2> QED
    BY <1>3, <2>1, <2>2, <2>3, <2>4, <2>5 DEF PauseNext
<1>4. CASE FinishStep
  <2>1. CASE ClearJournal
    BY <2>1 DEF ClearJournal
  <2>2. CASE FinalizeRequest
    BY <2>2 DEF FinalizeRequest
  <2>3. CASE FinalizeFails
    BY <2>3 DEF FinalizeFails, Fault
  <2> QED
    BY <1>4, <2>1, <2>2, <2>3 DEF FinishStep
<1>5. CASE SocketNext
  <2>1. CASE AnswerResume
    BY <2>1 DEF AnswerResume, Reply, Serving
  <2>2. CASE AdmitResume
    BY <2>2 DEF AdmitResume, Serving
  <2>3. CASE AdmitPersist
    BY <2>3 DEF AdmitPersist, Reply
  <2>4. CASE AdmitFails
    BY <2>4 DEF AdmitFails, Reply, Fault, FailedWrite
  <2>5. CASE ServeAbort
    BY <2>5 DEF ServeAbort, Serving
  <2>6. CASE ServeDeadline
    BY <2>6 DEF ServeDeadline, Serving
  <2> QED
    BY <1>5, <2>1, <2>2, <2>3, <2>4, <2>5, <2>6 DEF SocketNext
<1>6. CASE HostDies
  BY <1>6, DeathLeaves DEF InitialControl, RunningResult, HostResult
<1>7. CASE CallStep
  BY <1>7, CallLeaves
<1>8. CASE OutsideStep
  BY <1>8, OutsideLeaves, ReconciledControl
<1> QED
  BY <1>1, <1>2, <1>3, <1>4, <1>5, <1>6, <1>7, <1>8, StepKinds
-----------------------------------------------------------------------------
(* The invariant.                                                            *)

(* It holds when the host starts.                                            *)
LEMMA ResumeInit == ASSUME Init PROVE ResumeInv
<1> USE DEF Init, StoreInit, HostInit, WatchdogInit, ClientInit
<1>1. DraftFits /\ IssuedFirst /\ DrivenOnAnswered /\ AdmissionFits
  BY DEF DraftFits, IssuedFirst, DrivenOnAnswered, DrivenOn, FreshPause, AdmissionFits, Paused,
     PausedAt, InitialControl, RunningResult, HostResult
<1>2. InboxFits /\ AcceptedFits /\ PendingFits /\ AwaitingFits
  BY DEF InboxFits, AcceptedFits, PendingFits, AwaitingFits, NoPublication
<1>3. RecordsFit /\ TakenFits
  BY DEF RecordsFit, TakenFits, Completed, Sent, NoRecord, NoPublication
<1>4. PauseShown /\ DispatchShown /\ MemoryShown
  BY DEF PauseShown, PauseIsBounded, DispatchShown, MemoryShown, PausedAt, InitialControl, RunningResult,
     HostResult
<1>5. DispatchTraced /\ SuspensionKept
  BY DEF DispatchTraced, SuspensionKept, AnsweredUnbounded, PausedAt, InitialControl, RunningResult,
     HostResult
<1> QED
  BY <1>1, <1>2, <1>3, <1>4, <1>5 DEF ResumeInv

(* Every step preserves it.                                                  *)
LEMMA ResumeStep ==
  ASSUME TypeOK, Coherent, ResumeInv, [Next]_vars
  PROVE  ResumeInv'
<1> USE DEF ResumeInv
<1> HIDE DEF TypeOK, Coherent, vars
<1>1. DraftFits' /\ IssuedFirst' /\ DrivenOnAnswered' /\ AdmissionFits'
  BY DraftFitsStep, IssuedFirstStep, DrivenOnStep, AdmissionFitsStep
<1>2. InboxFits' /\ AcceptedFits' /\ RecordsFit'
  BY InboxFitsStep, AcceptedFitsStep, RecordsFitStep
<1>3. PendingFits' /\ AwaitingFits' /\ TakenFits'
  BY PendingFitsStep, AwaitingFitsStep, TakenFitsStep
<1>4. PauseShown' /\ DispatchShown' /\ MemoryShown'
  BY PauseShownStep, DispatchShownStep, MemoryShownStep
<1>5. DispatchTraced' /\ SuspensionKept'
  BY DispatchTracedStep, SuspensionKeptStep
<1> QED
  BY <1>1, <1>2, <1>3, <1>4, <1>5

(* In every interleaving.                                                    *)
LEMMA ResumeInvariance == Spec => [](TypeOK /\ Coherent /\ ResumeInv)
<1> HIDE DEF TypeOK, Coherent, vars
<1>1. Init => ResumeInv
  BY ResumeInit
<1>2. TypeOK /\ Coherent /\ ResumeInv /\ [Next]_vars => ResumeInv'
  BY ResumeStep
<1> QED
  BY <1>1, <1>2, Invariance, PTL DEF Spec

-----------------------------------------------------------------------------
(* The flow acts on the disposition that was accepted for its escalation,    *)
(* and never waits again, nor returns for good, before the answer of that    *)
(* disposition is recorded: also when the write of the answer failed and a   *)
(* later checkpoint repeats it.                                              *)
THEOREM TakenIsAlwaysAnswered == Spec => []TakenIsAnswered
<1>1. TypeOK /\ Coherent /\ ResumeInv => TakenIsAnswered
  BY DEF ResumeInv, TakenFits, TakenIsAnswered, AdmissionTypeOK
<1> HIDE DEF TypeOK, Coherent
<1> QED
  BY <1>1, ResumeInvariance, PTL

(* What is recorded for a resume request agrees with its admission: a result *)
(* only if the host accepted it, a stale answer only if it never did.        *)
THEOREM AnswersAreAlwaysFaithful == Spec => []AnswersAreFaithful
<1>1. TypeOK /\ Coherent /\ ResumeInv => AnswersAreFaithful
  <2>1. ASSUME TypeOK, Coherent, ResumeInv, NEW r \in Requests, Completed(r)
        PROVE  records[r].response = StaleError <=> ~Accepted(r)
    <3>1. CASE records[r].response = StaleError
      BY <2>1, <3>1, RequestsAssumption DEF ResumeInv, AcceptedFits, Accepted, Open
    <3>2. CASE records[r].response # StaleError
      BY <2>1, <3>2, TakenWasAccepted DEF ResumeInv, RecordsFit
    <3> QED
      BY <3>1, <3>2
  <2> QED
    BY <2>1 DEF AnswersAreFaithful
<1> HIDE DEF TypeOK, Coherent
<1> QED
  BY <1>1, ResumeInvariance, PTL

(* Every pause the watchdog reads of has a deadline exactly until its        *)
(* disposition is accepted, as long as no durable write has failed.  Failed  *)
(* writes are excluded because the code gives no more: AdmitFails may leave  *)
(* the cleared deadline of an unanswered pause in the file.                  *)
THEOREM PauseIsAlwaysBounded == Spec => [](NoWriteFailed => PauseIsBounded)
<1>1. ResumeInv => (NoWriteFailed => PauseIsBounded)
  BY DEF ResumeInv, PauseShown, NoWriteFailed
<1> HIDE DEF TypeOK, Coherent
<1> QED
  BY <1>1, ResumeInvariance, PTL

(* A reconciled run whose host died between an input and its journaled fact  *)
(* is reported with an uncertain action, as long as no durable write has     *)
(* failed.  After FactFails the stop that follows clears the journal: what   *)
(* JournalCleared.cfg shows.                                                 *)
THEOREM CrashWindowIsAlwaysHonest == Spec => [](NoWriteFailed => CrashWindowIsHonest)
<1>1. ResumeInv => (NoWriteFailed => CrashWindowIsHonest)
  BY DEF ResumeInv, DispatchShown, CrashWindowIsHonest, NoWriteFailed
<1> HIDE DEF TypeOK, Coherent
<1> QED
  BY <1>1, ResumeInvariance, PTL

(* Failed writes included: a run whose host died between an input and its    *)
(* journaled fact is reported with an uncertain action, unless the fact's    *)
(* write failed and the stop that followed cleared the journal               *)
(* (publish_active_hosted_stop, finish_hosted_terminal).  No other way leads *)
(* to what JournalCleared.cfg shows.                                         *)
THEOREM OnlyClearingEverForgets == Spec => []OnlyClearingForgets
<1>1. ResumeInv => OnlyClearingForgets
  BY DEF ResumeInv, DispatchTraced, OnlyClearingForgets, UnresolvedAction
<1> HIDE DEF TypeOK, Coherent
<1> QED
  BY <1>1, ResumeInvariance, PTL

(* Failed writes included: once the disposition of a pause was accepted, the *)
(* control file that the watchdog polls has no deadline for that pause.      *)
THEOREM AnsweredPausesAreUnbounded == Spec => []AnsweredPauseIsUnbounded
<1>1. ResumeInv => AnsweredPauseIsUnbounded
  BY DEF ResumeInv, SuspensionKept, AnsweredUnbounded, AnsweredPauseIsUnbounded
<1> HIDE DEF TypeOK, Coherent
<1> QED
  BY <1>1, ResumeInvariance, PTL

-----------------------------------------------------------------------------
(* What is final.                                                            *)

(* A complete record is made of its escalation and its answer.               *)
LEMMA CompleteRecord ==
  ASSUME TypeOK, NEW q \in Requests, Completed(q)
  PROVE  records[q] = Complete(records[q].esc, records[q].response)
  BY DEF FilesTypeOK, Records, Completed, Complete

(* An answer once recorded is only ever written again as it is: by the       *)
(* checkpoint that repeats it after its first write was reported as failed.  *)
LEMMA AnswersStay ==
  ASSUME TypeOK, Coherent, ResumeInv, [Next]_vars, NEW q \in Requests, Completed(q)
  PROVE  records'[q] = records[q]
<1> USE DEF ResumeInv
<1>1. CASE DriveNext \/ PublishNext \/ PauseNext \/ FinishStep
  <2>1. CASE UNCHANGED records
    BY <2>1
  <2>2. CASE PublishResponse \/ ResponseFails
    <3>1. q = awaiting.request => FrozenResponse = records[q].response
      BY RequestsAssumption DEF AwaitingFits, RecordsFit, FrozenResponse
    <3>2. q = awaiting.request => Complete(records[q].esc, FrozenResponse) = records[q]
      BY <3>1, CompleteRecord
    <3>3. CASE PublishResponse
      BY <3>2, <3>3, RequestsAssumption DEF PublishResponse, FilesTypeOK
    <3>4. CASE ResponseFails
      BY <3>2, <3>4, RequestsAssumption DEF ResponseFails, FailedWrite, FilesTypeOK
    <3> QED
      BY <2>2, <3>3, <3>4
  <2> QED
    BY <1>1, <2>1, <2>2, FlowLeaves
<1>2. CASE SocketNext
  BY <1>2 DEF SocketNext, AnswerResume, AdmitResume, AdmitPersist, AdmitFails, ServeAbort,
     ServeDeadline
<1>3. CASE HostDies
  BY <1>3, DeathLeaves
<1>4. CASE CallStep
  BY <1>4, CallRecords DEF RecordsFit, Completed
<1>5. CASE OutsideStep
  BY <1>5, OutsideLeaves
<1> QED
  BY <1>1, <1>2, <1>3, <1>4, <1>5, StepKinds

(* Whoever was accepted for an escalation stays so.                          *)
LEMMA DispositionsStay ==
  ASSUME TypeOK, Coherent, ResumeInv, [Next]_vars, NEW e \in Escalations,
         consumed[e] # NoRequest
  PROVE  consumed'[e] = consumed[e]
<1>1. CASE DriveNext \/ PublishNext \/ PauseNext \/ FinishStep
  BY <1>1, FlowLeaves
<1>2. CASE SocketNext
  BY <1>2 DEF SocketNext, AnswerResume, AdmitResume, AdmitPersist, AdmitFails, ServeAbort,
     ServeDeadline, ResumeInv, AdmissionFits, AdmissionTypeOK, CanAdmit
<1>3. CASE HostDies
  BY <1>3, DeathLeaves
<1>4. CASE CallStep
  BY <1>4, CallLeaves
<1>5. CASE OutsideStep
  BY <1>5, OutsideLeaves
<1> QED
  BY <1>1, <1>2, <1>3, <1>4, <1>5, StepKinds

(* The escalation that a disposition consumed, and an answer once recorded,  *)
(* stay what they are in every step, crashes, retries and failed writes      *)
(* included.                                                                 *)
THEOREM ResumesAreFinal == Spec => ResumeIsFinal
<1>1. ASSUME TypeOK, Coherent, ResumeInv, [Next]_vars
      PROVE  /\ \A e \in Escalations : consumed[e] # NoRequest => consumed'[e] = consumed[e]
             /\ \A r \in Requests : Completed(r) => records'[r] = records[r]
  BY <1>1, AnswersStay, DispositionsStay
<1>2. TypeOK /\ Coherent /\ ResumeInv /\ [Next]_vars =>
        [/\ \A e \in Escalations : consumed[e] # NoRequest => consumed'[e] = consumed[e]
         /\ \A r \in Requests : Completed(r) => records'[r] = records[r]]_vars
  BY <1>1
<1> HIDE DEF TypeOK, Coherent, vars
<1> QED
  BY <1>2, ResumeInvariance, PTL DEF Spec, ResumeIsFinal

-----------------------------------------------------------------------------
(* The composed processes implement RunLifecycle, step by step, as long as   *)
(* no durable write fails.                                                   *)

(* What is published, before and after a step.                               *)
LEMMA PublishedValues ==
  /\ PublishedState = "running" <=> control.result.state = "running"
  /\ PublishedState = "paused" <=> Paused(control)
  /\ PublishedState = "over" <=> Terminal(control.result)
  /\ PublishedState' = "running" <=> control'.result.state = "running"
  /\ PublishedState' = "paused" <=> Paused(control')
  /\ PublishedState' = "over" <=> Terminal(control'.result)
  BY DEF PublishedState, Paused, Terminal

(* Nothing that callers see changes.                                         *)
LEMMA SameSeen ==
  ASSUME UNCHANGED <<control.result, consumed, records>>
  PROVE  UNCHANGED Lifecycle!vars
<1>1. PublishedState' = PublishedState
  BY DEF PublishedState
<1>2. \A r \in Requests : AnswerOf(r)' = AnswerOf(r)
  BY DEF AnswerOf, Completed
<1> QED
  BY <1>1, <1>2 DEF Lifecycle!vars

(* A new result is published: a disposition let the run go on, or it is over.*)
LEMMA PublishRefines ==
  ASSUME TypeOK, Coherent, ResumeInv, faults = 0, PublishControl
  PROVE  [Lifecycle!Next]_Lifecycle!vars
<1>1. /\ control'.result = draft /\ UNCHANGED <<consumed, records>> /\ pc = "store"
  BY DEF PublishControl, DraftIsPublished
<1>2. UNCHANGED <<consumed, [r \in Requests |-> AnswerOf(r)]>>
  BY <1>1 DEF AnswerOf, Completed
<1>3. CASE next \in {"running", "paused"}
  <2>1. ~Terminal(control.result)
    BY <1>1, <1>3 DEF EndIsRepeated
  <2>2. Paused(control) => consumed[control.result.esc] # NoRequest
    BY <1>1, <1>3 DEF ResumeInv, MemoryShown
  <2>3. Lifecycle!MayProceed
    BY <2>1, <2>2, PublishedValues DEF Lifecycle!MayProceed, Terminal, Paused
  <2>4. CASE next = "running"
    <3>1. draft.state = "running"
      BY <1>1, <2>4 DEF ResumeInv, DraftFits
    <3>2. Lifecycle!Run
      BY <1>1, <1>2, <2>3, <3>1, PublishedValues DEF Lifecycle!Run
    <3> QED
      BY <3>2 DEF Lifecycle!Next
  <2>5. CASE next = "paused"
    <3>1. draft.state = "uncertain" /\ draft.esc = issued /\ issued \in Escalations
      BY <1>1, <2>5, SizesAssumption
      DEF ResumeInv, DraftFits, IndexIsCurrent, MachineTypeOK, Escalations
    <3>2. \A d \in Escalations : consumed[d] # NoRequest => d < issued
      BY <1>1, <2>5, <3>1 DEF ResumeInv, IssuedFirst, DrivenOnAnswered, FreshPause, Escalations
    <3>3. PublishedState' = "paused" /\ control'.result.esc = issued
      BY <1>1, <3>1, PublishedValues DEF Paused
    <3>4. Lifecycle!Pause(issued)
      BY <1>2, <2>3, <3>2, <3>3
      DEF Lifecycle!Pause, Lifecycle!Escalations, Escalations
    <3> QED
      BY <3>1, <3>4 DEF Lifecycle!Next, Lifecycle!Escalations, Escalations
  <2> QED
    BY <1>3, <2>4, <2>5
<1>4. CASE next \in {"terminal", "final"}
  <2>1. Terminal(draft)
    BY <1>1, <1>4 DEF DraftIsPublished
  <2>2. CASE Terminal(control.result)
    BY <1>1, <2>2, SameSeen DEF EndIsRepeated
  <2>3. CASE ~Terminal(control.result)
    <3>1. Lifecycle!End
      BY <1>1, <1>2, <2>1, <2>3, PublishedValues DEF Lifecycle!End
    <3> QED
      BY <3>1 DEF Lifecycle!Next
  <2> QED
    BY <2>2, <2>3
<1> QED
  BY <1>3, <1>4 DEF PublicationTypeOK

(* A lost run is over.                                                       *)
LEMMA LossRefines ==
  ASSUME TypeOK, Coherent, Reconciles
  PROVE  [Lifecycle!Next]_Lifecycle!vars
<1>1. UNCHANGED <<consumed, records>>
  BY OutsideLeaves DEF OutsideStep
<1>2. CASE control' = control
  BY <1>1, <1>2, SameSeen
<1>3. CASE ~Terminal(control.result) /\ Terminal(control'.result)
  <2>1. UNCHANGED <<consumed, [r \in Requests |-> AnswerOf(r)]>>
    BY <1>1 DEF AnswerOf, Completed
  <2>2. Lifecycle!End
    BY <1>3, <2>1, PublishedValues DEF Lifecycle!End
  <2> QED
    BY <2>2 DEF Lifecycle!Next
<1> QED
  BY <1>2, <1>3, ReconciledControl

(* An admission accepts the first disposition of the pause that is shown, of *)
(* a request that has no answer yet.                                         *)
LEMMA AcceptRefines ==
  ASSUME TypeOK, Coherent, ResumeInv, faults = 0, AdmitPersist
  PROVE  [Lifecycle!Next]_Lifecycle!vars
<1> DEFINE m == Head(inbox)
<1>1. /\ 1 \in DOMAIN inbox /\ m = inbox[1] /\ m.kind = "resume" /\ m.request = admitting
      /\ CanAdmit(m) /\ pc \notin {"respond", "store", "dead"}
  BY ServedLeaves DEF AdmitPersist, ResumeInv, AdmissionFits, AdmissionIsServed
<1>2. /\ admitting \in Requests /\ m.esc \in Escalations /\ Open(admitting)
      /\ records[admitting].esc = m.esc
  BY <1>1 DEF ResumeInv, InboxFits, QueuedFits, Open
<1>3. /\ control.result = mem.result /\ control'.result = control.result
      /\ Paused(control) /\ control.result.esc = m.esc /\ consumed[m.esc] = NoRequest
  BY <1>1 DEF AdmitPersist, ResumeInv, MemoryShown, CanAdmit, PausedAt, Paused
<1>4. ~Accepted(admitting)
  BY <1>2, <1>3, RequestsAssumption DEF Accepted, ResumeInv, AcceptedFits
<1>5. AnswerOf(admitting) = "none"
  BY <1>2, <1>4, TakenWasAccepted DEF AnswerOf, ResumeInv, RecordsFit, Open
<1>6. consumed' = [consumed EXCEPT ![m.esc] = admitting] /\ records' = records
  BY DEF AdmitPersist
<1>7. PublishedState = "paused" /\ PublishedState' = PublishedState
  BY <1>3, PublishedValues DEF PublishedState
<1>8. UNCHANGED [r \in Requests |-> AnswerOf(r)]
  BY <1>6 DEF AnswerOf, Completed
<1> HIDE DEF m
<1>9. Lifecycle!Accept(admitting)
  BY <1>2, <1>3, <1>4, <1>5, <1>6, <1>7, <1>8
  DEF Lifecycle!Accept, Lifecycle!Accepted, Lifecycle!Escalations, Accepted, Escalations
<1> QED
  BY <1>2, <1>9 DEF Lifecycle!Next

(* The first answer recorded for a request says whether it was accepted.     *)
LEMMA AnswerRefines ==
  ASSUME AnswersAreFaithful', UNCHANGED <<control.result, consumed>>, NEW q \in Requests,
         \A r \in Requests : r # q \/ Completed(r) => records'[r] = records[r]
  PROVE  [Lifecycle!Next]_Lifecycle!vars
<1>1. PublishedState' = PublishedState
  BY DEF PublishedState
<1>2. \A r \in Requests : r # q \/ Completed(r) => AnswerOf(r)' = AnswerOf(r)
  BY DEF AnswerOf, Completed
<1>3. CASE Completed(q) \/ ~Completed(q)'
  <2>1. \A r \in Requests : AnswerOf(r)' = AnswerOf(r)
    BY <1>2, <1>3 DEF AnswerOf
  <2> QED
    BY <1>1, <2>1 DEF Lifecycle!vars
<1>4. CASE ~Completed(q) /\ Completed(q)'
  <2>1. AnswerOf(q) = "none" /\ AnswerOf(q)' = IF Accepted(q) THEN "result" ELSE "stale"
    BY <1>4 DEF AnswerOf, AnswersAreFaithful, Accepted
  <2>2. Lifecycle!Accepted(q) <=> Accepted(q)
    BY DEF Lifecycle!Accepted, Lifecycle!Escalations, Accepted, Escalations
  <2>3. [r \in Requests |-> AnswerOf(r)]' =
          [[r \in Requests |-> AnswerOf(r)] EXCEPT ![q] = IF Accepted(q) THEN "result" ELSE "stale"]
    BY <1>2, <2>1
  <2>4. Lifecycle!Answer(q)
    BY <1>1, <2>1, <2>2, <2>3 DEF Lifecycle!Answer
  <2> QED
    BY <2>4 DEF Lifecycle!Next
<1> QED
  BY <1>3, <1>4

(* Every step is a step of the promise, or leaves it alone.                  *)
LEMMA LifecycleStep ==
  ASSUME TypeOK, Coherent, ResumeInv, AnswersAreFaithful', faults = 0, faults' = 0, [Next]_vars
  PROVE  [Lifecycle!Next]_Lifecycle!vars
<1>0. \A r \in Requests : Completed(r) => records'[r] = records[r]
  BY AnswersStay
<1>1. CASE DriveNext \/ PublishNext \/ PauseNext \/ FinishStep
  <2>1. CASE PublishControl
    BY <2>1, PublishRefines
  <2>2. CASE PublishResponse
    <3>1. UNCHANGED <<control, consumed>>
      BY <2>2 DEF PublishResponse
    <3>2. CASE UNCHANGED records
      BY <3>1, <3>2, SameSeen
    <3>3. CASE awaiting.request # NoRequest
      <4>1. /\ awaiting.request \in Requests
            /\ \A r \in Requests : r # awaiting.request => records'[r] = records[r]
        BY <2>2, <3>3 DEF PublishResponse, PublicationTypeOK, FilesTypeOK
      <4> QED
        BY <1>0, <3>1, <4>1, AnswerRefines
    <3> QED
      BY <2>2, <3>2, <3>3 DEF PublishResponse
  <2>3. CASE ~PublishControl /\ ~PublishResponse
    <3>1. ~ResponseFails /\ ~ControlFails
      BY DEF ResponseFails, ControlFails, Fault
    <3>2. UNCHANGED control
      BY <1>1, <2>3, <3>1
      DEF DriveNext, Launch, DriveStep, PrepareFails, DriveVerification, Dispatch, RecordFact,
          FactFails, PublishNext, CheckTermination, CheckPause, SetPauseDeadline, CheckTerminal,
          BundleFails, Publish, PauseNext, WaitTermination, WaitPoll, TakeDisposition,
          ApplyAbort, ApplyDisposition, FinishStep, ClearJournal, FinalizeRequest, FinalizeFails
    <3>3. UNCHANGED <<consumed, records>>
      BY <1>1, <2>3, <3>1, FlowLeaves
    <3> QED
      BY <3>2, <3>3, SameSeen
  <2> QED
    BY <2>1, <2>2, <2>3
<1>2. CASE SocketNext
  <2>1. CASE AdmitPersist
    BY <2>1, AcceptRefines
  <2>2. CASE ~AdmitPersist
    <3>1. UNCHANGED <<control, consumed, records>>
      BY <1>2, <2>2
      DEF SocketNext, AnswerResume, AdmitResume, AdmitFails, Fault, ServeAbort, ServeDeadline
    <3> QED
      BY <3>1, SameSeen
  <2> QED
    BY <2>1, <2>2
<1>3. CASE HostDies
  BY <1>3, DeathLeaves, SameSeen
<1>4. CASE CallStep
  <2>1. UNCHANGED <<control, consumed>>
    BY <1>4, CallLeaves
  <2>2. CASE UNCHANGED records
    BY <2>1, <2>2, SameSeen
  <2>3. ASSUME NEW q \in Requests,
               (\E e \in Escalations : RecordIntent(q, e)) \/ PersistResumeError(q)
        PROVE  [Lifecycle!Next]_Lifecycle!vars
    <3>1. \A r \in Requests : r # q => records'[r] = records[r]
      BY <2>3 DEF RecordIntent, PersistResumeError, FilesTypeOK
    <3> QED
      BY <1>0, <2>1, <3>1, AnswerRefines
  <2> QED
    BY <1>4, <2>2, <2>3
    DEF CallStep, ResumeNext, SendAbort, SendResume, Abandon, RecoverResume
<1>5. CASE OutsideStep
  <2>1. CASE Reconciles
    BY <2>1, LossRefines
  <2>2. CASE UNCHANGED control
    BY <1>5, <2>2, OutsideLeaves, SameSeen
  <2> QED
    BY <1>5, <2>1, <2>2, OutsideLeaves
<1> QED
  BY <1>1, <1>2, <1>3, <1>4, <1>5, StepKinds

(* RunLifecycle: a pause is left only with an accepted disposition, an       *)
(* escalation is answered once and later ones are fresh, a request is        *)
(* answered once and truthfully, and the end is final.  With a failed write  *)
(* the host may show a pause only together with its disposition              *)
(* (ControlFails, then AdmitPersist), which the promise counts as two steps: *)
(* hence the premise.                                                        *)
THEOREM RunImplementsLifecycle == Spec /\ []NoWriteFailed => ImplementsLifecycle
<1>1. Init => Lifecycle!Init
  BY DEF Init, StoreInit, HostInit, Lifecycle!Init, Lifecycle!Escalations, Escalations,
     PublishedState, AnswerOf, Completed, NoRecord, InitialControl, RunningResult, HostResult
<1>2. TypeOK /\ Coherent /\ ResumeInv /\ AnswersAreFaithful' /\ NoWriteFailed /\ NoWriteFailed'
        /\ [Next]_vars => [Lifecycle!Next]_Lifecycle!vars
  BY LifecycleStep DEF NoWriteFailed
<1> HIDE DEF TypeOK, Coherent, vars
<1> QED
  BY <1>1, <1>2, ResumeInvariance, AnswersAreAlwaysFaithful, PTL
  DEF Spec, ImplementsLifecycle, Lifecycle!Spec
=============================================================================
