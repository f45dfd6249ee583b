--------------------------- MODULE ControlClients ---------------------------
(***************************************************************************)
(* The command-line clients of one run: resume and abort requests, each    *)
(* with an id that is its idempotency key, and status, which publishes the *)
(* loss of a host that nobody is left to reconcile.  A client may be killed*)
(* or time out at any step; the same request may then be issued again.     *)
(***************************************************************************)
EXTENDS Watchdog

ClientTypeOK == status \in {"idle", "locked"}
ClientInit == status = "idle"

-----------------------------------------------------------------------------
(* resume, under the lock of its request id.                                *)

(* prepare_new_resume and record_resume_intent: the intent is durable       *)
(* before anything is sent.  A terminal run answers at once.                *)
RecordIntent(r, e) ==
  /\ resumeCall[r] = "idle" /\ records[r] = NoRecord
  /\ records' = [records EXCEPT ![r] =
       IF Terminal(control.result) THEN Complete(e, StaleError) ELSE Intent(e)]
  /\ UNCHANGED <<now, control, journal, runLock, runRecord, abortRecord, faults,
                 hostVars, inbox, resumeCall, processVars>>

(* send_resume, the first time or for a request whose intent is recorded    *)
(* but whose answer is not.                                                 *)
SendResume(r) ==
  /\ resumeCall[r] = "idle" /\ records[r].kind = "intent"
  /\ HostAlive /\ InboxHasRoom
  /\ inbox' = Append(inbox, Resume(r, records[r].esc))
  /\ resumeCall' = [resumeCall EXCEPT ![r] = "sent"]
  /\ UNCHANGED <<now, storeVars, faults, hostVars, processVars>>

(* CONTROL_REPLY_TIMEOUT, or the client is killed: its connection stays     *)
(* queued and nobody reads the reply.                                       *)
Abandon(r) ==
  /\ resumeCall[r] # "idle"
  /\ resumeCall' = [resumeCall EXCEPT ![r] = "idle"]
  /\ inbox' = [i \in DOMAIN inbox |->
                IF inbox[i].request = r THEN [inbox[i] EXCEPT !.live = FALSE] ELSE inbox[i]]
  /\ UNCHANGED <<now, storeVars, faults, hostVars, processVars>>

(* send_or_recover_resume: a stale answer is recorded unless the request    *)
(* completed meanwhile; the look and the write are two steps.               *)
RecoverResume(r) ==
  /\ resumeCall[r] = "stale"
  /\ resumeCall' = [resumeCall EXCEPT ![r] = IF Completed(r) THEN "idle" ELSE "refused"]
  /\ UNCHANGED <<now, storeVars, faults, hostVars, inbox, processVars>>

PersistResumeError(r) ==
  /\ resumeCall[r] = "refused"
  /\ records' = [records EXCEPT ![r] = Complete(@.esc, StaleError)]
  /\ resumeCall' = [resumeCall EXCEPT ![r] = "idle"]
  /\ UNCHANGED <<now, control, journal, runLock, runRecord, abortRecord, faults,
                 hostVars, inbox, processVars>>

-----------------------------------------------------------------------------
(* abort sends and polls the durable control; only a terminal result is     *)
(* recorded for its request.                                                *)

AbortQueued == \E i \in DOMAIN inbox : inbox[i].kind = "abort"

SendAbort ==
  /\ abortRecord = NoResult
  /\ ~Terminal(control.result)
  /\ HostAlive /\ InboxHasRoom /\ ~AbortQueued /\ ~abort
  /\ inbox' = Append(inbox, Abort)
  /\ UNCHANGED <<now, storeVars, faults, hostVars, resumeCall, processVars>>

(* Mutant of FinalizeAbort: the first control read is recorded.             *)
FinalizeAbortEarly ==
  /\ abortRecord = NoResult
  /\ abortRecord' = control.result
  /\ UNCHANGED <<now, control, journal, runLock, records, runRecord, faults,
                 hostVars, inbox, resumeCall, processVars>>

FinalizeAbort ==
  /\ abortRecord = NoResult
  /\ Terminal(control.result)
  /\ abortRecord' = control.result
  /\ UNCHANGED <<now, control, journal, runLock, records, runRecord, faults,
                 hostVars, inbox, resumeCall, processVars>>

-----------------------------------------------------------------------------
(* status and wait: reconcile_confirmed_host_loss.                          *)

LockLostRun ==
  /\ status = "idle"
  /\ ~Terminal(control.result) /\ watchdog = "gone"
  /\ TakeRunLock("client")
  /\ status' = "locked"
  /\ UNCHANGED <<now, control, journal, records, runRecord, abortRecord, faults,
                 hostVars, inbox, resumeCall, watchdog, loss, hostCrashes, watchdogCrashes>>

PublishHostLoss ==
  /\ status = "locked"
  /\ control' = IF Terminal(control.result) THEN control
                ELSE LostControl(control, "blocked", "host_lost", "client")
  /\ runLock' = "free" /\ status' = "idle"
  /\ UNCHANGED <<now, journal, records, runRecord, abortRecord, faults, hostVars,
                 inbox, resumeCall, watchdog, loss, hostCrashes, watchdogCrashes>>

StatusCrash ==
  /\ status = "locked" /\ watchdogCrashes < MaxWatchdogCrashes
  /\ watchdogCrashes' = watchdogCrashes + 1
  /\ runLock' = "free" /\ status' = "idle"
  /\ UNCHANGED <<now, control, journal, records, runRecord, abortRecord, faults,
                 hostVars, inbox, resumeCall, watchdog, loss, hostCrashes>>

-----------------------------------------------------------------------------
StatusNext == LockLostRun \/ PublishHostLoss \/ StatusCrash

ResumeNext(r) ==
  \/ \E e \in Escalations : RecordIntent(r, e)
  \/ SendResume(r) \/ Abandon(r) \/ RecoverResume(r) \/ PersistResumeError(r)

ClientNext ==
  \/ \E r \in Requests : ResumeNext(r)
  \/ SendAbort \/ FinalizeAbort
  \/ StatusNext
=============================================================================
