------------------------------ MODULE Watchdog ------------------------------
(***************************************************************************)
(* The watchdog process: it supervises the host, tells a host that outlived*)
(* a deadline, stops it, and publishes the loss of a run whose host died   *)
(* without a terminal result.  Its own death is seen by the host at the end*)
(* of the liveness pipe.                                                   *)
(***************************************************************************)
EXTENDS RunHost

HostLost == [state |-> "blocked", reason |-> "host_lost"]
Expired(reason) == [state |-> "expired", reason |-> reason]

WatchdogTypeOK ==
  /\ watchdog \in {"supervise", "observe", "expire", "grace", "finish",
                   "reconcile", "locked", "gone"}
  /\ loss \in {HostLost, Expired("resume_deadline_elapsed"), Expired("lifetime_elapsed")}
  /\ hostCrashes \in 0 .. MaxHostCrashes
  /\ watchdogCrashes \in 0 .. MaxWatchdogCrashes

WatchdogInit ==
  /\ watchdog = "supervise"
  /\ loss = HostLost
  /\ hostCrashes = 0 /\ watchdogCrashes = 0

(* Mutant of TakeRunLock: whoever asks gets it.                             *)
TakeRunLockAnyway(process) == runLock' = process

(* The exclusive run lock: the host holds it for life, so another process   *)
(* that takes it knows the host is dead.                                    *)
TakeRunLock(process) == runLock = "free" /\ runLock' = process

-----------------------------------------------------------------------------
(* supervise reads the host's liveness, the durable control and the clock.  *)

SeesDeadHost ==
  /\ watchdog = "supervise" /\ ~HostAlive
  /\ watchdog' = "reconcile" /\ loss' = HostLost
  /\ UNCHANGED <<status, now, storeVars, faults, hostVars, inbox, resumeCall,
                 hostCrashes, watchdogCrashes>>

SeesAlive ==
  /\ watchdog = "supervise" /\ HostAlive
  /\ watchdog' = "observe"
  /\ UNCHANGED <<status, now, storeVars, faults, hostVars, inbox, resumeCall, loss,
                 hostCrashes, watchdogCrashes>>

SeesTerminal ==
  /\ watchdog = "observe"
  /\ Terminal(control.result)
  /\ watchdog' = "finish"
  /\ UNCHANGED <<status, now, storeVars, faults, hostVars, inbox, resumeCall, loss,
                 hostCrashes, watchdogCrashes>>

SeesDeadline ==
  /\ watchdog = "observe"
  /\ ~Terminal(control.result)
  /\ DeadlineReason(control) # "none"
  /\ watchdog' = "expire" /\ loss' = Expired(DeadlineReason(control))
  /\ UNCHANGED <<status, now, storeVars, faults, hostVars, inbox, resumeCall,
                 hostCrashes, watchdogCrashes>>

SeesNothing ==
  /\ watchdog = "observe"
  /\ ~Terminal(control.result) /\ DeadlineReason(control) = "none"
  /\ watchdog' = "supervise"
  /\ UNCHANGED <<status, now, storeVars, faults, hostVars, inbox, resumeCall, loss,
                 hostCrashes, watchdogCrashes>>

(* request_host_deadline: the reply, or its absence, makes no difference.   *)
SendDeadline ==
  /\ watchdog = "expire"
  /\ inbox' = IF HostAlive /\ InboxHasRoom THEN Append(inbox, Deadline) ELSE inbox
  /\ watchdog' = "grace"
  /\ UNCHANGED <<status, now, storeVars, faults, hostVars, resumeCall, loss,
                 hostCrashes, watchdogCrashes>>

(* terminate_owned_group: a host that has not exited when its grace is over *)
(* is killed with its process group.                                        *)
Stopped == IF watchdog = "grace" THEN "reconcile" ELSE "gone"

HostStops ==
  /\ watchdog \in {"grace", "finish"} /\ ~HostAlive
  /\ watchdog' = Stopped
  /\ UNCHANGED <<status, now, storeVars, faults, hostVars, inbox, resumeCall, loss,
                 hostCrashes, watchdogCrashes>>

KillHost ==
  /\ watchdog \in {"grace", "finish"} /\ HostAlive
  /\ watchdog' = Stopped
  /\ Die
  /\ UNCHANGED <<status, now, control, journal, records, runRecord, abortRecord, faults,
                 loss, hostCrashes, watchdogCrashes>>

-----------------------------------------------------------------------------
(* reconcile_dead_host: under the run lock, the control is read again and a *)
(* terminal result is left alone.  The wait for the lock is bounded in the  *)
(* code; here it is never long, because the host is dead and no client takes*)
(* the lock while the watchdog lives.                                       *)

LockDeadRun ==
  /\ watchdog = "reconcile"
  /\ TakeRunLock("watchdog")
  /\ watchdog' = "locked"
  /\ UNCHANGED <<status, now, control, journal, records, runRecord, abortRecord, faults,
                 hostVars, inbox, resumeCall, loss, hostCrashes, watchdogCrashes>>

WatchdogControl == LostControl(control, loss.state, loss.reason, "watchdog")

(* Mutant of ReconcileDeadHost: the control is not read again.              *)
ReconcileUnread ==
  /\ watchdog = "locked"
  /\ control' = WatchdogControl
  /\ runLock' = "free" /\ watchdog' = "gone"
  /\ UNCHANGED <<status, now, journal, records, runRecord, abortRecord, faults, hostVars,
                 inbox, resumeCall, loss, hostCrashes, watchdogCrashes>>

ReconcileDeadHost ==
  /\ watchdog = "locked"
  /\ control' = IF Terminal(control.result) THEN control ELSE WatchdogControl
  /\ runLock' = "free" /\ watchdog' = "gone"
  /\ UNCHANGED <<status, now, journal, records, runRecord, abortRecord, faults, hostVars,
                 inbox, resumeCall, loss, hostCrashes, watchdogCrashes>>

ReconcileFails ==
  /\ watchdog = "locked" /\ ~Terminal(control.result)
  /\ Fault
  /\ control' \in FailedWrite(control, WatchdogControl)
  /\ runLock' = "free" /\ watchdog' = "gone"
  /\ UNCHANGED <<status, now, journal, records, runRecord, abortRecord, hostVars, inbox,
                 resumeCall, loss, hostCrashes, watchdogCrashes>>

-----------------------------------------------------------------------------
(* Either process may be killed from outside at any moment.                 *)

WatchdogCrash ==
  /\ watchdog # "gone" /\ watchdogCrashes < MaxWatchdogCrashes
  /\ watchdogCrashes' = watchdogCrashes + 1
  /\ watchdog' = "gone"
  /\ runLock' = IF runLock = "watchdog" THEN "free" ELSE runLock
  /\ UNCHANGED <<status, now, control, journal, records, runRecord, abortRecord, faults,
                 hostVars, inbox, resumeCall, loss, hostCrashes>>

HostCrash ==
  /\ HostAlive /\ hostCrashes < MaxHostCrashes
  /\ hostCrashes' = hostCrashes + 1
  /\ Die
  /\ UNCHANGED <<status, now, control, journal, records, runRecord, abortRecord, faults,
                 watchdog, loss, watchdogCrashes>>

(* monitor_watchdog: end of file on the liveness pipe.                      *)
MonitorWatchdog ==
  /\ HostAlive /\ watchdog = "gone" /\ ~watchdogLost
  /\ watchdogLost' = TRUE /\ cancelled' = TRUE
  /\ UNCHANGED <<processVars, now, storeVars, faults, pc, machineVars,
                 publicationVars, abort, admissionVars, socketVars>>

-----------------------------------------------------------------------------
WatchdogNext ==
  \/ SeesDeadHost \/ SeesAlive \/ SeesTerminal \/ SeesDeadline \/ SeesNothing
  \/ SendDeadline
  \/ HostStops \/ KillHost
  \/ LockDeadRun \/ ReconcileDeadHost \/ ReconcileFails

CrashNext == HostCrash \/ WatchdogCrash
=============================================================================
