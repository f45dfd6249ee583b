------------------------------ MODULE RunStore ------------------------------
(***************************************************************************)
(* The durable state of one run and what every process may do to it.       *)
(*                                                                         *)
(* A run is shared by its host process, the watchdog process that spawned  *)
(* the host, and any number of command-line clients.  They meet in files   *)
(* under the state root (the run control, the request records, the run     *)
(* lock), in the action journal beside the evidence, and on the host's     *)
(* control socket.  This module declares that shared state; RunHost,       *)
(* Watchdog and ControlClients declare the processes.                      *)
(***************************************************************************)
EXTENDS Integers, Sequences, FiniteSets

CONSTANTS
  Requests,        \* ids of the resume requests callers may issue
  NoRequest,       \* "no request": not a member of Requests
  MaxEscalations,  \* bound: escalations one run may raise
  Steps,           \* steps of the job
  PauseTimeout,    \* clock ticks a caller has to answer an escalation
  Lifetime,        \* tick at which the run's lifetime elapses
  InboxBound,      \* bound: connections waiting on the control socket
  MaxHostCrashes,      \* bound: times the host process is killed from outside
  MaxWatchdogCrashes,  \* bound: kills of watchdog and status processes
  MaxFaults            \* bound: durable writes that fail

ASSUME RequestsAssumption == NoRequest \notin Requests
ASSUME SizesAssumption ==
  /\ MaxEscalations \in Nat /\ Steps \in Nat
  /\ PauseTimeout \in Nat \ {0} /\ Lifetime \in Nat \ {0}
  /\ InboxBound \in Nat \ {0}
ASSUME BudgetsAssumption ==
  MaxHostCrashes \in Nat /\ MaxWatchdogCrashes \in Nat /\ MaxFaults \in Nat

VARIABLES
  now,        \* the wall clock every process reads
  control,    \* the run control file
  journal,    \* the action journal: "absent", "settled" or "prepared"
  runLock,    \* who holds the exclusive run lock
  records,    \* [Requests -> resume request record]
  runRecord,  \* the result recorded for the run request itself
  abortRecord,\* the result recorded for an abort request
  inbox,      \* connections accepted in order by the control socket
  faults,     \* durable writes that have failed so far
  watchdog,   \* where the watchdog process is
  loss,       \* the state and reason it will publish for a lost host
  status,     \* a status client: "idle", or "locked" while it reconciles
  hostCrashes, watchdogCrashes   \* crashes so far

storeVars == <<control, journal, runLock, records, runRecord, abortRecord>>
processVars == <<watchdog, loss, status, hostCrashes, watchdogCrashes>>

-----------------------------------------------------------------------------
Escalations == 1 .. MaxEscalations
Times == 0 .. Lifetime
NoDeadline == Lifetime + 1
Deadlines == 1 .. NoDeadline

(* "blocked" stands for the failed verdict too: whatever stops a machine for *)
(* good, blocked or failed, is published, finalized and read in the same way.*)
States == {"running", "uncertain", "passed", "blocked", "aborted", "expired"}
Reasons == {"none", "stopped", "run_cancelled", "evidence_unavailable",
            "caller_aborted", "resume_deadline_elapsed", "lifetime_elapsed",
            "watchdog_lost", "host_lost"}

(* A published result: what the run came to, the escalation it carries (0   *)
(* for none), what a reconciler said of the action in flight when the host  *)
(* died, and who closed the browser.                                        *)
Results == [state : States, reason : Reasons, esc : 0 .. MaxEscalations,
            action : {"unreported", "none", "uncertain"},
            cleanup : {"host", "watchdog", "client"}]

HostResult(state, reason, esc) ==
  [state |-> state, reason |-> reason, esc |-> esc,
   action |-> "unreported", cleanup |-> "host"]

RunningResult == HostResult("running", "none", 0)
NoResult == [state |-> "absent"]
StaleError == [state |-> "stale_escalation"]

Terminal(result) == result.state \notin {"running", "uncertain"}
PausedAt(result, e) == result.state = "uncertain" /\ result.esc = e

-----------------------------------------------------------------------------
(* The run control: a sequence number, the result and the pause deadline.   *)
Controls == [seq : Nat, result : Results, pauseAt : Deadlines]

InitialControl == [seq |-> 1, result |-> RunningResult, pauseAt |-> NoDeadline]

PauseDeadline(t) == IF t + PauseTimeout < Lifetime THEN t + PauseTimeout ELSE Lifetime

(* A durable write replaces a file by rename and then syncs the directory:  *)
(* a failure may be reported with either content in place.                  *)
FailedWrite(old, new) == {old, new}

Fault == faults < MaxFaults /\ faults' = faults + 1

(* The store's answer to "was an action prepared and not settled?"          *)
UnresolvedAction == IF journal = "prepared" THEN "uncertain" ELSE "none"

(* Mutant of LostControl: the rewritten control keeps its sequence number.  *)
LostControlSameSeq(old, state, reason, cleanup) ==
  [seq |-> old.seq,
   result |-> [state |-> state, reason |-> reason, esc |-> old.result.esc,
               action |-> UnresolvedAction, cleanup |-> cleanup],
   pauseAt |-> NoDeadline]

(* A run control whose host is lost, as the process that reconciles it      *)
(* rewrites it: the escalation of the last result stays in place.           *)
LostControl(old, state, reason, cleanup) ==
  [seq |-> old.seq + 1,
   result |-> [state |-> state, reason |-> reason, esc |-> old.result.esc,
               action |-> UnresolvedAction, cleanup |-> cleanup],
   pauseAt |-> NoDeadline]

-----------------------------------------------------------------------------
(* A resume request record names the escalation it answers.                 *)
NoRecord == [kind |-> "none", esc |-> 0, response |-> NoResult]
Intent(e) == [kind |-> "intent", esc |-> e, response |-> NoResult]
Complete(e, response) == [kind |-> "complete", esc |-> e, response |-> response]

Records == [kind : {"none", "intent", "complete"}, esc : 0 .. MaxEscalations,
            response : Results \cup {NoResult, StaleError}]

Completed(r) == records[r].kind = "complete"

(* A connection on the control socket.  "live" says that its client still   *)
(* waits for the reply.                                                     *)
Resume(r, e) == [kind |-> "resume", request |-> r, esc |-> e, live |-> TRUE]
Abort == [kind |-> "abort", request |-> NoRequest, esc |-> 0, live |-> FALSE]
Deadline == [kind |-> "deadline", request |-> NoRequest, esc |-> 0, live |-> FALSE]

Messages == [kind : {"resume", "abort", "deadline"},
             request : Requests \cup {NoRequest},
             esc : 0 .. MaxEscalations, live : BOOLEAN]

InboxHasRoom == Len(inbox) < InboxBound

-----------------------------------------------------------------------------
FilesTypeOK ==
  /\ control \in Controls
  /\ journal \in {"absent", "settled", "prepared"}
  /\ runLock \in {"host", "watchdog", "client", "free"}
  /\ records \in [Requests -> Records]
  /\ runRecord \in Results \cup {NoResult}
  /\ abortRecord \in Results \cup {NoResult}

InboxTypeOK == inbox \in Seq(Messages) /\ Len(inbox) <= InboxBound

StoreTypeOK ==
  FilesTypeOK /\ InboxTypeOK /\ now \in Times /\ faults \in 0 .. MaxFaults

(* The durable state once the bootstrapped host has published its initial   *)
(* control and serves the socket.                                           *)
StoreInit ==
  /\ now = 0
  /\ control = InitialControl
  /\ journal = "absent"
  /\ runLock = "host"
  /\ records = [r \in Requests |-> NoRecord]
  /\ runRecord = NoResult
  /\ abortRecord = NoResult
  /\ inbox = <<>>
  /\ faults = 0
=============================================================================
