---------------------------- MODULE RunAdmission ----------------------------
(***************************************************************************)
(* The admission of `manuvra run`: callers that submit jobs under one      *)
(* request id, and the bootstrap of the watchdog and the host of the run   *)
(* one of them starts.  Every process may be killed between any two steps, *)
(* and durable writes may fail with the old or the new content in place.   *)
(*                                                                         *)
(* A caller is one invocation of the command; a retry is another caller.   *)
(* evidence::new_run_id gives every intent a fresh run id, and a caller    *)
(* records at most one intent: a run is named by the caller that created   *)
(* it.                                                                     *)
(***************************************************************************)
EXTENDS Integers, FiniteSets

CONSTANTS
  Callers,     \* invocations of `manuvra run` with this request id
  NoCaller,    \* "no caller", "no run"
  Jobs,        \* the digests of the submitted jobs
  NoJob,       \* "no job"
  JobOf,       \* the job each caller submits
  Blocked,     \* jobs that miss a value: they end at admission
  MaxCrashes,  \* bound: processes killed from outside
  MaxFaults    \* bound: durable writes, spawns and replies that fail

ASSUME CallersAssumption == NoCaller \notin Callers
ASSUME JobsAssumption == JobOf \in [Callers -> Jobs] /\ NoJob \notin Jobs /\ Blocked \subseteq Jobs
ASSUME BoundsAssumption == MaxCrashes \in Nat /\ MaxFaults \in Nat

VARIABLES
  index,      \* requests/<id>.json, the record a request id is looked up in
  entry,      \* runs/<run>/request.json
  control,    \* runs/<run>/control.json
  evidence,   \* what the run's evidence directory holds
  socket,     \* runs with a control socket on disk
  requestLock,\* who holds the lock of the request id
  pc,         \* where each caller is
  run,        \* the run a caller works on
  seen,       \* the run control a caller read
  out,        \* what a caller returned
  watchdog, host,  \* where these processes of a run are
  flows,      \* history: how many flows were started
  crashes, faults

files == <<index, entry, control, evidence, socket>>
callers == <<requestLock, pc, run, seen, out>>
processes == <<watchdog, host, flows>>
vars == <<files, callers, processes, crashes, faults>>

-----------------------------------------------------------------------------
Runs == Callers

(* A terminal result: of a flow, of a job that misses a value, of a host    *)
(* that died; "abandoned" is the loss of a run that was never started.      *)
Terminals == {"flow", "missing_value", "host_lost", "abandoned"}
States == Terminals \cup {"running"}
NoControl == [state |-> "absent", owned |-> FALSE, complete |-> FALSE]
Control(state, owned, complete) == [state |-> state, owned |-> owned, complete |-> complete]
Terminal(c) == c.state \in Terminals

(* control_is_bootstrapping: nothing terminal, and no host has owned it yet.*)
Bootstrapping(c) == c.state = "running" /\ ~c.owned

Records == [phase : {"absent", "intent", "complete"}, run : Callers \cup {NoCaller},
            result : States \cup {"none"}]
NoRecord == [phase |-> "absent", run |-> NoCaller, result |-> "none"]
Intent(r) == [phase |-> "intent", run |-> r, result |-> "none"]
Complete(r, result) == [phase |-> "complete", run |-> r, result |-> result]

(* What an evidence directory holds: nothing, a bundle with a checkpoint    *)
(* that is not terminal, one with a terminal result, or one whose manifest  *)
(* is marked incomplete.                                                    *)
Bundles == {"none", "open", "torn"} \cup Terminals

HostAlive(r) == host[r] \notin {"none", "dead"}
WatchdogAlive(r) == watchdog[r] \notin {"none", "gone"}
Reconciling(r) == \E c \in Callers : run[c] = r /\ pc[c] \in {"reconcile", "lose"}

(* The run lock is an flock on an inherited descriptor: it is held as long  *)
(* as a process that has it open lives.  The watchdog closes its own once   *)
(* it spawned the host, and takes the lock again to reconcile.              *)
LockHeld(r) ==
  \/ pc[r] \in {"spawn", "send"}
  \/ watchdog[r] \in {"spawned", "framed", "locked", "replacing",
                         "complete", "incomplete"}
  \/ HostAlive(r) \/ Reconciling(r)

(* A durable write: done, or failed with either content in place.           *)
Writes(old, new) ==
  {[ok |-> TRUE, content |-> new, faults |-> faults]} \cup
  {[ok |-> FALSE, content |-> c, faults |-> faults + 1] :
      c \in IF faults < MaxFaults THEN {old, new} ELSE {}}
Fails == faults < MaxFaults /\ faults' = faults + 1
Works == UNCHANGED faults

-----------------------------------------------------------------------------
(* Steps of a caller.  Leaving releases the request lock.                   *)
Unlocked(c) == IF requestLock = c THEN NoCaller ELSE requestLock
Goto(c, place) == pc' = [pc EXCEPT ![c] = place]
Return(c, answer) ==
  /\ Goto(c, "done")
  /\ out' = [out EXCEPT ![c] = answer]
  /\ requestLock' = Unlocked(c)
Finalize(c, result) ==
  /\ Goto(c, "seal")
  /\ out' = [out EXCEPT ![c] = result]
  /\ UNCHANGED requestLock
Error == "error"
Stays == UNCHANGED <<requestLock, out>>

(* Mutant of Lock: the request lock is not exclusive.                       *)
LockUnshared(c) ==
  /\ pc[c] = "start"
  /\ requestLock' = c /\ Goto(c, "lookup")
  /\ UNCHANGED <<files, run, seen, out, processes, crashes, faults>>

Lock(c) ==
  /\ pc[c] = "start" /\ requestLock = NoCaller
  /\ requestLock' = c /\ Goto(c, "lookup")
  /\ UNCHANGED <<files, run, seen, out, processes, crashes, faults>>

(* The first step of a run whose request id is settled: a job that misses a *)
(* value is blocked at admission, an existing run is attached to, a new one *)
(* gets its processes.                                                      *)
Admitted(c, place) == Goto(c, IF JobOf[c] \in Blocked THEN "stop" ELSE place)

(* Mutant of Lookup: the digest of the job is not compared.                 *)
LookupByIdOnly(c) ==
  /\ pc[c] = "lookup"
  /\ \/ /\ index.phase = "absent"
        /\ run' = [run EXCEPT ![c] = c]
        /\ Goto(c, "intent") /\ Stays
     \/ /\ index.phase = "intent"
        /\ run' = [run EXCEPT ![c] = index.run]
        /\ Admitted(c, "read") /\ Stays
     \/ /\ index.phase = "complete"
        /\ Return(c, IF evidence[index.run] = index.result THEN index.result ELSE Error)
        /\ UNCHANGED run
  /\ UNCHANGED <<files, seen, processes, crashes, faults>>

Lookup(c) ==
  /\ pc[c] = "lookup"
  /\ \/ /\ index.phase = "absent"
        /\ run' = [run EXCEPT ![c] = c]
        /\ Goto(c, "intent") /\ Stays
     \/ /\ index.phase # "absent" /\ JobOf[index.run] # JobOf[c]
        /\ Return(c, "conflict") /\ UNCHANGED run
     \/ /\ index.phase = "intent" /\ JobOf[index.run] = JobOf[c]
        /\ run' = [run EXCEPT ![c] = index.run]
        /\ Admitted(c, "read") /\ Stays
     \/ /\ index.phase = "complete" /\ JobOf[index.run] = JobOf[c]
        /\ Return(c, IF evidence[index.run] = index.result THEN index.result ELSE Error)
        /\ UNCHANGED run
  /\ UNCHANGED <<files, seen, processes, crashes, faults>>

(* record_intent: the index first, then the entry of the run.               *)
RecordIntent(c) ==
  /\ pc[c] = "intent"
  /\ \E w \in Writes(index, Intent(c)) :
       /\ index' = w.content /\ faults' = w.faults
       /\ IF w.ok THEN Goto(c, "entry") /\ Stays ELSE Return(c, Error)
  /\ UNCHANGED <<entry, control, evidence, socket, run, seen, processes, crashes>>

RecordEntry(c) ==
  /\ pc[c] = "entry"
  /\ \E w \in Writes(entry[c], Intent(c)) :
       /\ entry' = [entry EXCEPT ![c] = w.content] /\ faults' = w.faults
       /\ IF w.ok THEN Admitted(c, "basis") /\ Stays ELSE Return(c, Error)
  /\ UNCHANGED <<index, control, evidence, socket, run, seen, processes, crashes>>

(* publish_admission_stop: the evidence of the blocked job is recovered, or *)
(* staged and committed by one rename.                                      *)
StopAtAdmission(c) ==
  /\ pc[c] = "stop"
  /\ \E w \in Writes(evidence[run[c]], "missing_value") :
       /\ evidence[run[c]] = "missing_value" => w.ok
       /\ evidence' = [evidence EXCEPT ![run[c]] = w.content] /\ faults' = w.faults
       /\ IF w.ok THEN Finalize(c, "missing_value") ELSE Return(c, Error)
  /\ UNCHANGED <<index, entry, control, socket, run, seen, processes, crashes>>

(* finalize: the entry of the run, then the index.                          *)
Seal(c) ==
  /\ pc[c] = "seal"
  /\ \E w \in Writes(entry[run[c]], Complete(run[c], out[c])) :
       /\ entry' = [entry EXCEPT ![run[c]] = w.content] /\ faults' = w.faults
       /\ IF w.ok THEN Goto(c, "close") /\ Stays ELSE Return(c, Error)
  /\ UNCHANGED <<index, control, evidence, socket, run, seen, processes, crashes>>

Close(c) ==
  /\ pc[c] = "close"
  /\ \E w \in Writes(index, Complete(run[c], out[c])) :
       /\ index' = w.content /\ faults' = w.faults
       /\ Return(c, IF w.ok THEN out[c] ELSE Error)
  /\ UNCHANGED <<entry, control, evidence, socket, run, seen, processes, crashes>>

-----------------------------------------------------------------------------
(* start_new_background_run.                                                *)

(* initialize_run_basis: the run lock, and a control without a host.        *)
InitializeBasis(c) ==
  /\ pc[c] = "basis"
  /\ \E w \in Writes(control[c], Control("running", FALSE, FALSE)) :
       /\ control' = [control EXCEPT ![c] = w.content] /\ faults' = w.faults
       /\ IF w.ok THEN Goto(c, "spawn") /\ Stays ELSE Return(c, Error)
  /\ UNCHANGED <<index, entry, evidence, socket, run, seen, processes, crashes>>

SpawnWatchdog(c) ==
  /\ pc[c] = "spawn"
  /\ \/ /\ Works /\ watchdog' = [watchdog EXCEPT ![c] = "spawned"]
        /\ Goto(c, "send") /\ Stays
     \/ Fails /\ Return(c, Error) /\ UNCHANGED watchdog
  /\ UNCHANGED <<files, run, seen, host, flows, crashes>>

(* send_watchdog_bootstrap: both frames through the pipe; then the caller   *)
(* drops its copy of the run lock.                                          *)
SendBootstrap(c) ==
  /\ pc[c] = "send"
  /\ \/ /\ watchdog[c] = "spawned"
        /\ watchdog' = [watchdog EXCEPT ![c] = "framed"]
        /\ Goto(c, "await") /\ Stays
     \/ watchdog[c] = "gone" /\ Return(c, Error) /\ UNCHANGED watchdog
  /\ UNCHANGED <<files, run, seen, host, flows, crashes, faults>>

(* The socket of a host answers from the moment its initial control is      *)
(* published until the process ends.                                        *)
Serving(r) == host[r] \in {"serving", "driving", "finished", "sealing", "indexing"}
WaitForRun(c) == Goto(c, "wait") /\ requestLock' = Unlocked(c) /\ UNCHANGED out

(* Mutant of AwaitReadiness: no deadline.                                   *)
AwaitForever(c) ==
  /\ pc[c] = "await" /\ (Terminal(control[run[c]]) \/ Serving(run[c]))
  /\ IF run[c] = c THEN WaitForRun(c) ELSE Goto(c, "reread") /\ Stays
  /\ UNCHANGED <<files, run, seen, processes, crashes, faults>>

(* await_host_readiness: a terminal control, or the readiness exchange, or  *)
(* ten seconds.  A caller that waited for another's run reads the control   *)
(* again.                                                                   *)
AwaitReadiness(c) ==
  /\ pc[c] = "await"
  /\ \/ /\ Terminal(control[run[c]]) \/ Serving(run[c])
        /\ IF run[c] = c THEN WaitForRun(c) ELSE Goto(c, "reread") /\ Stays
     \/ ~Terminal(control[run[c]]) /\ Return(c, Error)
  /\ UNCHANGED <<files, run, seen, watchdog, host, flows, crashes, faults>>

-----------------------------------------------------------------------------
(* attach_or_recover_background_run.                                        *)

(* The control of an existing run, read before and after its bootstrap.     *)
ReadControl(c) ==
  /\ pc[c] = "read"
  /\ seen' = [seen EXCEPT ![c] = control[run[c]]]
  /\ Goto(c, IF control[run[c]] = NoControl THEN "recover"
             ELSE IF Bootstrapping(control[run[c]]) THEN "probe" ELSE "attach")
  /\ Stays /\ UNCHANGED <<files, run, processes, crashes, faults>>

RereadControl(c) ==
  /\ pc[c] = "reread"
  /\ seen' = [seen EXCEPT ![c] = control[run[c]]]
  /\ Goto(c, "attach")
  /\ Stays /\ UNCHANGED <<files, run, processes, crashes, faults>>

(* Mutant of ProbeBootstrap: the run lock is not tried.                     *)
ProbeUnlocked(c) ==
  /\ pc[c] = "probe"
  /\ Goto(c, "reconcile")
  /\ Stays /\ UNCHANGED <<files, run, seen, processes, crashes, faults>>

(* reconcile_abandoned_bootstrap: who gets the lock of a bootstrapping run  *)
(* knows that no process of it lives.                                       *)
ProbeBootstrap(c) ==
  /\ pc[c] = "probe"
  /\ \/ /\ LockHeld(run[c])
        /\ seen' = [seen EXCEPT ![c] = control[run[c]]]
        /\ Goto(c, IF Bootstrapping(control[run[c]]) THEN "await" ELSE "attach")
     \/ /\ ~LockHeld(run[c])
        /\ Goto(c, "reconcile") /\ UNCHANGED seen
  /\ Stays /\ UNCHANGED <<files, run, processes, crashes, faults>>

ReconcileBootstrap(c) ==
  LET lost == Control("abandoned", FALSE, FALSE) IN
  /\ pc[c] = "reconcile"
  /\ \/ /\ ~Bootstrapping(control[run[c]])
        /\ seen' = [seen EXCEPT ![c] = control[run[c]]]
        /\ Goto(c, "attach")
        /\ Stays /\ UNCHANGED <<control, faults>>
     \/ /\ Bootstrapping(control[run[c]]) /\ run[c] \in socket
        /\ Goto(c, "await")
        /\ Stays /\ UNCHANGED <<control, faults, seen>>
     \/ /\ Bootstrapping(control[run[c]]) /\ run[c] \notin socket
        /\ \E w \in Writes(control[run[c]], lost) :
             /\ control' = [control EXCEPT ![run[c]] = w.content] /\ faults' = w.faults
             /\ seen' = [seen EXCEPT ![c] = lost]
             /\ IF w.ok THEN Goto(c, "attach") /\ Stays ELSE Return(c, Error)
  /\ UNCHANGED <<index, entry, evidence, socket, run, processes, crashes>>

(* attach_to_existing_control, on the control that was read.                *)
Attach(c) ==
  /\ pc[c] = "attach"
  /\ \/ /\ Terminal(seen[c]) /\ seen[c].complete
        /\ Goto(c, "recover") /\ Stays /\ Works
     \/ /\ Terminal(seen[c]) /\ ~seen[c].complete
        /\ WaitForRun(c) /\ Works
     \/ /\ ~Terminal(seen[c]) /\ Serving(run[c])
        /\ WaitForRun(c) /\ Works
     \/ /\ ~Terminal(seen[c])
        /\ IF Serving(run[c]) THEN Fails ELSE Works
        /\ Goto(c, "confirm") /\ Stays
  /\ UNCHANGED <<files, run, seen, watchdog, host, flows, crashes>>

(* confirm_dead_or_reject_unreachable_host.                                 *)
ConfirmDead(c) ==
  /\ pc[c] = "confirm"
  /\ \/ LockHeld(run[c]) /\ Return(c, Error) /\ UNCHANGED socket
     \/ ~LockHeld(run[c]) /\ socket' = socket \ {run[c]} /\ WaitForRun(c)
  /\ UNCHANGED <<index, entry, control, evidence, run, seen, processes, crashes, faults>>

(* recover_published_run: only a complete bundle with a terminal result.    *)
Recover(c) ==
  /\ pc[c] = "recover"
  /\ \/ evidence[run[c]] \in Terminals /\ Finalize(c, evidence[run[c]])
     \/ evidence[run[c]] \notin Terminals /\ Return(c, Error)
  /\ UNCHANGED <<files, run, seen, processes, crashes, faults>>

(* wait_for_run returns what the control holds, whenever its time is up; a  *)
(* control of a host that has no watchdog left makes it doubt the host.     *)
Wait(c) ==
  /\ pc[c] = "wait"
  /\ \/ Return(c, IF control[run[c]] = NoControl THEN Error ELSE control[run[c]].state)
     \/ /\ control[run[c]].owned /\ ~Terminal(control[run[c]])
        /\ ~WatchdogAlive(run[c])
        /\ Goto(c, "doubt") /\ Stays
  /\ UNCHANGED <<files, run, seen, processes, crashes, faults>>

(* reconcile_confirmed_host_loss: only who gets the run lock may go on.     *)
DoubtHost(c) ==
  /\ pc[c] = "doubt"
  /\ \/ LockHeld(run[c]) /\ Return(c, "running")
     \/ ~LockHeld(run[c]) /\ Goto(c, "lose") /\ Stays
  /\ UNCHANGED <<files, run, seen, processes, crashes, faults>>

(* Mutant of PublishLoss: the control is not read again under the lock.     *)
PublishLossUnread(c) ==
  /\ pc[c] = "lose" /\ Goto(c, "wait")
  /\ control' = [control EXCEPT ![run[c]] = Control("host_lost", TRUE, FALSE)]
  /\ socket' = socket \ {run[c]}
  /\ UNCHANGED <<index, entry, evidence, requestLock, run, seen, out, processes, crashes, faults>>

(* The control is read again under the lock; then the loss is published.    *)
PublishLoss(c) ==
  LET lost == Control("host_lost", TRUE, FALSE) IN
  /\ pc[c] = "lose"
  /\ \/ /\ Terminal(control[run[c]])
        /\ Goto(c, "wait") /\ UNCHANGED <<control, socket, faults, out>>
     \/ /\ ~Terminal(control[run[c]])
        /\ socket' = socket \ {run[c]}
        /\ \E w \in Writes(control[run[c]], lost) :
             /\ control' = [control EXCEPT ![run[c]] = w.content] /\ faults' = w.faults
             /\ IF w.ok THEN Goto(c, "wait") /\ UNCHANGED out
                ELSE Goto(c, "done") /\ out' = [out EXCEPT ![c] = Error]
  /\ UNCHANGED <<index, entry, evidence, requestLock, run, seen, processes, crashes>>

-----------------------------------------------------------------------------
(* The watchdog process of a run.                                           *)
Watch(r, place) == watchdog' = [watchdog EXCEPT ![r] = place]

(* read_inherited_bootstrap_from: the caller died before it sent the frames.*)
WatchdogUnfed(r) ==
  /\ watchdog[r] = "spawned" /\ pc[r] # "send"
  /\ Watch(r, "gone")
  /\ UNCHANGED <<files, callers, host, flows, crashes, faults>>

SpawnHost(r) ==
  /\ watchdog[r] = "framed"
  /\ \/ Works /\ Watch(r, "feeding") /\ host' = [host EXCEPT ![r] = "spawned"]
     \/ Fails /\ Watch(r, "gone") /\ UNCHANGED host
  /\ UNCHANGED <<files, callers, flows, crashes>>

(* send_host_bootstrap: a broken pipe ends the watchdog.                    *)
FeedHost(r) ==
  /\ watchdog[r] = "feeding"
  /\ \/ /\ host[r] = "spawned"
        /\ Watch(r, "supervising") /\ host' = [host EXCEPT ![r] = "fed"]
     \/ /\ host[r] = "dead"
        /\ Watch(r, "gone") /\ UNCHANGED host
  /\ UNCHANGED <<files, callers, flows, crashes, faults>>

(* supervise: a host that exited is reconciled under the run lock.          *)
SuperviseDead(r) ==
  /\ watchdog[r] = "supervising" /\ host[r] = "dead"
  /\ Watch(r, IF LockHeld(r) THEN "gone" ELSE "locked")
  /\ UNCHANGED <<files, callers, host, flows, crashes, faults>>

(* finish_terminal_host: the grace is over, or the host has exited.         *)
SuperviseTerminal(r) ==
  /\ watchdog[r] = "supervising" /\ Terminal(control[r])
  /\ Watch(r, "gone") /\ host' = [host EXCEPT ![r] = "dead"]
  /\ socket' = socket \ {r}
  /\ UNCHANGED <<index, entry, control, evidence, callers, flows, crashes, faults>>

(* expire_hung_host: a deadline passed; the group is killed, then reconciled.*)
SuperviseExpired(r) ==
  /\ watchdog[r] = "supervising" /\ HostAlive(r) /\ ~Terminal(control[r])
  /\ host' = [host EXCEPT ![r] = "dead"]
  /\ UNCHANGED <<files, callers, watchdog, flows, crashes, faults>>

(* reconcile_dead_host: unless the control is terminal, the lost result     *)
(* replaces the one in the bundle, whose manifest is marked incomplete      *)
(* meanwhile, and then the control says whether that went well.             *)
ReconcileHost(r) ==
  /\ watchdog[r] = "locked"
  /\ socket' = socket \ {r}
  /\ \/ Terminal(control[r]) /\ Watch(r, "gone") /\ UNCHANGED evidence
     \/ /\ ~Terminal(control[r]) /\ evidence[r] \in {"none", "torn"}
        /\ Watch(r, "incomplete") /\ UNCHANGED evidence
     \/ /\ ~Terminal(control[r]) /\ evidence[r] \notin {"none", "torn"}
        /\ Watch(r, "replacing")
        /\ evidence' = [evidence EXCEPT ![r] = "torn"]
  /\ UNCHANGED <<index, entry, control, callers, host, flows, crashes, faults>>

ReplaceBundle(r) ==
  /\ watchdog[r] = "replacing"
  /\ \E w \in Writes("torn", "host_lost") :
       /\ evidence' = [evidence EXCEPT ![r] = w.content] /\ faults' = w.faults
       /\ Watch(r, IF w.ok THEN "complete" ELSE "incomplete")
  /\ UNCHANGED <<index, entry, control, socket, callers, host, flows, crashes>>

PublishLost(r) ==
  /\ watchdog[r] \in {"complete", "incomplete"}
  /\ \E w \in Writes(control[r],
                     Control("host_lost", control[r].owned, watchdog[r] = "complete")) :
       control' = [control EXCEPT ![r] = w.content] /\ faults' = w.faults
  /\ Watch(r, "gone")
  /\ UNCHANGED <<index, entry, evidence, socket, callers, host, flows, crashes>>

-----------------------------------------------------------------------------
(* The host process of a run.                                               *)
Run(r, place) == host' = [host EXCEPT ![r] = place]

(* read_bootstrap: the watchdog died before it sent the bytes.              *)
HostUnfed(r) ==
  /\ host[r] = "spawned" /\ watchdog[r] = "gone"
  /\ Run(r, "dead")
  /\ UNCHANGED <<files, callers, watchdog, flows, crashes, faults>>

BindSocket(r) ==
  /\ host[r] = "fed"
  /\ socket' = socket \cup {r} /\ Run(r, "bound")
  /\ UNCHANGED <<index, entry, control, evidence, callers, watchdog, flows,
                 crashes, faults>>

PublishInitialControl(r) ==
  /\ host[r] = "bound"
  /\ \E w \in Writes(control[r], Control("running", TRUE, FALSE)) :
       /\ control' = [control EXCEPT ![r] = w.content] /\ faults' = w.faults
       /\ Run(r, IF w.ok THEN "serving" ELSE "dead")
  /\ UNCHANGED <<index, entry, evidence, socket, callers, watchdog, flows, crashes>>

(* wait_for_client_readiness: a client is there, the watchdog is lost, or   *)
(* the lifetime is over; then the flow starts.                              *)
StartFlow(r) ==
  /\ host[r] = "serving"
  /\ Run(r, "driving") /\ flows' = flows + 1
  /\ UNCHANGED <<files, callers, watchdog, crashes, faults>>

(* A pause publishes a bundle whose result is not terminal.                 *)
Checkpoint(r) ==
  /\ host[r] = "driving" /\ evidence[r] = "none"
  /\ evidence' = [evidence EXCEPT ![r] = "open"]
  /\ UNCHANGED <<index, entry, control, socket, callers, processes, crashes, faults>>

PublishEvidence(r) ==
  /\ host[r] = "driving"
  /\ evidence' = [evidence EXCEPT ![r] = "flow"] /\ Run(r, "finished")
  /\ UNCHANGED <<index, entry, control, socket, callers, watchdog, flows,
                 crashes, faults>>

(* Mutant of PublishTerminal: a failed checkpoint does not stop the host.   *)
PublishTerminalAnyway(r) ==
  /\ host[r] = "finished"
  /\ \E w \in Writes(control[r], Control("flow", TRUE, TRUE)) :
       control' = [control EXCEPT ![r] = w.content] /\ faults' = w.faults
  /\ Run(r, "sealing")
  /\ UNCHANGED <<index, entry, evidence, socket, callers, watchdog, flows, crashes>>

(* finalize_flow: the terminal control, the entry, the index, the socket.   *)
PublishTerminal(r) ==
  /\ host[r] = "finished"
  /\ \E w \in Writes(control[r], Control("flow", TRUE, TRUE)) :
       /\ control' = [control EXCEPT ![r] = w.content] /\ faults' = w.faults
       /\ Run(r, IF w.ok THEN "sealing" ELSE "dead")
  /\ UNCHANGED <<index, entry, evidence, socket, callers, watchdog, flows, crashes>>

SealRun(r) ==
  /\ host[r] = "sealing"
  /\ \E w \in Writes(entry[r], Complete(r, "flow")) :
       /\ entry' = [entry EXCEPT ![r] = w.content] /\ faults' = w.faults
       /\ Run(r, IF w.ok THEN "indexing" ELSE "dead")
  /\ UNCHANGED <<index, control, evidence, socket, callers, watchdog, flows, crashes>>

CloseRun(r) ==
  /\ host[r] = "indexing"
  /\ \E w \in Writes(index, Complete(r, "flow")) :
       /\ index' = w.content /\ faults' = w.faults
       /\ socket' = IF w.ok THEN socket \ {r} ELSE socket
  /\ Run(r, "dead")
  /\ UNCHANGED <<entry, control, evidence, callers, watchdog, flows, crashes>>

-----------------------------------------------------------------------------
(* Any process may be killed.                                               *)
Crash ==
  /\ crashes < MaxCrashes /\ crashes' = crashes + 1
  /\ \/ \E c \in Callers :
          /\ pc[c] \notin {"start", "done"}
          /\ Goto(c, "done") /\ out' = [out EXCEPT ![c] = "killed"]
          /\ requestLock' = Unlocked(c)
          /\ UNCHANGED <<watchdog, host>>
     \/ \E r \in Runs : WatchdogAlive(r) /\ Watch(r, "gone") /\ UNCHANGED <<pc, out, requestLock, host>>
     \/ \E r \in Runs : HostAlive(r) /\ Run(r, "dead") /\ UNCHANGED <<pc, out, requestLock, watchdog>>
  /\ UNCHANGED <<files, run, seen, flows, faults>>

CallerNext(c) ==
  \/ Lock(c) \/ Lookup(c) \/ RecordIntent(c) \/ RecordEntry(c)
  \/ StopAtAdmission(c) \/ Seal(c) \/ Close(c)
  \/ InitializeBasis(c) \/ SpawnWatchdog(c) \/ SendBootstrap(c) \/ AwaitReadiness(c)
  \/ ReadControl(c) \/ RereadControl(c) \/ ProbeBootstrap(c) \/ ReconcileBootstrap(c)
  \/ Attach(c) \/ ConfirmDead(c) \/ Recover(c) \/ Wait(c) \/ DoubtHost(c) \/ PublishLoss(c)

WatchdogNext(r) ==
  \/ WatchdogUnfed(r) \/ SpawnHost(r) \/ FeedHost(r)
  \/ SuperviseDead(r) \/ SuperviseTerminal(r) \/ SuperviseExpired(r)
  \/ ReconcileHost(r) \/ ReplaceBundle(r) \/ PublishLost(r)

HostNext(r) ==
  \/ HostUnfed(r) \/ BindSocket(r) \/ PublishInitialControl(r) \/ StartFlow(r)
  \/ Checkpoint(r) \/ PublishEvidence(r) \/ PublishTerminal(r) \/ SealRun(r) \/ CloseRun(r)

Next ==
  \/ \E c \in Callers : CallerNext(c) \/ WatchdogNext(c) \/ HostNext(c)
  \/ Crash

Init ==
  /\ index = NoRecord
  /\ entry = [r \in Runs |-> NoRecord]
  /\ control = [r \in Runs |-> NoControl]
  /\ evidence = [r \in Runs |-> "none"]
  /\ socket = {}
  /\ requestLock = NoCaller
  /\ pc = [c \in Callers |-> "start"]
  /\ run = [c \in Callers |-> NoCaller]
  /\ seen = [c \in Callers |-> NoControl]
  /\ out = [c \in Callers |-> "none"]
  /\ watchdog = [r \in Runs |-> "none"]
  /\ host = [r \in Runs |-> "none"]
  /\ flows = 0
  /\ crashes = 0 /\ faults = 0

Spec == Init /\ [][Next]_vars
(* Every process makes its steps; nothing it waits for is unbounded.        *)
FairSpec ==
  /\ Spec
  /\ \A c \in Callers :
       WF_vars(CallerNext(c)) /\ WF_vars(WatchdogNext(c)) /\ WF_vars(HostNext(c))

-----------------------------------------------------------------------------
(* Every variable has its type, and a caller past its lookup has a run.     *)
Answers == States \cup {"none", "conflict", "killed", Error}
Controls == [state : States \cup {"absent"}, owned : BOOLEAN, complete : BOOLEAN]
TypeOK ==
  /\ index \in Records /\ entry \in [Runs -> Records]
  /\ control \in [Runs -> Controls] /\ evidence \in [Runs -> Bundles]
  /\ socket \subseteq Runs /\ requestLock \in Callers \cup {NoCaller}
  /\ pc \in [Callers -> {"start", "lookup", "intent", "entry", "stop", "seal", "close",
                         "basis", "spawn", "send", "await", "read", "reread", "probe",
                         "reconcile", "attach", "confirm", "recover", "wait", "doubt", "lose", "done"}]
  /\ run \in [Callers -> Runs \cup {NoCaller}]
  /\ \A c \in Callers : pc[c] \notin {"start", "lookup", "done"} => run[c] \in Runs
  /\ seen \in [Callers -> Controls]
  /\ out \in [Callers -> Answers]
  /\ watchdog \in [Runs -> {"none", "spawned", "framed", "feeding", "supervising", "locked",
                            "replacing", "complete", "incomplete", "gone"}]
  /\ host \in [Runs -> {"none", "spawned", "fed", "bound", "serving", "driving", "finished",
                        "sealing", "indexing", "dead"}]
  /\ flows \in Nat /\ crashes \in 0 .. MaxCrashes /\ faults \in 0 .. MaxFaults

(* A bootstrap that a retry gave up as abandoned never turns into a run: no *)
(* flow was started, no host lives, and nobody is left who may spawn one.   *)
AbandonedStaysUnstarted ==
  \A r \in Runs : control[r].state = "abandoned" =>
    /\ flows = 0 /\ ~HostAlive(r)
    /\ watchdog[r] \notin {"spawned", "framed"} /\ pc[r] \notin {"spawn", "send"}

(* The record a request id is answered from is confirmed by the evidence and*)
(* by the record of its run, whoever finalized it, host or retry.           *)
RecordIsConfirmed ==
  index.phase = "complete" =>
    evidence[index.run] = index.result /\ entry[index.run] = index

(* README: reusing an id with the same input recovers the existing response,*)
(* reusing it with different input is a conflict.  No two callers are given *)
(* different terminal results, and none the result of another job.          *)
AnswersAgree ==
  \A c \in Callers : pc[c] = "done" /\ out[c] \in States =>
    /\ JobOf[c] = JobOf[index.run]
    /\ \A d \in Callers : pc[d] = "done" /\ {out[c], out[d]} \subseteq Terminals => out[c] = out[d]

(* No caller is left waiting for another one, for a host or for a lock.     *)
CallersReturn == \A c \in Callers : <>(pc[c] = "done")

Request == INSTANCE RunRequest WITH
  NoJob <- NoJob, Responses <- Terminals, NoResponse <- "none",
  claim <- IF index.phase = "absent" THEN NoJob ELSE JobOf[index.run],
  starts <- flows,
  abandoned <- \E r \in Runs : control[r].state = "abandoned",
  response <- index.result

(* The processes together keep the promise of RunRequest.                   *)
ImplementsRequest == Request!Spec
=============================================================================
