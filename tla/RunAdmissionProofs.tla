------------------------- MODULE RunAdmissionProofs -------------------------
(* The inductive invariant of RunAdmission, the theorems that rest on it, and*)
(* the step simulation that shows it to implement RunRequest.                *)
EXTENDS RunAdmission, TLAPS

-----------------------------------------------------------------------------
(* The controls that are written.                                            *)
FreshControl == Control("running", FALSE, FALSE)
OwnedControl == Control("running", TRUE, FALSE)
FlowControl == Control("flow", TRUE, TRUE)
AbandonedControl == Control("abandoned", FALSE, FALSE)
LossControl == Control("host_lost", TRUE, FALSE)
LostControl(r) == Control("host_lost", control[r].owned, watchdog[r] = "complete")

(* The request id has one run: the index names it from the first record on,  *)
(* and no other run has a file or a process.                                 *)
Used == index.phase # "absent"
TheRun == index.run
Untouched(r) ==
  /\ entry[r] = NoRecord /\ control[r] = NoControl /\ evidence[r] = "none" /\ r \notin socket
  /\ watchdog[r] = "none" /\ host[r] = "none"
OneRun ==
  /\ ~Used => index = NoRecord /\ flows = 0
  /\ Used => TheRun \in Callers /\ index \in {Intent(TheRun), Complete(TheRun, index.result)}
  /\ \A r \in Runs : Untouched(r) \/ (Used /\ r = TheRun)

(* Who holds the request lock.                                               *)
Holding == {"lookup", "intent", "entry", "stop", "seal", "close", "basis", "spawn", "send", "await",
            "read", "reread", "probe", "reconcile", "attach", "confirm", "recover"}
Unbound == {"start", "lookup", "intent", "done"}
RequestLockInv == \A c \in Callers : pc[c] \in Holding <=> requestLock = c

(* The processes of the run start in their order, each once, and a job that  *)
(* misses a value gets none.                                                 *)
BootstrapOK ==
  /\ pc[TheRun] \in {"entry", "basis"} =>
       /\ entry[TheRun].phase # "complete"
       /\ control[TheRun] = NoControl /\ evidence[TheRun] = "none" /\ watchdog[TheRun] = "none"
  /\ pc[TheRun] = "spawn" => watchdog[TheRun] = "none"
  /\ pc[TheRun] = "send" => watchdog[TheRun] \in {"spawned", "gone"}
  /\ pc[TheRun] \in {"spawn", "send"} => host[TheRun] = "none"
  /\ watchdog[TheRun] \in {"none", "spawned", "framed"} => host[TheRun] = "none"
  /\ watchdog[TheRun] = "feeding" => host[TheRun] \in {"spawned", "dead"}
  /\ pc[TheRun] \in {"spawn", "send"} \/ watchdog[TheRun] \in {"spawned", "framed"} =>
       control[TheRun] = FreshControl
  /\ watchdog[TheRun] # "none" => control[TheRun] # NoControl
BlockedOK ==
  JobOf[TheRun] \in Blocked =>
    /\ control[TheRun] = NoControl /\ watchdog[TheRun] = "none" /\ host[TheRun] = "none"
    /\ evidence[TheRun] \in {"none", "missing_value"}

(* The holders of the run lock: the creator until it sent the frames, the    *)
(* watchdog until it spawned the host and when it reconciles, the host.      *)
Locking == {"spawned", "framed", "locked", "replacing", "complete", "incomplete"}
Busy == HostAlive(TheRun) \/ watchdog[TheRun] \in Locking \/ pc[TheRun] \in {"spawn", "send"}
RunLockOK ==
  HostAlive(TheRun) => watchdog[TheRun] \notin Locking /\ pc[TheRun] \notin {"spawn", "send"}

(* What the control says of the processes, and the evidence behind an end.   *)
ControlOK ==
  /\ flows # 0 => control[TheRun].owned
  /\ control[TheRun].state = "absent" => control[TheRun] = NoControl
  /\ control[TheRun].state = "abandoned" =>
       /\ control[TheRun] = AbandonedControl
       /\ ~HostAlive(TheRun) /\ watchdog[TheRun] \notin {"spawned", "framed"}
       /\ pc[TheRun] \notin {"spawn", "send"}
  /\ control[TheRun] = NoControl /\ JobOf[TheRun] \notin Blocked => evidence[TheRun] = "none"
  /\ Terminal(control[TheRun]) /\ control[TheRun].complete =>
       evidence[TheRun] = control[TheRun].state
  /\ host[TheRun] \in {"sealing", "indexing"} => control[TheRun] = FlowControl
  /\ HostAlive(TheRun) /\ host[TheRun] \notin {"sealing", "indexing"} => ~Terminal(control[TheRun])
  /\ host[TheRun] \in {"none", "spawned", "fed", "bound", "serving"} => flows = 0
  /\ host[TheRun] \in {"serving", "driving", "finished"} => control[TheRun].owned
  /\ host[TheRun] = "finished" => evidence[TheRun] = "flow"
  /\ watchdog[TheRun] \in {"replacing", "complete", "incomplete"} => ~Terminal(control[TheRun])
  /\ watchdog[TheRun] = "replacing" => evidence[TheRun] = "torn"
  /\ watchdog[TheRun] = "complete" => evidence[TheRun] = "host_lost"

(* A result that may be recorded, and the record that says it.               *)
Sealed ==
  /\ evidence[TheRun] \in Terminals
  /\ \/ Terminal(control[TheRun]) /\ control[TheRun].complete
     \/ JobOf[TheRun] \in Blocked
RecordOK ==
  /\ entry[TheRun].phase = "complete" => Sealed /\ entry[TheRun] = Complete(TheRun, evidence[TheRun])
  /\ host[TheRun] = "indexing" => entry[TheRun].phase = "complete"
  /\ index.phase = "complete" => entry[TheRun] = index
RunInv == Used => BootstrapOK /\ BlockedOK /\ RunLockOK /\ ControlOK /\ RecordOK

(* What a caller knows of the run it works on, and what it was told.         *)
Ended(s) ==
  \/ Terminal(control[TheRun]) /\ s = control[TheRun].state
  \/ JobOf[TheRun] \in Blocked /\ s = "missing_value"
Bound(c) == Used /\ run[c] = TheRun /\ JobOf[c] = JobOf[TheRun]
PlaceOK(c) ==
  /\ pc[c] = "intent" => ~Used /\ run[c] = c
  /\ pc[c] \notin Unbound => Bound(c)
  /\ pc[c] \in {"entry", "basis", "spawn", "send"} => run[c] = c
  /\ pc[c] \notin Unbound \cup {"entry", "stop", "seal", "close"} => JobOf[c] \notin Blocked
  /\ pc[c] = "stop" => JobOf[c] \in Blocked
KnowsOK(c) ==
  /\ pc[c] = "attach" /\ Terminal(seen[c]) /\ seen[c].complete => control[TheRun] = seen[c]
  /\ pc[c] = "recover" =>
       Sealed \/ (control[TheRun] = NoControl /\ evidence[TheRun] = "none")
  /\ pc[c] \in {"seal", "close"} => Sealed /\ out[c] = evidence[TheRun]
  /\ pc[c] = "close" => entry[TheRun].phase = "complete"
  /\ pc[c] \in {"reconcile", "lose"} => ~Busy
  /\ pc[c] \in {"doubt", "lose"} => control[TheRun].owned
ToldOK(c) ==
  pc[c] = "done" /\ out[c] \in States =>
    /\ Used /\ JobOf[c] = JobOf[TheRun]
    /\ out[c] \in Terminals => Ended(out[c])
CallersInv == \A c \in Callers : PlaceOK(c) /\ KnowsOK(c) /\ ToldOK(c)

AdmissionInv == TypeOK /\ OneRun /\ RequestLockInv /\ RunInv /\ CallersInv

-----------------------------------------------------------------------------
(* The values that are written.                                              *)
LEMMA RecordValues ==
  /\ NoRecord \in Records
  /\ \A r \in Callers : Intent(r) \in Records
  /\ \A r \in Callers, s \in Terminals : Complete(r, s) \in Records
  BY DEF Records, Intent, Complete, NoRecord, States

(* The controls that admission writes, and what each of them says.          *)
LEMMA ControlValues ==
  /\ {FreshControl, OwnedControl, FlowControl, AbandonedControl, LossControl, NoControl} \subseteq Controls
  /\ FreshControl.state = "running" /\ ~FreshControl.owned /\ ~FreshControl.complete
  /\ OwnedControl.state = "running" /\ OwnedControl.owned /\ ~OwnedControl.complete
  /\ FlowControl.state = "flow" /\ FlowControl.owned /\ FlowControl.complete
  /\ AbandonedControl.state = "abandoned" /\ ~AbandonedControl.owned /\ ~AbandonedControl.complete
  /\ LossControl.state = "host_lost" /\ LossControl.owned /\ ~LossControl.complete
  /\ NoControl.state = "absent" /\ ~NoControl.owned /\ ~NoControl.complete
  BY DEF FreshControl, OwnedControl, FlowControl, AbandonedControl, LossControl,
         Controls, Control, NoControl, States, Terminals

(* A write succeeds with the new content, or fails with either.             *)
LEMMA WriteOK ==
  ASSUME NEW old, NEW new, NEW w \in Writes(old, new), faults \in 0 .. MaxFaults
  PROVE  /\ w.content \in {old, new} /\ w.faults \in 0 .. MaxFaults
         /\ w.ok \in BOOLEAN /\ (w.ok => w.content = new)
<1>1. CASE w = [ok |-> TRUE, content |-> new, faults |-> faults]
  BY <1>1
<1>2. ASSUME faults < MaxFaults, NEW x \in {old, new}, w = [ok |-> FALSE, content |-> x, faults |-> faults + 1]
      PROVE  /\ w.content \in {old, new} /\ w.faults \in 0 .. MaxFaults /\ w.ok = FALSE
  BY <1>2, BoundsAssumption
<1> QED
  BY <1>1, <1>2 DEF Writes

-----------------------------------------------------------------------------
(* What the steps that write a file do: the write succeeds, or fails with    *)
(* the old or the new content in place.                                      *)
LEMMA RecordIntentDoes ==
  ASSUME TypeOK, NEW c \in Callers, RecordIntent(c)
  PROVE  /\ pc[c] = "intent" /\ faults' \in 0 .. MaxFaults
         /\ UNCHANGED <<entry, control, evidence, socket, run, seen, watchdog, host, flows, crashes>>
         /\ \/ index' = Intent(c) /\ Goto(c, "entry") /\ Stays
            \/ index' \in {index, Intent(c)} /\ Return(c, Error)
<1> DEFINE new == Intent(c)
<1> HIDE DEF new
<1>1. PICK w \in Writes(index, new) :
        /\ index' = w.content /\ faults' = w.faults
        /\ IF w.ok THEN Goto(c, "entry") /\ Stays ELSE Return(c, Error)
  BY DEF RecordIntent, new
<1>2. w.content \in {index, new} /\ w.faults \in 0 .. MaxFaults /\ (w.ok => w.content = new)
  BY <1>1, WriteOK DEF TypeOK
<1> QED
  BY <1>1, <1>2 DEF RecordIntent, files, callers, processes, new

(* The record in the directory of the run is the one of its request.        *)
LEMMA RecordEntryDoes ==
  ASSUME TypeOK, NEW c \in Callers, RecordEntry(c)
  PROVE  /\ pc[c] = "entry" /\ faults' \in 0 .. MaxFaults
         /\ UNCHANGED <<index, control, evidence, socket, run, seen, watchdog, host, flows, crashes>>
         /\ \/ entry' = [entry EXCEPT ![c] = Intent(c)] /\ Admitted(c, "basis") /\ Stays
            \/ entry' \in {entry, [entry EXCEPT ![c] = Intent(c)]} /\ Return(c, Error)
<1> DEFINE new == Intent(c)
<1> HIDE DEF new
<1>1. PICK w \in Writes(entry[c], new) :
        /\ entry' = [entry EXCEPT ![c] = w.content] /\ faults' = w.faults
        /\ IF w.ok THEN Admitted(c, "basis") /\ Stays ELSE Return(c, Error)
  BY DEF RecordEntry, new
<1>2. w.content \in {entry[c], new} /\ w.faults \in 0 .. MaxFaults /\ (w.ok => w.content = new)
  BY <1>1, WriteOK DEF TypeOK
<1>3. [entry EXCEPT ![c] = entry[c]] = entry
  BY DEF TypeOK, Runs
<1> QED
  BY <1>1, <1>2, <1>3 DEF RecordEntry, files, callers, processes, new

(* A caller finalizes the record of the run with what it answers.           *)
LEMMA SealDoes ==
  ASSUME TypeOK, NEW c \in Callers, Seal(c)
  PROVE  /\ pc[c] = "seal" /\ faults' \in 0 .. MaxFaults
         /\ UNCHANGED <<index, control, evidence, socket, run, seen, watchdog, host, flows, crashes>>
         /\ \/ entry' = [entry EXCEPT ![run[c]] = Complete(run[c], out[c])] /\ Goto(c, "close") /\ Stays
            \/ entry' \in {entry, [entry EXCEPT ![run[c]] = Complete(run[c], out[c])]} /\ Return(c, Error)
<1> DEFINE new == Complete(run[c], out[c])
<1> HIDE DEF new
<1>1. PICK w \in Writes(entry[run[c]], new) :
        /\ entry' = [entry EXCEPT ![run[c]] = w.content] /\ faults' = w.faults
        /\ IF w.ok THEN Goto(c, "close") /\ Stays ELSE Return(c, Error)
  BY DEF Seal, new
<1>2. w.content \in {entry[run[c]], new} /\ w.faults \in 0 .. MaxFaults /\ (w.ok => w.content = new)
  BY <1>1, WriteOK DEF TypeOK
<1>3. [entry EXCEPT ![run[c]] = entry[run[c]]] = entry
  BY DEF TypeOK, Runs
<1> QED
  BY <1>1, <1>2, <1>3 DEF Seal, files, callers, processes, new

(* Then it finalizes that of the request, and returns.                      *)
LEMMA CloseDoes ==
  ASSUME TypeOK, NEW c \in Callers, Close(c)
  PROVE  /\ pc[c] = "close" /\ faults' \in 0 .. MaxFaults
         /\ UNCHANGED <<entry, control, evidence, socket, run, seen, watchdog, host, flows, crashes>>
         /\ \/ index' = Complete(run[c], out[c]) /\ Return(c, out[c])
            \/ index' \in {index, Complete(run[c], out[c])} /\ Return(c, Error)
<1> DEFINE new == Complete(run[c], out[c])
<1> HIDE DEF new
<1>1. PICK w \in Writes(index, new) :
        /\ index' = w.content /\ faults' = w.faults
        /\ IF w.ok THEN Return(c, out[c]) ELSE Return(c, Error)
  BY DEF Close, new
<1>2. w.content \in {index, new} /\ w.faults \in 0 .. MaxFaults /\ (w.ok => w.content = new)
  BY <1>1, WriteOK DEF TypeOK
<1> QED
  BY <1>1, <1>2 DEF Close, files, callers, processes, new

(* A run stopped at admission has only evidence of that.                    *)
LEMMA StopAtAdmissionDoes ==
  ASSUME TypeOK, NEW c \in Callers, StopAtAdmission(c)
  PROVE  /\ pc[c] = "stop" /\ faults' \in 0 .. MaxFaults
         /\ UNCHANGED <<index, entry, control, socket, run, seen, watchdog, host, flows, crashes>>
         /\ \/ evidence' = [evidence EXCEPT ![run[c]] = "missing_value"] /\ Finalize(c, "missing_value")
            \/ evidence' \in {evidence, [evidence EXCEPT ![run[c]] = "missing_value"]} /\ Return(c, Error)
<1> DEFINE new == "missing_value"
<1> HIDE DEF new
<1>1. PICK w \in Writes(evidence[run[c]], new) :
        /\ evidence' = [evidence EXCEPT ![run[c]] = w.content] /\ faults' = w.faults
        /\ IF w.ok THEN Finalize(c, "missing_value") ELSE Return(c, Error)
  BY DEF StopAtAdmission, new
<1>2. w.content \in {evidence[run[c]], new} /\ w.faults \in 0 .. MaxFaults /\ (w.ok => w.content = new)
  BY <1>1, WriteOK DEF TypeOK
<1>3. [evidence EXCEPT ![run[c]] = evidence[run[c]]] = evidence
  BY DEF TypeOK, Runs
<1> QED
  BY <1>1, <1>2, <1>3 DEF StopAtAdmission, files, callers, processes, new

(* The first control of a run says that nobody owns it yet.                 *)
LEMMA InitializeBasisDoes ==
  ASSUME TypeOK, NEW c \in Callers, InitializeBasis(c)
  PROVE  /\ pc[c] = "basis" /\ faults' \in 0 .. MaxFaults
         /\ UNCHANGED <<index, entry, evidence, socket, run, seen, watchdog, host, flows, crashes>>
         /\ \/ control' = [control EXCEPT ![c] = FreshControl] /\ Goto(c, "spawn") /\ Stays
            \/ control' \in {control, [control EXCEPT ![c] = FreshControl]} /\ Return(c, Error)
<1> DEFINE new == FreshControl
<1> HIDE DEF new
<1>1. PICK w \in Writes(control[c], new) :
        /\ control' = [control EXCEPT ![c] = w.content] /\ faults' = w.faults
        /\ IF w.ok THEN Goto(c, "spawn") /\ Stays ELSE Return(c, Error)
  BY DEF InitializeBasis, new, FreshControl, OwnedControl, FlowControl
<1>2. w.content \in {control[c], new} /\ w.faults \in 0 .. MaxFaults /\ (w.ok => w.content = new)
  BY <1>1, WriteOK DEF TypeOK
<1>3. [control EXCEPT ![c] = control[c]] = control
  BY DEF TypeOK, Runs
<1> QED
  BY <1>1, <1>2, <1>3 DEF InitializeBasis, files, callers, processes, new

(* The control of a host that is bound says that the run is owned.          *)
LEMMA PublishInitialControlDoes ==
  ASSUME TypeOK, NEW r \in Runs, PublishInitialControl(r)
  PROVE  /\ host[r] = "bound" /\ faults' \in 0 .. MaxFaults
         /\ UNCHANGED <<index, entry, evidence, socket, requestLock, pc, run, seen, out, watchdog, flows, crashes>>
         /\ \/ control' = [control EXCEPT ![r] = OwnedControl] /\ Run(r, "serving")
            \/ control' \in {control, [control EXCEPT ![r] = OwnedControl]} /\ Run(r, "dead")
<1> DEFINE new == OwnedControl
<1> HIDE DEF new
<1>1. PICK w \in Writes(control[r], new) :
        /\ control' = [control EXCEPT ![r] = w.content] /\ faults' = w.faults
        /\ IF w.ok THEN Run(r, "serving") ELSE Run(r, "dead")
  BY DEF PublishInitialControl, new, FreshControl, OwnedControl, FlowControl, Run
<1>2. w.content \in {control[r], new} /\ w.faults \in 0 .. MaxFaults /\ (w.ok => w.content = new)
  BY <1>1, WriteOK DEF TypeOK
<1>3. [control EXCEPT ![r] = control[r]] = control
  BY DEF TypeOK, Runs
<1> QED
  BY <1>1, <1>2, <1>3 DEF PublishInitialControl, files, callers, processes, new

(* A host that has finished publishes its flow's end.                       *)
LEMMA PublishTerminalDoes ==
  ASSUME TypeOK, NEW r \in Runs, PublishTerminal(r)
  PROVE  /\ host[r] = "finished" /\ faults' \in 0 .. MaxFaults
         /\ UNCHANGED <<index, entry, evidence, socket, requestLock, pc, run, seen, out, watchdog, flows, crashes>>
         /\ \/ control' = [control EXCEPT ![r] = FlowControl] /\ Run(r, "sealing")
            \/ control' \in {control, [control EXCEPT ![r] = FlowControl]} /\ Run(r, "dead")
<1> DEFINE new == FlowControl
<1> HIDE DEF new
<1>1. PICK w \in Writes(control[r], new) :
        /\ control' = [control EXCEPT ![r] = w.content] /\ faults' = w.faults
        /\ IF w.ok THEN Run(r, "sealing") ELSE Run(r, "dead")
  BY DEF PublishTerminal, new, FreshControl, OwnedControl, FlowControl, Run
<1>2. w.content \in {control[r], new} /\ w.faults \in 0 .. MaxFaults /\ (w.ok => w.content = new)
  BY <1>1, WriteOK DEF TypeOK
<1>3. [control EXCEPT ![r] = control[r]] = control
  BY DEF TypeOK, Runs
<1> QED
  BY <1>1, <1>2, <1>3 DEF PublishTerminal, files, callers, processes, new

(* It seals the record of its run with the evidence it published.           *)
LEMMA SealRunDoes ==
  ASSUME TypeOK, NEW r \in Runs, SealRun(r)
  PROVE  /\ host[r] = "sealing" /\ faults' \in 0 .. MaxFaults
         /\ UNCHANGED <<index, control, evidence, socket, requestLock, pc, run, seen, out, watchdog, flows, crashes>>
         /\ \/ entry' = [entry EXCEPT ![r] = Complete(r, "flow")] /\ Run(r, "indexing")
            \/ entry' \in {entry, [entry EXCEPT ![r] = Complete(r, "flow")]} /\ Run(r, "dead")
<1> DEFINE new == Complete(r, "flow")
<1> HIDE DEF new
<1>1. PICK w \in Writes(entry[r], new) :
        /\ entry' = [entry EXCEPT ![r] = w.content] /\ faults' = w.faults
        /\ IF w.ok THEN Run(r, "indexing") ELSE Run(r, "dead")
  BY DEF SealRun, new, Run
<1>2. w.content \in {entry[r], new} /\ w.faults \in 0 .. MaxFaults /\ (w.ok => w.content = new)
  BY <1>1, WriteOK DEF TypeOK
<1>3. [entry EXCEPT ![r] = entry[r]] = entry
  BY DEF TypeOK, Runs
<1> QED
  BY <1>1, <1>2, <1>3 DEF SealRun, files, callers, processes, new

(* The watchdog writes the loss into the evidence first.                    *)
LEMMA ReplaceBundleDoes ==
  ASSUME TypeOK, NEW r \in Runs, Used, r = TheRun, RunInv, ReplaceBundle(r)
  PROVE  /\ watchdog[r] = "replacing" /\ faults' \in 0 .. MaxFaults
         /\ UNCHANGED <<index, entry, control, socket, requestLock, pc, run, seen, out, host, flows, crashes>>
         /\ \/ evidence' = [evidence EXCEPT ![r] = "host_lost"] /\ Watch(r, "complete")
            \/ evidence' \in {evidence, [evidence EXCEPT ![r] = "host_lost"]} /\ Watch(r, "incomplete")
<1> DEFINE new == "host_lost"
<1> HIDE DEF new
<1>1. PICK w \in Writes("torn", new) :
        /\ evidence' = [evidence EXCEPT ![r] = w.content] /\ faults' = w.faults
        /\ IF w.ok THEN Watch(r, "complete") ELSE Watch(r, "incomplete")
  BY DEF ReplaceBundle, new, Watch
<1>2. w.content \in {"torn", new} /\ w.faults \in 0 .. MaxFaults /\ (w.ok => w.content = new)
  BY <1>1, WriteOK DEF TypeOK
<1>3. [evidence EXCEPT ![r] = "torn"] = evidence
  BY DEF ReplaceBundle, RunInv, ControlOK, TypeOK, Runs
<1> QED
  BY <1>1, <1>2, <1>3 DEF ReplaceBundle, files, callers, processes, new

(* The control of a loss.                                                   *)
LEMMA LostValues ==
  ASSUME NEW r \in Runs, TypeOK
  PROVE  /\ LostControl(r) \in Controls /\ LostControl(r).state = "host_lost"
         /\ LostControl(r).owned = control[r].owned
         /\ LostControl(r).complete <=> watchdog[r] = "complete"
<1>1. control[r].owned \in BOOLEAN
  BY DEF TypeOK, Controls
<1> QED
  BY <1>1 DEF LostControl, Controls, Control, States, Terminals

(* A retry abandons a run that nobody owned.                                *)
LEMMA ReconcileBootstrapDoes ==
  ASSUME TypeOK, NEW c \in Callers, ReconcileBootstrap(c)
  PROVE  /\ pc[c] = "reconcile" /\ faults' \in 0 .. MaxFaults
         /\ UNCHANGED <<index, entry, evidence, socket, run, watchdog, host, flows, crashes>>
         /\ \/ /\ UNCHANGED control /\ Stays
               /\ \/ seen' = [seen EXCEPT ![c] = control[run[c]]] /\ Goto(c, "attach")
                  \/ UNCHANGED seen /\ Goto(c, "await")
            \/ /\ Bootstrapping(control[run[c]]) /\ seen' = [seen EXCEPT ![c] = AbandonedControl]
               /\ control' \in {control, [control EXCEPT ![run[c]] = AbandonedControl]}
               /\ (Goto(c, "attach") /\ Stays) \/ Return(c, Error)
<1> DEFINE new == AbandonedControl
<1> HIDE DEF new
<1> USE DEF ReconcileBootstrap, AbandonedControl, files, processes, Stays
<1>1. CASE /\ Bootstrapping(control[run[c]])
           /\ \E w \in Writes(control[run[c]], new) :
                /\ control' = [control EXCEPT ![run[c]] = w.content] /\ faults' = w.faults
                /\ seen' = [seen EXCEPT ![c] = AbandonedControl]
                /\ IF w.ok THEN Goto(c, "attach") /\ Stays ELSE Return(c, Error)
  <2>1. PICK w \in Writes(control[run[c]], new) :
          /\ control' = [control EXCEPT ![run[c]] = w.content] /\ faults' = w.faults
          /\ seen' = [seen EXCEPT ![c] = AbandonedControl]
          /\ IF w.ok THEN Goto(c, "attach") /\ Stays ELSE Return(c, Error)
    BY <1>1
  <2>2. w.content \in {control[run[c]], new} /\ w.faults \in 0 .. MaxFaults
    BY <2>1, WriteOK DEF TypeOK
  <2>3. [control EXCEPT ![run[c]] = control[run[c]]] = control
    BY DEF TypeOK, Runs
  <2> QED
    BY <1>1, <2>1, <2>2, <2>3 DEF new
<1>2. CASE UNCHANGED <<control, faults>> /\ Stays
  BY <1>2 DEF TypeOK
<1> QED
  BY <1>1, <1>2 DEF new

(* A caller that found an owned run without a host publishes its loss.      *)
LEMMA PublishLossDoes ==
  ASSUME TypeOK, NEW c \in Callers, PublishLoss(c)
  PROVE  /\ pc[c] = "lose" /\ faults' \in 0 .. MaxFaults /\ socket' \subseteq socket
         /\ UNCHANGED <<index, entry, evidence, requestLock, run, seen, watchdog, host, flows, crashes>>
         /\ \/ UNCHANGED control
            \/ /\ ~Terminal(control[run[c]])
               /\ control' = [control EXCEPT ![run[c]] = LossControl]
         /\ (Goto(c, "wait") /\ UNCHANGED out) \/ (Goto(c, "done") /\ out' = [out EXCEPT ![c] = Error])
<1> DEFINE new == LossControl
<1> HIDE DEF new
<1> USE DEF PublishLoss, files, processes
<1>1. CASE /\ ~Terminal(control[run[c]]) /\ socket' = socket \ {run[c]}
           /\ \E w \in Writes(control[run[c]], new) :
                /\ control' = [control EXCEPT ![run[c]] = w.content] /\ faults' = w.faults
                /\ IF w.ok THEN Goto(c, "wait") /\ UNCHANGED out
                   ELSE Goto(c, "done") /\ out' = [out EXCEPT ![c] = Error]
  <2>1. PICK w \in Writes(control[run[c]], new) :
          /\ control' = [control EXCEPT ![run[c]] = w.content] /\ faults' = w.faults
          /\ IF w.ok THEN Goto(c, "wait") /\ UNCHANGED out
             ELSE Goto(c, "done") /\ out' = [out EXCEPT ![c] = Error]
    BY <1>1
  <2>2. w.content \in {control[run[c]], new} /\ w.faults \in 0 .. MaxFaults
    BY <2>1, WriteOK DEF TypeOK
  <2>3. [control EXCEPT ![run[c]] = control[run[c]]] = control
    BY DEF TypeOK, Runs
  <2> QED
    BY <1>1, <2>1, <2>2, <2>3 DEF new
<1>2. CASE Terminal(control[run[c]])
  BY <1>2 DEF TypeOK
<1> QED
  BY <1>1, <1>2 DEF new, LossControl

(* The watchdog publishes the loss of its host.                             *)
LEMMA PublishLostDoes ==
  ASSUME TypeOK, NEW r \in Runs, PublishLost(r)
  PROVE  /\ watchdog[r] \in {"complete", "incomplete"} /\ Watch(r, "gone")
         /\ faults' \in 0 .. MaxFaults
         /\ UNCHANGED <<index, entry, evidence, socket, requestLock, pc, run, seen, out, host, flows, crashes>>
         /\ control' \in {control, [control EXCEPT ![r] = LostControl(r)]}
<1> DEFINE new == LostControl(r)
<1> HIDE DEF new
<1>1. PICK w \in Writes(control[r], new) :
        control' = [control EXCEPT ![r] = w.content] /\ faults' = w.faults
  BY DEF PublishLost, new, LostControl
<1>2. w.content \in {control[r], new} /\ w.faults \in 0 .. MaxFaults
  BY <1>1, WriteOK DEF TypeOK
<1>3. [control EXCEPT ![r] = control[r]] = control
  BY DEF TypeOK, Runs
<1> QED
  BY <1>1, <1>2, <1>3 DEF PublishLost, callers, new

(* The host closes the record of the request, and exits.                    *)
LEMMA CloseRunDoes ==
  ASSUME TypeOK, NEW r \in Runs, CloseRun(r)
  PROVE  /\ host[r] = "indexing" /\ Run(r, "dead")
         /\ faults' \in 0 .. MaxFaults /\ socket' \subseteq socket
         /\ UNCHANGED <<entry, control, evidence, requestLock, pc, run, seen, out, watchdog, flows, crashes>>
         /\ index' \in {index, Complete(r, "flow")}
<1> DEFINE new == Complete(r, "flow")
<1> HIDE DEF new
<1>1. PICK w \in Writes(index, new) :
        index' = w.content /\ faults' = w.faults
  BY DEF CloseRun, new
<1>2. w.content \in {index, new} /\ w.faults \in 0 .. MaxFaults
  BY <1>1, WriteOK DEF TypeOK
<1> QED
  BY <1>1, <1>2 DEF CloseRun, callers, new

-----------------------------------------------------------------------------
(* The parts of TypeOK that steps disturb together.                          *)
FilesTyped ==
  /\ index \in Records /\ entry \in [Runs -> Records] /\ control \in [Runs -> Controls]
  /\ evidence \in [Runs -> Bundles] /\ socket \subseteq Runs
PlacesTyped ==
  /\ requestLock \in Callers \cup {NoCaller}
  /\ pc \in [Callers -> {"start", "lookup", "intent", "entry", "stop", "seal", "close",
                         "basis", "spawn", "send", "await", "read", "reread", "probe",
                         "reconcile", "attach", "confirm", "recover", "wait", "doubt", "lose", "done"}]
  /\ run \in [Callers -> Runs \cup {NoCaller}]
  /\ \A c \in Callers : pc[c] \notin {"start", "lookup", "done"} => run[c] \in Runs
  /\ seen \in [Callers -> Controls]
  /\ watchdog \in [Runs -> {"none", "spawned", "framed", "feeding", "supervising", "locked",
                            "replacing", "complete", "incomplete", "gone"}]
  /\ host \in [Runs -> {"none", "spawned", "fed", "bound", "serving", "driving", "finished",
                        "sealing", "indexing", "dead"}]
  /\ flows \in Nat /\ crashes \in 0 .. MaxCrashes /\ faults \in 0 .. MaxFaults

(* What the evidence of a run may say.                                      *)
LEMMA BundleValues ==
  /\ {"none", "open", "torn", "host_lost", "flow", "missing_value"} \subseteq Bundles
  /\ Terminals \subseteq Bundles
  BY DEF Bundles, Terminals

(* What a step leaves of a run: an end stays, with what it was recorded from.*)
KeepsEnds ==
  /\ Used' /\ UNCHANGED TheRun
  /\ Terminal(control[TheRun]) => UNCHANGED control[TheRun]
  /\ control[TheRun].owned => control'[TheRun].owned
  /\ Sealed => UNCHANGED evidence[TheRun]
  /\ entry[TheRun].phase = "complete" => UNCHANGED entry[TheRun]

(* What a step leaves of what caller d read and has yet to act on.           *)
LeavesTo(d) ==
  /\ pc[d] = "recover" /\ control[TheRun] = NoControl /\ evidence[TheRun] = "none" =>
       UNCHANGED <<control[TheRun], evidence[TheRun]>>
  /\ pc[d] \in {"reconcile", "lose"} /\ ~Busy => ~Busy'


-----------------------------------------------------------------------------
(* A crash is the end of one process; every step is one of a caller, or one  *)
(* of the watchdog or the host of a run.                                     *)
CallerKilled(c) ==
  /\ pc[c] \notin {"start", "done"} /\ Goto(c, "done") /\ out' = [out EXCEPT ![c] = "killed"]
  /\ requestLock' = Unlocked(c) /\ crashes' \in 0 .. MaxCrashes
  /\ UNCHANGED <<files, run, seen, processes, faults>>
WatchdogKilled(r) ==
  /\ WatchdogAlive(r) /\ Watch(r, "gone") /\ crashes' \in 0 .. MaxCrashes
  /\ UNCHANGED <<files, callers, host, flows, faults>>
HostKilled(r) ==
  /\ HostAlive(r) /\ Run(r, "dead") /\ crashes' \in 0 .. MaxCrashes
  /\ UNCHANGED <<files, callers, watchdog, flows, faults>>
CallerStep(c) == CallerNext(c) \/ CallerKilled(c)
ProcessStep(r) == WatchdogNext(r) \/ HostNext(r) \/ WatchdogKilled(r) \/ HostKilled(r)

(* Next is made of the steps of callers and processes.                       *)
LEMMA Steps ==
  ASSUME TypeOK, Next
  PROVE  \E c \in Callers : CallerStep(c) \/ ProcessStep(c)
<1>1. CASE \E c \in Callers : CallerNext(c) \/ WatchdogNext(c) \/ HostNext(c)
  BY <1>1 DEF CallerStep, ProcessStep
<1>2. CASE Crash
  <2>1. crashes' \in 0 .. MaxCrashes
    BY <1>2, BoundsAssumption DEF Crash, TypeOK
  <2> QED
    BY <1>2, <2>1 DEF Crash, CallerStep, ProcessStep, CallerKilled, WatchdogKilled, HostKilled,
                      Runs, files, callers, processes
<1> QED
  BY <1>1, <1>2 DEF Next


-----------------------------------------------------------------------------
(* Steps of a caller.                                                        *)

(* A caller changes nothing another caller keeps to itself.                  *)
LEMMA CallerMoves ==
  ASSUME NEW c \in Callers, TypeOK, NEW d \in Callers, d # c, CallerStep(c)
  PROVE  pc'[d] = pc[d] /\ run'[d] = run[d] /\ seen'[d] = seen[d] /\ out'[d] = out[d]
<1> USE CallersAssumption DEF Goto, Stays, Return, Finalize, Unlocked, Admitted, WaitForRun, Error,
      files, callers, processes, Runs, Works, Fails, Watch, Run, TypeOK
<1>1. CASE Lock(c)
  BY <1>1 DEF Lock
<1>2. CASE Lookup(c)
  BY <1>2 DEF Lookup
<1>3. CASE RecordIntent(c)
  BY <1>3, RecordIntentDoes
<1>4. CASE RecordEntry(c)
  BY <1>4, RecordEntryDoes
<1>5. CASE StopAtAdmission(c)
  BY <1>5, StopAtAdmissionDoes
<1>6. CASE Seal(c)
  BY <1>6, SealDoes
<1>7. CASE Close(c)
  BY <1>7, CloseDoes
<1>8. CASE InitializeBasis(c)
  BY <1>8, InitializeBasisDoes
<1>9. CASE SpawnWatchdog(c)
  BY <1>9 DEF SpawnWatchdog
<1>10. CASE SendBootstrap(c)
  BY <1>10 DEF SendBootstrap
<1>11. CASE AwaitReadiness(c)
  BY <1>11 DEF AwaitReadiness
<1>12. CASE ReadControl(c)
  BY <1>12 DEF ReadControl
<1>13. CASE RereadControl(c)
  BY <1>13 DEF RereadControl
<1>14. CASE ProbeBootstrap(c)
  BY <1>14 DEF ProbeBootstrap
<1>15. CASE ReconcileBootstrap(c)
  BY <1>15, ReconcileBootstrapDoes
<1>16. CASE Attach(c)
  BY <1>16 DEF Attach
<1>17. CASE ConfirmDead(c)
  BY <1>17 DEF ConfirmDead
<1>18. CASE Recover(c)
  BY <1>18 DEF Recover
<1>19. CASE Wait(c)
  BY <1>19 DEF Wait
<1>20. CASE DoubtHost(c)
  BY <1>20 DEF DoubtHost
<1>21. CASE PublishLoss(c)
  BY <1>21, PublishLossDoes
<1>22. CASE CallerKilled(c)
  BY <1>22 DEF CallerKilled
<1> QED
    BY <1>1, <1>2, <1>3, <1>4, <1>5, <1>6, <1>7, <1>8, <1>9, <1>10, <1>11, <1>12, <1>13, <1>14,
     <1>15, <1>16, <1>17, <1>18, <1>19, <1>20, <1>21, <1>22 DEF CallerStep, CallerNext

(* The request lock has one holder, and who leaves gives it up.              *)
LEMMA CallerLocks ==
  ASSUME NEW c \in Callers, TypeOK, RequestLockInv, CallerStep(c)
  PROVE  RequestLockInv'
<1> USE CallersAssumption DEF Goto, Stays, Return, Finalize, Unlocked, Admitted, WaitForRun, Error,
      files, callers, processes, Runs, Works, Fails, Watch, Run, TypeOK, RequestLockInv, Holding
<1>1. CASE Lock(c)
  BY <1>1 DEF Lock
<1>2. CASE Lookup(c)
  BY <1>2 DEF Lookup
<1>3. CASE RecordIntent(c)
  BY <1>3, RecordIntentDoes
<1>4. CASE RecordEntry(c)
  BY <1>4, RecordEntryDoes
<1>5. CASE StopAtAdmission(c)
  BY <1>5, StopAtAdmissionDoes
<1>6. CASE Seal(c)
  BY <1>6, SealDoes
<1>7. CASE Close(c)
  BY <1>7, CloseDoes
<1>8. CASE InitializeBasis(c)
  BY <1>8, InitializeBasisDoes
<1>9. CASE SpawnWatchdog(c)
  BY <1>9 DEF SpawnWatchdog
<1>10. CASE SendBootstrap(c)
  BY <1>10 DEF SendBootstrap
<1>11. CASE AwaitReadiness(c)
  BY <1>11 DEF AwaitReadiness
<1>12. CASE ReadControl(c)
  BY <1>12 DEF ReadControl
<1>13. CASE RereadControl(c)
  BY <1>13 DEF RereadControl
<1>14. CASE ProbeBootstrap(c)
  BY <1>14 DEF ProbeBootstrap
<1>15. CASE ReconcileBootstrap(c)
  BY <1>15, ReconcileBootstrapDoes
<1>16. CASE Attach(c)
  BY <1>16 DEF Attach
<1>17. CASE ConfirmDead(c)
  BY <1>17 DEF ConfirmDead
<1>18. CASE Recover(c)
  BY <1>18 DEF Recover
<1>19. CASE Wait(c)
  BY <1>19 DEF Wait
<1>20. CASE DoubtHost(c)
  BY <1>20 DEF DoubtHost
<1>21. CASE PublishLoss(c)
  BY <1>21, PublishLossDoes
<1>22. CASE CallerKilled(c)
  BY <1>22 DEF CallerKilled
<1> QED
    BY <1>1, <1>2, <1>3, <1>4, <1>5, <1>6, <1>7, <1>8, <1>9, <1>10, <1>11, <1>12, <1>13, <1>14,
     <1>15, <1>16, <1>17, <1>18, <1>19, <1>20, <1>21, <1>22 DEF CallerStep, CallerNext

(* Callers: what they write has its type.                                    *)
LEMMA CallerFiles ==
  ASSUME NEW c \in Callers, TypeOK, OneRun, RunInv, RequestLockInv, PlaceOK(c), KnowsOK(c),
         pc[c] \in {"seal", "close"} => out[c] \in Terminals, CallerStep(c)
  PROVE  FilesTyped'
<1> USE CallersAssumption DEF Goto, Stays, Return, Finalize, Unlocked, Admitted, WaitForRun, Error,
      files, callers, processes, Runs, Works, Fails, Watch, Run, TypeOK, FilesTyped, Used, PlaceOK,
      Bound, Unbound
<1>1. CASE Lock(c)
  BY <1>1, RecordValues, ControlValues, BundleValues DEF Lock
<1>2. CASE Lookup(c)
  BY <1>2, RecordValues, ControlValues, BundleValues DEF Lookup
<1>3. CASE RecordIntent(c)
  BY <1>3, RecordIntentDoes, RecordValues, ControlValues, BundleValues
<1>4. CASE RecordEntry(c)
  BY <1>4, RecordEntryDoes, RecordValues, ControlValues, BundleValues
<1>5. CASE StopAtAdmission(c)
  BY <1>5, StopAtAdmissionDoes, RecordValues, ControlValues, BundleValues
<1>6. CASE Seal(c)
  BY <1>6, SealDoes, RecordValues, ControlValues, BundleValues
<1>7. CASE Close(c)
  BY <1>7, CloseDoes, RecordValues, ControlValues, BundleValues
<1>8. CASE InitializeBasis(c)
  BY <1>8, InitializeBasisDoes, RecordValues, ControlValues, BundleValues
<1>9. CASE SpawnWatchdog(c)
  BY <1>9, RecordValues, ControlValues, BundleValues DEF SpawnWatchdog
<1>10. CASE SendBootstrap(c)
  BY <1>10, RecordValues, ControlValues, BundleValues DEF SendBootstrap
<1>11. CASE AwaitReadiness(c)
  BY <1>11, RecordValues, ControlValues, BundleValues DEF AwaitReadiness
<1>12. CASE ReadControl(c)
  BY <1>12, RecordValues, ControlValues, BundleValues DEF ReadControl
<1>13. CASE RereadControl(c)
  BY <1>13, RecordValues, ControlValues, BundleValues DEF RereadControl
<1>14. CASE ProbeBootstrap(c)
  BY <1>14, RecordValues, ControlValues, BundleValues DEF ProbeBootstrap
<1>15. CASE ReconcileBootstrap(c)
  BY <1>15, ReconcileBootstrapDoes, RecordValues, ControlValues, BundleValues
<1>16. CASE Attach(c)
  BY <1>16, RecordValues, ControlValues, BundleValues DEF Attach
<1>17. CASE ConfirmDead(c)
  BY <1>17, RecordValues, ControlValues, BundleValues DEF ConfirmDead
<1>18. CASE Recover(c)
  BY <1>18, RecordValues, ControlValues, BundleValues DEF Recover
<1>19. CASE Wait(c)
  BY <1>19, RecordValues, ControlValues, BundleValues DEF Wait
<1>20. CASE DoubtHost(c)
  BY <1>20, RecordValues, ControlValues, BundleValues DEF DoubtHost
<1>21. CASE PublishLoss(c)
  BY <1>21, PublishLossDoes, RecordValues, ControlValues, BundleValues
<1>22. CASE CallerKilled(c)
  BY <1>22, RecordValues, ControlValues, BundleValues DEF CallerKilled
<1> QED
    BY <1>1, <1>2, <1>3, <1>4, <1>5, <1>6, <1>7, <1>8, <1>9, <1>10, <1>11, <1>12, <1>13, <1>14,
     <1>15, <1>16, <1>17, <1>18, <1>19, <1>20, <1>21, <1>22 DEF CallerStep, CallerNext

(* Callers: their own variables, the processes and the counters have theirs. *)
LEMMA CallerPlaces ==
  ASSUME NEW c \in Callers, TypeOK, OneRun, RunInv, RequestLockInv, PlaceOK(c), KnowsOK(c),
         NoControl \in Controls, AbandonedControl \in Controls, CallerStep(c)
  PROVE  PlacesTyped'
<1> USE CallersAssumption DEF Goto, Stays, Return, Finalize, Unlocked, Admitted, WaitForRun, Error,
      files, callers, processes, Runs, Works, Fails, Watch, Run, TypeOK, PlacesTyped, OneRun, Used,
      TheRun
<1>1. CASE Lock(c)
  BY <1>1, BoundsAssumption DEF Lock
<1>2. CASE Lookup(c)
  BY <1>2, BoundsAssumption DEF Lookup
<1>3. CASE RecordIntent(c)
  BY <1>3, RecordIntentDoes, BoundsAssumption
<1>4. CASE RecordEntry(c)
  BY <1>4, RecordEntryDoes, BoundsAssumption
<1>5. CASE StopAtAdmission(c)
  BY <1>5, StopAtAdmissionDoes, BoundsAssumption
<1>6. CASE Seal(c)
  BY <1>6, SealDoes, BoundsAssumption
<1>7. CASE Close(c)
  BY <1>7, CloseDoes, BoundsAssumption
<1>8. CASE InitializeBasis(c)
  BY <1>8, InitializeBasisDoes, BoundsAssumption
<1>9. CASE SpawnWatchdog(c)
  BY <1>9, BoundsAssumption DEF SpawnWatchdog
<1>10. CASE SendBootstrap(c)
  BY <1>10, BoundsAssumption DEF SendBootstrap
<1>11. CASE AwaitReadiness(c)
  BY <1>11, BoundsAssumption DEF AwaitReadiness
<1>12. CASE ReadControl(c)
  BY <1>12, BoundsAssumption DEF ReadControl
<1>13. CASE RereadControl(c)
  BY <1>13, BoundsAssumption DEF RereadControl
<1>14. CASE ProbeBootstrap(c)
  BY <1>14, BoundsAssumption DEF ProbeBootstrap
<1>15. CASE ReconcileBootstrap(c)
  BY <1>15, ReconcileBootstrapDoes, BoundsAssumption
<1>16. CASE Attach(c)
  BY <1>16, BoundsAssumption DEF Attach
<1>17. CASE ConfirmDead(c)
  BY <1>17, BoundsAssumption DEF ConfirmDead
<1>18. CASE Recover(c)
  BY <1>18, BoundsAssumption DEF Recover
<1>19. CASE Wait(c)
  BY <1>19, BoundsAssumption DEF Wait
<1>20. CASE DoubtHost(c)
  BY <1>20, BoundsAssumption DEF DoubtHost
<1>21. CASE PublishLoss(c)
  BY <1>21, PublishLossDoes, BoundsAssumption
<1>22. CASE CallerKilled(c)
  BY <1>22, BoundsAssumption DEF CallerKilled
<1> QED
    BY <1>1, <1>2, <1>3, <1>4, <1>5, <1>6, <1>7, <1>8, <1>9, <1>10, <1>11, <1>12, <1>13, <1>14,
     <1>15, <1>16, <1>17, <1>18, <1>19, <1>20, <1>21, <1>22 DEF CallerStep, CallerNext

(* Callers: what they are told has its type.                                 *)
LEMMA CallerAnswers ==
  ASSUME NEW c \in Callers, TypeOK, OneRun, RunInv, RequestLockInv, PlaceOK(c), KnowsOK(c), out
         \in [Callers -> Answers], Terminals \cup {"running", "missing_value", "conflict",
         "killed", Error} \subseteq Answers, index.result \in Answers, run[c] \in Runs =>
         control[run[c]] = NoControl \/ control[run[c]].state \in Answers, CallerStep(c)
  PROVE  out' \in [Callers -> Answers]
<1> USE CallersAssumption DEF Goto, Stays, Return, Finalize, Unlocked, Admitted, WaitForRun, Error,
      files, callers, processes, Runs, Works, Fails, Watch, Run, TypeOK
<1>1. CASE Lock(c)
  BY <1>1 DEF Lock
<1>2. CASE Lookup(c)
  BY <1>2 DEF Lookup
<1>3. CASE RecordIntent(c)
  BY <1>3, RecordIntentDoes
<1>4. CASE RecordEntry(c)
  BY <1>4, RecordEntryDoes
<1>5. CASE StopAtAdmission(c)
  BY <1>5, StopAtAdmissionDoes
<1>6. CASE Seal(c)
  BY <1>6, SealDoes
<1>7. CASE Close(c)
  BY <1>7, CloseDoes
<1>8. CASE InitializeBasis(c)
  BY <1>8, InitializeBasisDoes
<1>9. CASE SpawnWatchdog(c)
  BY <1>9 DEF SpawnWatchdog
<1>10. CASE SendBootstrap(c)
  BY <1>10 DEF SendBootstrap
<1>11. CASE AwaitReadiness(c)
  BY <1>11 DEF AwaitReadiness
<1>12. CASE ReadControl(c)
  BY <1>12 DEF ReadControl
<1>13. CASE RereadControl(c)
  BY <1>13 DEF RereadControl
<1>14. CASE ProbeBootstrap(c)
  BY <1>14 DEF ProbeBootstrap
<1>15. CASE ReconcileBootstrap(c)
  BY <1>15, ReconcileBootstrapDoes
<1>16. CASE Attach(c)
  BY <1>16 DEF Attach
<1>17. CASE ConfirmDead(c)
  BY <1>17 DEF ConfirmDead
<1>18. CASE Recover(c)
  BY <1>18 DEF Recover
<1>19. CASE Wait(c)
  BY <1>19 DEF Wait
<1>20. CASE DoubtHost(c)
  BY <1>20 DEF DoubtHost
<1>21. CASE PublishLoss(c)
  BY <1>21, PublishLossDoes
<1>22. CASE CallerKilled(c)
  BY <1>22 DEF CallerKilled
<1> QED
    BY <1>1, <1>2, <1>3, <1>4, <1>5, <1>6, <1>7, <1>8, <1>9, <1>10, <1>11, <1>12, <1>13, <1>14,
     <1>15, <1>16, <1>17, <1>18, <1>19, <1>20, <1>21, <1>22 DEF CallerStep, CallerNext

(* Only who recorded the intent has a run to work on.                        *)
LEMMA CallerOneRun ==
  ASSUME NEW c \in Callers, TypeOK, OneRun, RunInv, RequestLockInv, PlaceOK(c), KnowsOK(c),
         CallerStep(c)
  PROVE  OneRun'
<1> USE CallersAssumption DEF Goto, Stays, Return, Finalize, Unlocked, Admitted, WaitForRun, Error,
      files, callers, processes, Runs, Works, Fails, Watch, Run, TypeOK, OneRun, Untouched, RunInv,
      PlaceOK, KnowsOK, Bound, Unbound, Used, TheRun, Complete, Intent, NoRecord
<1>1. CASE Lock(c)
  BY <1>1, ControlValues DEF Lock
<1>2. CASE Lookup(c)
  BY <1>2, ControlValues DEF Lookup
<1>3. CASE RecordIntent(c)
  BY <1>3, RecordIntentDoes, ControlValues
<1>4. CASE RecordEntry(c)
  BY <1>4, RecordEntryDoes, ControlValues
<1>5. CASE StopAtAdmission(c)
  BY <1>5, StopAtAdmissionDoes, ControlValues
<1>6. CASE Seal(c)
  BY <1>6, SealDoes, ControlValues
<1>7. CASE Close(c)
  BY <1>7, CloseDoes, ControlValues
<1>8. CASE InitializeBasis(c)
  BY <1>8, InitializeBasisDoes, ControlValues
<1>9. CASE SpawnWatchdog(c)
  BY <1>9, ControlValues DEF SpawnWatchdog
<1>10. CASE SendBootstrap(c)
  BY <1>10, ControlValues DEF SendBootstrap
<1>11. CASE AwaitReadiness(c)
  BY <1>11, ControlValues DEF AwaitReadiness
<1>12. CASE ReadControl(c)
  BY <1>12, ControlValues DEF ReadControl
<1>13. CASE RereadControl(c)
  BY <1>13, ControlValues DEF RereadControl
<1>14. CASE ProbeBootstrap(c)
  BY <1>14, ControlValues DEF ProbeBootstrap
<1>15. CASE ReconcileBootstrap(c)
  BY <1>15, ReconcileBootstrapDoes, ControlValues
<1>16. CASE Attach(c)
  BY <1>16, ControlValues DEF Attach
<1>17. CASE ConfirmDead(c)
  BY <1>17, ControlValues DEF ConfirmDead
<1>18. CASE Recover(c)
  BY <1>18, ControlValues DEF Recover
<1>19. CASE Wait(c)
  BY <1>19, ControlValues DEF Wait
<1>20. CASE DoubtHost(c)
  BY <1>20, ControlValues DEF DoubtHost
<1>21. CASE PublishLoss(c)
  BY <1>21, PublishLossDoes, ControlValues
<1>22. CASE CallerKilled(c)
  BY <1>22, ControlValues DEF CallerKilled
<1> QED
    BY <1>1, <1>2, <1>3, <1>4, <1>5, <1>6, <1>7, <1>8, <1>9, <1>10, <1>11, <1>12, <1>13, <1>14,
     <1>15, <1>16, <1>17, <1>18, <1>19, <1>20, <1>21, <1>22 DEF CallerStep, CallerNext

(* Before the intent is recorded there is no run; after it, an untouched one.*)
LEMMA CallerFirst ==
  ASSUME NEW c \in Callers, TypeOK, OneRun, RunInv, RequestLockInv, PlaceOK(c), KnowsOK(c),
         ~Used, CallerStep(c)
  PROVE  (Used' => RunInv') /\ flows' = flows /\ control' = control
<1> USE CallersAssumption DEF Goto, Stays, Return, Finalize, Unlocked, Admitted, WaitForRun, Error,
      files, callers, processes, Runs, Works, Fails, Watch, Run, TypeOK, OneRun, Untouched, PlaceOK,
      Bound, Unbound, Used, TheRun, Intent, NoRecord, RunInv, BootstrapOK, BlockedOK, RunLockOK,
      ControlOK, RecordOK, HostAlive, Terminal, Terminals
<1>1. CASE Lock(c)
  BY <1>1, ControlValues, RecordValues DEF Lock
<1>2. CASE Lookup(c)
  BY <1>2, ControlValues, RecordValues DEF Lookup
<1>3. CASE RecordIntent(c)
  BY <1>3, RecordIntentDoes, ControlValues, RecordValues
<1>4. CASE RecordEntry(c)
  BY <1>4, RecordEntryDoes, ControlValues, RecordValues
<1>5. CASE StopAtAdmission(c)
  BY <1>5, StopAtAdmissionDoes, ControlValues, RecordValues
<1>6. CASE Seal(c)
  BY <1>6, SealDoes, ControlValues, RecordValues
<1>7. CASE Close(c)
  BY <1>7, CloseDoes, ControlValues, RecordValues
<1>8. CASE InitializeBasis(c)
  BY <1>8, InitializeBasisDoes, ControlValues, RecordValues
<1>9. CASE SpawnWatchdog(c)
  BY <1>9, ControlValues, RecordValues DEF SpawnWatchdog
<1>10. CASE SendBootstrap(c)
  BY <1>10, ControlValues, RecordValues DEF SendBootstrap
<1>11. CASE AwaitReadiness(c)
  BY <1>11, ControlValues, RecordValues DEF AwaitReadiness
<1>12. CASE ReadControl(c)
  BY <1>12, ControlValues, RecordValues DEF ReadControl
<1>13. CASE RereadControl(c)
  BY <1>13, ControlValues, RecordValues DEF RereadControl
<1>14. CASE ProbeBootstrap(c)
  BY <1>14, ControlValues, RecordValues DEF ProbeBootstrap
<1>15. CASE ReconcileBootstrap(c)
  BY <1>15, ReconcileBootstrapDoes, ControlValues, RecordValues
<1>16. CASE Attach(c)
  BY <1>16, ControlValues, RecordValues DEF Attach
<1>17. CASE ConfirmDead(c)
  BY <1>17, ControlValues, RecordValues DEF ConfirmDead
<1>18. CASE Recover(c)
  BY <1>18, ControlValues, RecordValues DEF Recover
<1>19. CASE Wait(c)
  BY <1>19, ControlValues, RecordValues DEF Wait
<1>20. CASE DoubtHost(c)
  BY <1>20, ControlValues, RecordValues DEF DoubtHost
<1>21. CASE PublishLoss(c)
  BY <1>21, PublishLossDoes, ControlValues, RecordValues
<1>22. CASE CallerKilled(c)
  BY <1>22, ControlValues, RecordValues DEF CallerKilled
<1> QED
    BY <1>1, <1>2, <1>3, <1>4, <1>5, <1>6, <1>7, <1>8, <1>9, <1>10, <1>11, <1>12, <1>13, <1>14,
     <1>15, <1>16, <1>17, <1>18, <1>19, <1>20, <1>21, <1>22 DEF CallerStep, CallerNext

(* A caller leaves the processes of the run in their order.                  *)
LEMMA CallerBootstrap ==
  ASSUME NEW c \in Callers, TypeOK, OneRun, RunInv, RequestLockInv, PlaceOK(c), KnowsOK(c),
         Used, CallerStep(c)
  PROVE  BootstrapOK'
<1> USE CallersAssumption DEF Goto, Stays, Return, Finalize, Unlocked, Admitted, WaitForRun, Error,
      files, callers, processes, Runs, Works, Fails, Watch, Run, TypeOK, OneRun, Untouched, RunInv,
      PlaceOK, KnowsOK, Bound, Unbound, Used, TheRun, Complete, Intent, BootstrapOK, RunLockOK,
      Bootstrapping, HostAlive, Busy, Locking, Terminal, Terminals, Holding, RequestLockInv
<1>1. CASE Lock(c)
  BY <1>1, ControlValues DEF Lock
<1>2. CASE Lookup(c)
  BY <1>2, ControlValues DEF Lookup
<1>3. CASE RecordIntent(c)
  BY <1>3, RecordIntentDoes, ControlValues
<1>4. CASE RecordEntry(c)
  BY <1>4, RecordEntryDoes, ControlValues
<1>5. CASE StopAtAdmission(c)
  BY <1>5, StopAtAdmissionDoes, ControlValues
<1>6. CASE Seal(c)
  BY <1>6, SealDoes, ControlValues
<1>7. CASE Close(c)
  BY <1>7, CloseDoes, ControlValues
<1>8. CASE InitializeBasis(c)
  BY <1>8, InitializeBasisDoes, ControlValues
<1>9. CASE SpawnWatchdog(c)
  BY <1>9, ControlValues DEF SpawnWatchdog
<1>10. CASE SendBootstrap(c)
  BY <1>10, ControlValues DEF SendBootstrap
<1>11. CASE AwaitReadiness(c)
  BY <1>11, ControlValues DEF AwaitReadiness
<1>12. CASE ReadControl(c)
  BY <1>12, ControlValues DEF ReadControl
<1>13. CASE RereadControl(c)
  BY <1>13, ControlValues DEF RereadControl
<1>14. CASE ProbeBootstrap(c)
  BY <1>14, ControlValues DEF ProbeBootstrap
<1>15. CASE ReconcileBootstrap(c)
  BY <1>15, ReconcileBootstrapDoes, ControlValues
<1>16. CASE Attach(c)
  BY <1>16, ControlValues DEF Attach
<1>17. CASE ConfirmDead(c)
  BY <1>17, ControlValues DEF ConfirmDead
<1>18. CASE Recover(c)
  BY <1>18, ControlValues DEF Recover
<1>19. CASE Wait(c)
  BY <1>19, ControlValues DEF Wait
<1>20. CASE DoubtHost(c)
  BY <1>20, ControlValues DEF DoubtHost
<1>21. CASE PublishLoss(c)
  BY <1>21, PublishLossDoes, ControlValues
<1>22. CASE CallerKilled(c)
  BY <1>22, ControlValues DEF CallerKilled
<1> QED
    BY <1>1, <1>2, <1>3, <1>4, <1>5, <1>6, <1>7, <1>8, <1>9, <1>10, <1>11, <1>12, <1>13, <1>14,
     <1>15, <1>16, <1>17, <1>18, <1>19, <1>20, <1>21, <1>22 DEF CallerStep, CallerNext

(* A job that misses a value gets no process.                                *)
LEMMA CallerBlocked ==
  ASSUME NEW c \in Callers, TypeOK, OneRun, RunInv, RequestLockInv, PlaceOK(c), KnowsOK(c),
         Used, CallerStep(c)
  PROVE  BlockedOK'
<1> USE CallersAssumption DEF Goto, Stays, Return, Finalize, Unlocked, Admitted, WaitForRun, Error,
      files, callers, processes, Runs, Works, Fails, Watch, Run, TypeOK, OneRun, Untouched, RunInv,
      PlaceOK, KnowsOK, Bound, Unbound, Used, TheRun, Complete, Intent, BlockedOK
<1>1. CASE Lock(c)
  BY <1>1, ControlValues DEF Lock
<1>2. CASE Lookup(c)
  BY <1>2, ControlValues DEF Lookup
<1>3. CASE RecordIntent(c)
  BY <1>3, RecordIntentDoes, ControlValues
<1>4. CASE RecordEntry(c)
  BY <1>4, RecordEntryDoes, ControlValues
<1>5. CASE StopAtAdmission(c)
  BY <1>5, StopAtAdmissionDoes, ControlValues
<1>6. CASE Seal(c)
  BY <1>6, SealDoes, ControlValues
<1>7. CASE Close(c)
  BY <1>7, CloseDoes, ControlValues
<1>8. CASE InitializeBasis(c)
  BY <1>8, InitializeBasisDoes, ControlValues
<1>9. CASE SpawnWatchdog(c)
  BY <1>9, ControlValues DEF SpawnWatchdog
<1>10. CASE SendBootstrap(c)
  BY <1>10, ControlValues DEF SendBootstrap
<1>11. CASE AwaitReadiness(c)
  BY <1>11, ControlValues DEF AwaitReadiness
<1>12. CASE ReadControl(c)
  BY <1>12, ControlValues DEF ReadControl
<1>13. CASE RereadControl(c)
  BY <1>13, ControlValues DEF RereadControl
<1>14. CASE ProbeBootstrap(c)
  BY <1>14, ControlValues DEF ProbeBootstrap
<1>15. CASE ReconcileBootstrap(c)
  BY <1>15, ReconcileBootstrapDoes, ControlValues
<1>16. CASE Attach(c)
  BY <1>16, ControlValues DEF Attach
<1>17. CASE ConfirmDead(c)
  BY <1>17, ControlValues DEF ConfirmDead
<1>18. CASE Recover(c)
  BY <1>18, ControlValues DEF Recover
<1>19. CASE Wait(c)
  BY <1>19, ControlValues DEF Wait
<1>20. CASE DoubtHost(c)
  BY <1>20, ControlValues DEF DoubtHost
<1>21. CASE PublishLoss(c)
  BY <1>21, PublishLossDoes, ControlValues
<1>22. CASE CallerKilled(c)
  BY <1>22, ControlValues DEF CallerKilled
<1> QED
    BY <1>1, <1>2, <1>3, <1>4, <1>5, <1>6, <1>7, <1>8, <1>9, <1>10, <1>11, <1>12, <1>13, <1>14,
     <1>15, <1>16, <1>17, <1>18, <1>19, <1>20, <1>21, <1>22 DEF CallerStep, CallerNext

(* A caller takes the run lock only when nobody holds it.                    *)
LEMMA CallerRunLock ==
  ASSUME NEW c \in Callers, TypeOK, OneRun, RunInv, RequestLockInv, PlaceOK(c), KnowsOK(c),
         Used, CallerStep(c)
  PROVE  RunLockOK'
<1> USE CallersAssumption DEF Goto, Stays, Return, Finalize, Unlocked, Admitted, WaitForRun, Error,
      files, callers, processes, Runs, Works, Fails, Watch, Run, TypeOK, OneRun, Untouched, RunInv,
      PlaceOK, KnowsOK, Bound, Unbound, Used, TheRun, Complete, Intent, RunLockOK, BootstrapOK,
      HostAlive, Locking
<1>1. CASE Lock(c)
  BY <1>1, ControlValues DEF Lock
<1>2. CASE Lookup(c)
  BY <1>2, ControlValues DEF Lookup
<1>3. CASE RecordIntent(c)
  BY <1>3, RecordIntentDoes, ControlValues
<1>4. CASE RecordEntry(c)
  BY <1>4, RecordEntryDoes, ControlValues
<1>5. CASE StopAtAdmission(c)
  BY <1>5, StopAtAdmissionDoes, ControlValues
<1>6. CASE Seal(c)
  BY <1>6, SealDoes, ControlValues
<1>7. CASE Close(c)
  BY <1>7, CloseDoes, ControlValues
<1>8. CASE InitializeBasis(c)
  BY <1>8, InitializeBasisDoes, ControlValues
<1>9. CASE SpawnWatchdog(c)
  BY <1>9, ControlValues DEF SpawnWatchdog
<1>10. CASE SendBootstrap(c)
  BY <1>10, ControlValues DEF SendBootstrap
<1>11. CASE AwaitReadiness(c)
  BY <1>11, ControlValues DEF AwaitReadiness
<1>12. CASE ReadControl(c)
  BY <1>12, ControlValues DEF ReadControl
<1>13. CASE RereadControl(c)
  BY <1>13, ControlValues DEF RereadControl
<1>14. CASE ProbeBootstrap(c)
  BY <1>14, ControlValues DEF ProbeBootstrap
<1>15. CASE ReconcileBootstrap(c)
  BY <1>15, ReconcileBootstrapDoes, ControlValues
<1>16. CASE Attach(c)
  BY <1>16, ControlValues DEF Attach
<1>17. CASE ConfirmDead(c)
  BY <1>17, ControlValues DEF ConfirmDead
<1>18. CASE Recover(c)
  BY <1>18, ControlValues DEF Recover
<1>19. CASE Wait(c)
  BY <1>19, ControlValues DEF Wait
<1>20. CASE DoubtHost(c)
  BY <1>20, ControlValues DEF DoubtHost
<1>21. CASE PublishLoss(c)
  BY <1>21, PublishLossDoes, ControlValues
<1>22. CASE CallerKilled(c)
  BY <1>22, ControlValues DEF CallerKilled
<1> QED
    BY <1>1, <1>2, <1>3, <1>4, <1>5, <1>6, <1>7, <1>8, <1>9, <1>10, <1>11, <1>12, <1>13, <1>14,
     <1>15, <1>16, <1>17, <1>18, <1>19, <1>20, <1>21, <1>22 DEF CallerStep, CallerNext

(* A control given up or lost is that of a run without a process.            *)
LEMMA CallerControl ==
  ASSUME NEW c \in Callers, TypeOK, OneRun, RunInv, RequestLockInv, PlaceOK(c), KnowsOK(c),
         Used, CallerStep(c)
  PROVE  ControlOK'
<1> USE CallersAssumption DEF Goto, Stays, Return, Finalize, Unlocked, Admitted, WaitForRun, Error,
      files, callers, processes, Runs, Works, Fails, Watch, Run, TypeOK, OneRun, Untouched, RunInv,
      PlaceOK, KnowsOK, Bound, Unbound, Used, TheRun, Complete, Intent, ControlOK, BootstrapOK,
      BlockedOK, RunLockOK, Bootstrapping, HostAlive, Busy, Locking, Terminal, Terminals
<1>1. CASE Lock(c)
  BY <1>1, ControlValues DEF Lock
<1>2. CASE Lookup(c)
  BY <1>2, ControlValues DEF Lookup
<1>3. CASE RecordIntent(c)
  BY <1>3, RecordIntentDoes, ControlValues
<1>4. CASE RecordEntry(c)
  BY <1>4, RecordEntryDoes, ControlValues
<1>5. CASE StopAtAdmission(c)
  BY <1>5, StopAtAdmissionDoes, ControlValues
<1>6. CASE Seal(c)
  BY <1>6, SealDoes, ControlValues
<1>7. CASE Close(c)
  BY <1>7, CloseDoes, ControlValues
<1>8. CASE InitializeBasis(c)
  BY <1>8, InitializeBasisDoes, ControlValues
<1>9. CASE SpawnWatchdog(c)
  BY <1>9, ControlValues DEF SpawnWatchdog
<1>10. CASE SendBootstrap(c)
  BY <1>10, ControlValues DEF SendBootstrap
<1>11. CASE AwaitReadiness(c)
  BY <1>11, ControlValues DEF AwaitReadiness
<1>12. CASE ReadControl(c)
  BY <1>12, ControlValues DEF ReadControl
<1>13. CASE RereadControl(c)
  BY <1>13, ControlValues DEF RereadControl
<1>14. CASE ProbeBootstrap(c)
  BY <1>14, ControlValues DEF ProbeBootstrap
<1>15. CASE ReconcileBootstrap(c)
  BY <1>15, ReconcileBootstrapDoes, ControlValues
<1>16. CASE Attach(c)
  BY <1>16, ControlValues DEF Attach
<1>17. CASE ConfirmDead(c)
  BY <1>17, ControlValues DEF ConfirmDead
<1>18. CASE Recover(c)
  BY <1>18, ControlValues DEF Recover
<1>19. CASE Wait(c)
  BY <1>19, ControlValues DEF Wait
<1>20. CASE DoubtHost(c)
  BY <1>20, ControlValues DEF DoubtHost
<1>21. CASE PublishLoss(c)
  BY <1>21, PublishLossDoes, ControlValues
<1>22. CASE CallerKilled(c)
  BY <1>22, ControlValues DEF CallerKilled
<1> QED
    BY <1>1, <1>2, <1>3, <1>4, <1>5, <1>6, <1>7, <1>8, <1>9, <1>10, <1>11, <1>12, <1>13, <1>14,
     <1>15, <1>16, <1>17, <1>18, <1>19, <1>20, <1>21, <1>22 DEF CallerStep, CallerNext

(* What a caller records is the evidence of the run.                         *)
LEMMA CallerRecord ==
  ASSUME NEW c \in Callers, TypeOK, OneRun, RunInv, RequestLockInv, PlaceOK(c), KnowsOK(c),
         Used, CallerStep(c)
  PROVE  RecordOK'
<1> USE CallersAssumption DEF Goto, Stays, Return, Finalize, Unlocked, Admitted, WaitForRun, Error,
      files, callers, processes, Runs, Works, Fails, Watch, Run, TypeOK, RunInv, KnowsOK, PlaceOK,
      Unbound, Bound, RecordOK, BootstrapOK, BlockedOK, ControlOK, Sealed, TheRun, Used, Complete,
      Intent, Terminal, Terminals, Bootstrapping
<1>1. CASE Lock(c)
  BY <1>1, ControlValues DEF Lock
<1>2. CASE Lookup(c)
  BY <1>2, ControlValues DEF Lookup
<1>3. CASE RecordIntent(c)
  BY <1>3, RecordIntentDoes, ControlValues
<1>4. CASE RecordEntry(c)
  BY <1>4, RecordEntryDoes, ControlValues
<1>5. CASE StopAtAdmission(c)
  BY <1>5, StopAtAdmissionDoes, ControlValues
<1>6. CASE Seal(c)
  BY <1>6, SealDoes, ControlValues
<1>7. CASE Close(c)
  BY <1>7, CloseDoes, ControlValues
<1>8. CASE InitializeBasis(c)
  BY <1>8, InitializeBasisDoes, ControlValues
<1>9. CASE SpawnWatchdog(c)
  BY <1>9, ControlValues DEF SpawnWatchdog
<1>10. CASE SendBootstrap(c)
  BY <1>10, ControlValues DEF SendBootstrap
<1>11. CASE AwaitReadiness(c)
  BY <1>11, ControlValues DEF AwaitReadiness
<1>12. CASE ReadControl(c)
  BY <1>12, ControlValues DEF ReadControl
<1>13. CASE RereadControl(c)
  BY <1>13, ControlValues DEF RereadControl
<1>14. CASE ProbeBootstrap(c)
  BY <1>14, ControlValues DEF ProbeBootstrap
<1>15. CASE ReconcileBootstrap(c)
  BY <1>15, ReconcileBootstrapDoes, ControlValues
<1>16. CASE Attach(c)
  BY <1>16, ControlValues DEF Attach
<1>17. CASE ConfirmDead(c)
  BY <1>17, ControlValues DEF ConfirmDead
<1>18. CASE Recover(c)
  BY <1>18, ControlValues DEF Recover
<1>19. CASE Wait(c)
  BY <1>19, ControlValues DEF Wait
<1>20. CASE DoubtHost(c)
  BY <1>20, ControlValues DEF DoubtHost
<1>21. CASE PublishLoss(c)
  BY <1>21, PublishLossDoes, ControlValues
<1>22. CASE CallerKilled(c)
  BY <1>22, ControlValues DEF CallerKilled
<1> QED
    BY <1>1, <1>2, <1>3, <1>4, <1>5, <1>6, <1>7, <1>8, <1>9, <1>10, <1>11, <1>12, <1>13, <1>14,
     <1>15, <1>16, <1>17, <1>18, <1>19, <1>20, <1>21, <1>22 DEF CallerStep, CallerNext

(* A caller changes no terminal control and no result that may be recorded.  *)
LEMMA CallerKeeps ==
  ASSUME NEW c \in Callers, TypeOK, OneRun, RunInv, RequestLockInv, PlaceOK(c), KnowsOK(c),
         Used, CallerStep(c)
  PROVE  KeepsEnds
<1> USE CallersAssumption DEF Goto, Stays, Return, Finalize, Unlocked, Admitted, WaitForRun, Error,
      files, callers, processes, Runs, Works, Fails, Watch, Run, KeepsEnds, TypeOK, RunInv, KnowsOK,
      PlaceOK, Unbound, Bound, RecordOK, BootstrapOK, ControlOK, BlockedOK, Bootstrapping, Terminal,
      Terminals, Sealed, TheRun, Used, Intent, Complete
<1>1. CASE Lock(c)
  BY <1>1, ControlValues DEF Lock
<1>2. CASE Lookup(c)
  BY <1>2, ControlValues DEF Lookup
<1>3. CASE RecordIntent(c)
  BY <1>3, RecordIntentDoes, ControlValues
<1>4. CASE RecordEntry(c)
  BY <1>4, RecordEntryDoes, ControlValues
<1>5. CASE StopAtAdmission(c)
  BY <1>5, StopAtAdmissionDoes, ControlValues
<1>6. CASE Seal(c)
  BY <1>6, SealDoes, ControlValues
<1>7. CASE Close(c)
  BY <1>7, CloseDoes, ControlValues
<1>8. CASE InitializeBasis(c)
  BY <1>8, InitializeBasisDoes, ControlValues
<1>9. CASE SpawnWatchdog(c)
  BY <1>9, ControlValues DEF SpawnWatchdog
<1>10. CASE SendBootstrap(c)
  BY <1>10, ControlValues DEF SendBootstrap
<1>11. CASE AwaitReadiness(c)
  BY <1>11, ControlValues DEF AwaitReadiness
<1>12. CASE ReadControl(c)
  BY <1>12, ControlValues DEF ReadControl
<1>13. CASE RereadControl(c)
  BY <1>13, ControlValues DEF RereadControl
<1>14. CASE ProbeBootstrap(c)
  BY <1>14, ControlValues DEF ProbeBootstrap
<1>15. CASE ReconcileBootstrap(c)
  BY <1>15, ReconcileBootstrapDoes, ControlValues
<1>16. CASE Attach(c)
  BY <1>16, ControlValues DEF Attach
<1>17. CASE ConfirmDead(c)
  BY <1>17, ControlValues DEF ConfirmDead
<1>18. CASE Recover(c)
  BY <1>18, ControlValues DEF Recover
<1>19. CASE Wait(c)
  BY <1>19, ControlValues DEF Wait
<1>20. CASE DoubtHost(c)
  BY <1>20, ControlValues DEF DoubtHost
<1>21. CASE PublishLoss(c)
  BY <1>21, PublishLossDoes, ControlValues
<1>22. CASE CallerKilled(c)
  BY <1>22, ControlValues DEF CallerKilled
<1> QED
    BY <1>1, <1>2, <1>3, <1>4, <1>5, <1>6, <1>7, <1>8, <1>9, <1>10, <1>11, <1>12, <1>13, <1>14,
     <1>15, <1>16, <1>17, <1>18, <1>19, <1>20, <1>21, <1>22 DEF CallerStep, CallerNext

(* A caller does not touch what another one is about to act on.              *)
LEMMA CallerLeaves ==
  ASSUME NEW c \in Callers, TypeOK, OneRun, RunInv, RequestLockInv, PlaceOK(c), KnowsOK(c),
         Used, NEW d \in Callers, c # d, PlaceOK(d), KnowsOK(d), CallerStep(c)
  PROVE  LeavesTo(d)
<1> USE CallersAssumption DEF Goto, Stays, Return, Finalize, Unlocked, Admitted, WaitForRun, Error,
      files, callers, processes, Runs, Works, Fails, Watch, Run, LeavesTo, TypeOK, RunInv, KnowsOK,
      PlaceOK, Unbound, Bound, Holding, RequestLockInv, BootstrapOK, ControlOK, BlockedOK, Busy,
      HostAlive, Locking, Bootstrapping, Terminal, Terminals, TheRun, Used, Intent, Complete
<1>1. CASE Lock(c)
  BY <1>1, ControlValues DEF Lock
<1>2. CASE Lookup(c)
  BY <1>2, ControlValues DEF Lookup
<1>3. CASE RecordIntent(c)
  BY <1>3, RecordIntentDoes, ControlValues
<1>4. CASE RecordEntry(c)
  BY <1>4, RecordEntryDoes, ControlValues
<1>5. CASE StopAtAdmission(c)
  BY <1>5, StopAtAdmissionDoes, ControlValues
<1>6. CASE Seal(c)
  BY <1>6, SealDoes, ControlValues
<1>7. CASE Close(c)
  BY <1>7, CloseDoes, ControlValues
<1>8. CASE InitializeBasis(c)
  BY <1>8, InitializeBasisDoes, ControlValues
<1>9. CASE SpawnWatchdog(c)
  BY <1>9, ControlValues DEF SpawnWatchdog
<1>10. CASE SendBootstrap(c)
  BY <1>10, ControlValues DEF SendBootstrap
<1>11. CASE AwaitReadiness(c)
  BY <1>11, ControlValues DEF AwaitReadiness
<1>12. CASE ReadControl(c)
  BY <1>12, ControlValues DEF ReadControl
<1>13. CASE RereadControl(c)
  BY <1>13, ControlValues DEF RereadControl
<1>14. CASE ProbeBootstrap(c)
  BY <1>14, ControlValues DEF ProbeBootstrap
<1>15. CASE ReconcileBootstrap(c)
  BY <1>15, ReconcileBootstrapDoes, ControlValues
<1>16. CASE Attach(c)
  BY <1>16, ControlValues DEF Attach
<1>17. CASE ConfirmDead(c)
  BY <1>17, ControlValues DEF ConfirmDead
<1>18. CASE Recover(c)
  BY <1>18, ControlValues DEF Recover
<1>19. CASE Wait(c)
  BY <1>19, ControlValues DEF Wait
<1>20. CASE DoubtHost(c)
  BY <1>20, ControlValues DEF DoubtHost
<1>21. CASE PublishLoss(c)
  BY <1>21, PublishLossDoes, ControlValues
<1>22. CASE CallerKilled(c)
  BY <1>22, ControlValues DEF CallerKilled
<1> QED
    BY <1>1, <1>2, <1>3, <1>4, <1>5, <1>6, <1>7, <1>8, <1>9, <1>10, <1>11, <1>12, <1>13, <1>14,
     <1>15, <1>16, <1>17, <1>18, <1>19, <1>20, <1>21, <1>22 DEF CallerStep, CallerNext

(* Who looks the request id up unused is the only one to record an intent.   *)
LEMMA CallerClaims ==
  ASSUME NEW c \in Callers, TypeOK, RequestLockInv, ~Used, PlaceOK(c), NEW d \in Callers, c # d,
         pc[d] = "intent", CallerStep(c)
  PROVE  ~Used'
<1> USE CallersAssumption DEF Goto, Stays, Return, Finalize, Unlocked, Admitted, WaitForRun, Error,
      files, callers, processes, Runs, Works, Fails, Watch, Run, TypeOK, PlaceOK, Unbound, Bound,
      Holding, RequestLockInv, Used
<1>1. CASE Lock(c)
  BY <1>1 DEF Lock
<1>2. CASE Lookup(c)
  BY <1>2 DEF Lookup
<1>3. CASE RecordIntent(c)
  BY <1>3, RecordIntentDoes
<1>4. CASE RecordEntry(c)
  BY <1>4, RecordEntryDoes
<1>5. CASE StopAtAdmission(c)
  BY <1>5, StopAtAdmissionDoes
<1>6. CASE Seal(c)
  BY <1>6, SealDoes
<1>7. CASE Close(c)
  BY <1>7, CloseDoes
<1>8. CASE InitializeBasis(c)
  BY <1>8, InitializeBasisDoes
<1>9. CASE SpawnWatchdog(c)
  BY <1>9 DEF SpawnWatchdog
<1>10. CASE SendBootstrap(c)
  BY <1>10 DEF SendBootstrap
<1>11. CASE AwaitReadiness(c)
  BY <1>11 DEF AwaitReadiness
<1>12. CASE ReadControl(c)
  BY <1>12 DEF ReadControl
<1>13. CASE RereadControl(c)
  BY <1>13 DEF RereadControl
<1>14. CASE ProbeBootstrap(c)
  BY <1>14 DEF ProbeBootstrap
<1>15. CASE ReconcileBootstrap(c)
  BY <1>15, ReconcileBootstrapDoes
<1>16. CASE Attach(c)
  BY <1>16 DEF Attach
<1>17. CASE ConfirmDead(c)
  BY <1>17 DEF ConfirmDead
<1>18. CASE Recover(c)
  BY <1>18 DEF Recover
<1>19. CASE Wait(c)
  BY <1>19 DEF Wait
<1>20. CASE DoubtHost(c)
  BY <1>20 DEF DoubtHost
<1>21. CASE PublishLoss(c)
  BY <1>21, PublishLossDoes
<1>22. CASE CallerKilled(c)
  BY <1>22 DEF CallerKilled
<1> QED
    BY <1>1, <1>2, <1>3, <1>4, <1>5, <1>6, <1>7, <1>8, <1>9, <1>10, <1>11, <1>12, <1>13, <1>14,
     <1>15, <1>16, <1>17, <1>18, <1>19, <1>20, <1>21, <1>22 DEF CallerStep, CallerNext

(* A caller works on the run of its own job.                                 *)
LEMMA CallerPlace ==
  ASSUME NEW c \in Callers, TypeOK, OneRun, RunInv, RequestLockInv, PlaceOK(c), KnowsOK(c),
         CallerStep(c)
  PROVE  PlaceOK(c)'
<1> USE CallersAssumption DEF Goto, Stays, Return, Finalize, Unlocked, Admitted, WaitForRun, Error,
      files, callers, processes, Runs, Works, Fails, Watch, Run, TypeOK, PlaceOK, Unbound, Bound,
      Used, TheRun, Intent, Complete
<1>1. CASE Lock(c)
  BY <1>1 DEF Lock
<1>2. CASE Lookup(c)
  BY <1>2 DEF Lookup
<1>3. CASE RecordIntent(c)
  BY <1>3, RecordIntentDoes
<1>4. CASE RecordEntry(c)
  BY <1>4, RecordEntryDoes
<1>5. CASE StopAtAdmission(c)
  BY <1>5, StopAtAdmissionDoes
<1>6. CASE Seal(c)
  BY <1>6, SealDoes
<1>7. CASE Close(c)
  BY <1>7, CloseDoes
<1>8. CASE InitializeBasis(c)
  BY <1>8, InitializeBasisDoes
<1>9. CASE SpawnWatchdog(c)
  BY <1>9 DEF SpawnWatchdog
<1>10. CASE SendBootstrap(c)
  BY <1>10 DEF SendBootstrap
<1>11. CASE AwaitReadiness(c)
  BY <1>11 DEF AwaitReadiness
<1>12. CASE ReadControl(c)
  BY <1>12 DEF ReadControl
<1>13. CASE RereadControl(c)
  BY <1>13 DEF RereadControl
<1>14. CASE ProbeBootstrap(c)
  BY <1>14 DEF ProbeBootstrap
<1>15. CASE ReconcileBootstrap(c)
  BY <1>15, ReconcileBootstrapDoes
<1>16. CASE Attach(c)
  BY <1>16 DEF Attach
<1>17. CASE ConfirmDead(c)
  BY <1>17 DEF ConfirmDead
<1>18. CASE Recover(c)
  BY <1>18 DEF Recover
<1>19. CASE Wait(c)
  BY <1>19 DEF Wait
<1>20. CASE DoubtHost(c)
  BY <1>20 DEF DoubtHost
<1>21. CASE PublishLoss(c)
  BY <1>21, PublishLossDoes
<1>22. CASE CallerKilled(c)
  BY <1>22 DEF CallerKilled
<1> QED
    BY <1>1, <1>2, <1>3, <1>4, <1>5, <1>6, <1>7, <1>8, <1>9, <1>10, <1>11, <1>12, <1>13, <1>14,
     <1>15, <1>16, <1>17, <1>18, <1>19, <1>20, <1>21, <1>22 DEF CallerStep, CallerNext

(* What a caller goes by holds when it acts on it.                           *)
LEMMA CallerKnows ==
  ASSUME NEW c \in Callers, TypeOK, OneRun, RunInv, RequestLockInv, PlaceOK(c), KnowsOK(c),
         Used, CallerStep(c)
  PROVE  KnowsOK(c)'
<1> USE CallersAssumption DEF Goto, Stays, Return, Finalize, Unlocked, Admitted, WaitForRun, Error,
      files, callers, processes, Runs, Works, Fails, Watch, Run, TypeOK, RunInv, PlaceOK, KnowsOK,
      Unbound, Bound, Used, TheRun, Complete, Busy, HostAlive, Locking, LockHeld, Bootstrapping,
      ControlOK, RecordOK, Sealed, Terminal, Terminals, BlockedOK
<1>1. CASE Lock(c)
  BY <1>1, ControlValues DEF Lock
<1>2. CASE Lookup(c)
  BY <1>2, ControlValues DEF Lookup
<1>3. CASE RecordIntent(c)
  BY <1>3, RecordIntentDoes, ControlValues
<1>4. CASE RecordEntry(c)
  BY <1>4, RecordEntryDoes, ControlValues
<1>5. CASE StopAtAdmission(c)
  BY <1>5, StopAtAdmissionDoes, ControlValues
<1>6. CASE Seal(c)
  BY <1>6, SealDoes, ControlValues
<1>7. CASE Close(c)
  BY <1>7, CloseDoes, ControlValues
<1>8. CASE InitializeBasis(c)
  BY <1>8, InitializeBasisDoes, ControlValues
<1>9. CASE SpawnWatchdog(c)
  BY <1>9, ControlValues DEF SpawnWatchdog
<1>10. CASE SendBootstrap(c)
  BY <1>10, ControlValues DEF SendBootstrap
<1>11. CASE AwaitReadiness(c)
  BY <1>11, ControlValues DEF AwaitReadiness
<1>12. CASE ReadControl(c)
  BY <1>12, ControlValues DEF ReadControl
<1>13. CASE RereadControl(c)
  BY <1>13, ControlValues DEF RereadControl
<1>14. CASE ProbeBootstrap(c)
  BY <1>14, ControlValues DEF ProbeBootstrap
<1>15. CASE ReconcileBootstrap(c)
  BY <1>15, ReconcileBootstrapDoes, ControlValues
<1>16. CASE Attach(c)
  BY <1>16, ControlValues DEF Attach
<1>17. CASE ConfirmDead(c)
  BY <1>17, ControlValues DEF ConfirmDead
<1>18. CASE Recover(c)
  BY <1>18, ControlValues DEF Recover
<1>19. CASE Wait(c)
  BY <1>19, ControlValues DEF Wait
<1>20. CASE DoubtHost(c)
  BY <1>20, ControlValues DEF DoubtHost
<1>21. CASE PublishLoss(c)
  BY <1>21, PublishLossDoes, ControlValues
<1>22. CASE CallerKilled(c)
  BY <1>22, ControlValues DEF CallerKilled
<1> QED
    BY <1>1, <1>2, <1>3, <1>4, <1>5, <1>6, <1>7, <1>8, <1>9, <1>10, <1>11, <1>12, <1>13, <1>14,
     <1>15, <1>16, <1>17, <1>18, <1>19, <1>20, <1>21, <1>22 DEF CallerStep, CallerNext

(* A caller is told how the run ended.                                       *)
LEMMA CallerTold ==
  ASSUME NEW c \in Callers, TypeOK, OneRun, RunInv, RequestLockInv, PlaceOK(c), KnowsOK(c),
         Used, ToldOK(c), CallerStep(c)
  PROVE  ToldOK(c)'
<1> USE CallersAssumption DEF Goto, Stays, Return, Finalize, Unlocked, Admitted, WaitForRun, Error,
      files, callers, processes, Runs, Works, Fails, Watch, Run, TypeOK, RunInv, PlaceOK, KnowsOK,
      Unbound, Bound, Used, TheRun, Complete, ControlOK, RecordOK, Sealed, Ended, ToldOK, Terminal,
      Terminals, BlockedOK, States
<1>1. CASE Lock(c)
  BY <1>1, ControlValues DEF Lock
<1>2. CASE Lookup(c)
  BY <1>2, ControlValues DEF Lookup
<1>3. CASE RecordIntent(c)
  BY <1>3, RecordIntentDoes, ControlValues
<1>4. CASE RecordEntry(c)
  BY <1>4, RecordEntryDoes, ControlValues
<1>5. CASE StopAtAdmission(c)
  BY <1>5, StopAtAdmissionDoes, ControlValues
<1>6. CASE Seal(c)
  BY <1>6, SealDoes, ControlValues
<1>7. CASE Close(c)
  BY <1>7, CloseDoes, ControlValues
<1>8. CASE InitializeBasis(c)
  BY <1>8, InitializeBasisDoes, ControlValues
<1>9. CASE SpawnWatchdog(c)
  BY <1>9, ControlValues DEF SpawnWatchdog
<1>10. CASE SendBootstrap(c)
  BY <1>10, ControlValues DEF SendBootstrap
<1>11. CASE AwaitReadiness(c)
  BY <1>11, ControlValues DEF AwaitReadiness
<1>12. CASE ReadControl(c)
  BY <1>12, ControlValues DEF ReadControl
<1>13. CASE RereadControl(c)
  BY <1>13, ControlValues DEF RereadControl
<1>14. CASE ProbeBootstrap(c)
  BY <1>14, ControlValues DEF ProbeBootstrap
<1>15. CASE ReconcileBootstrap(c)
  BY <1>15, ReconcileBootstrapDoes, ControlValues
<1>16. CASE Attach(c)
  BY <1>16, ControlValues DEF Attach
<1>17. CASE ConfirmDead(c)
  BY <1>17, ControlValues DEF ConfirmDead
<1>18. CASE Recover(c)
  BY <1>18, ControlValues DEF Recover
<1>19. CASE Wait(c)
  BY <1>19, ControlValues DEF Wait
<1>20. CASE DoubtHost(c)
  BY <1>20, ControlValues DEF DoubtHost
<1>21. CASE PublishLoss(c)
  BY <1>21, PublishLossDoes, ControlValues
<1>22. CASE CallerKilled(c)
  BY <1>22, ControlValues DEF CallerKilled
<1> QED
    BY <1>1, <1>2, <1>3, <1>4, <1>5, <1>6, <1>7, <1>8, <1>9, <1>10, <1>11, <1>12, <1>13, <1>14,
     <1>15, <1>16, <1>17, <1>18, <1>19, <1>20, <1>21, <1>22 DEF CallerStep, CallerNext

(* Before there is a run, nobody knows or is told anything.                  *)
LEMMA CallerUnknowing ==
  ASSUME NEW c \in Callers, TypeOK, OneRun, RunInv, RequestLockInv, PlaceOK(c), KnowsOK(c),
         ~Used, ToldOK(c), CallerStep(c)
  PROVE  KnowsOK(c)' /\ ToldOK(c)'
<1> USE CallersAssumption DEF Goto, Stays, Return, Finalize, Unlocked, Admitted, WaitForRun, Error,
      files, callers, processes, Runs, Works, Fails, Watch, Run, TypeOK, PlaceOK, KnowsOK, Unbound,
      Bound, Used, ToldOK, Terminal, Terminals, States
<1>1. CASE Lock(c)
  BY <1>1, ControlValues DEF Lock
<1>2. CASE Lookup(c)
  BY <1>2, ControlValues DEF Lookup
<1>3. CASE RecordIntent(c)
  BY <1>3, RecordIntentDoes, ControlValues
<1>4. CASE RecordEntry(c)
  BY <1>4, RecordEntryDoes, ControlValues
<1>5. CASE StopAtAdmission(c)
  BY <1>5, StopAtAdmissionDoes, ControlValues
<1>6. CASE Seal(c)
  BY <1>6, SealDoes, ControlValues
<1>7. CASE Close(c)
  BY <1>7, CloseDoes, ControlValues
<1>8. CASE InitializeBasis(c)
  BY <1>8, InitializeBasisDoes, ControlValues
<1>9. CASE SpawnWatchdog(c)
  BY <1>9, ControlValues DEF SpawnWatchdog
<1>10. CASE SendBootstrap(c)
  BY <1>10, ControlValues DEF SendBootstrap
<1>11. CASE AwaitReadiness(c)
  BY <1>11, ControlValues DEF AwaitReadiness
<1>12. CASE ReadControl(c)
  BY <1>12, ControlValues DEF ReadControl
<1>13. CASE RereadControl(c)
  BY <1>13, ControlValues DEF RereadControl
<1>14. CASE ProbeBootstrap(c)
  BY <1>14, ControlValues DEF ProbeBootstrap
<1>15. CASE ReconcileBootstrap(c)
  BY <1>15, ReconcileBootstrapDoes, ControlValues
<1>16. CASE Attach(c)
  BY <1>16, ControlValues DEF Attach
<1>17. CASE ConfirmDead(c)
  BY <1>17, ControlValues DEF ConfirmDead
<1>18. CASE Recover(c)
  BY <1>18, ControlValues DEF Recover
<1>19. CASE Wait(c)
  BY <1>19, ControlValues DEF Wait
<1>20. CASE DoubtHost(c)
  BY <1>20, ControlValues DEF DoubtHost
<1>21. CASE PublishLoss(c)
  BY <1>21, PublishLossDoes, ControlValues
<1>22. CASE CallerKilled(c)
  BY <1>22, ControlValues DEF CallerKilled
<1> QED
    BY <1>1, <1>2, <1>3, <1>4, <1>5, <1>6, <1>7, <1>8, <1>9, <1>10, <1>11, <1>12, <1>13, <1>14,
     <1>15, <1>16, <1>17, <1>18, <1>19, <1>20, <1>21, <1>22 DEF CallerStep, CallerNext

-----------------------------------------------------------------------------
(* Steps of the watchdog and of the host.                                    *)

(* Only the run of the request id has processes, and they are no callers.    *)
LEMMA ProcessOfTheRun ==
  ASSUME NEW r \in Runs, TypeOK, OneRun, ProcessStep(r)
  PROVE  Used /\ r = TheRun /\ UNCHANGED callers
<1> USE CallersAssumption DEF Goto, Stays, Return, Finalize, Unlocked, Admitted, WaitForRun, Error,
      files, callers, processes, Runs, Works, Fails, Watch, Run, TypeOK, OneRun, Untouched,
      HostAlive, WatchdogAlive, NoControl, Terminal, Terminals
<1>1. CASE WatchdogUnfed(r)
  BY <1>1 DEF WatchdogUnfed
<1>2. CASE SpawnHost(r)
  BY <1>2 DEF SpawnHost
<1>3. CASE FeedHost(r)
  BY <1>3 DEF FeedHost
<1>4. CASE SuperviseDead(r)
  BY <1>4 DEF SuperviseDead
<1>5. CASE SuperviseTerminal(r)
  BY <1>5 DEF SuperviseTerminal
<1>6. CASE SuperviseExpired(r)
  BY <1>6 DEF SuperviseExpired
<1>7. CASE ReconcileHost(r)
  BY <1>7 DEF ReconcileHost
<1>8. CASE ReplaceBundle(r)
  BY <1>8 DEF ReplaceBundle
<1>9. CASE PublishLost(r)
  BY <1>9, PublishLostDoes
<1>10. CASE WatchdogKilled(r)
  BY <1>10 DEF WatchdogKilled
<1>11. CASE HostUnfed(r)
  BY <1>11 DEF HostUnfed
<1>12. CASE BindSocket(r)
  BY <1>12 DEF BindSocket
<1>13. CASE PublishInitialControl(r)
  BY <1>13, PublishInitialControlDoes
<1>14. CASE StartFlow(r)
  BY <1>14 DEF StartFlow
<1>15. CASE Checkpoint(r)
  BY <1>15 DEF Checkpoint
<1>16. CASE PublishEvidence(r)
  BY <1>16 DEF PublishEvidence
<1>17. CASE PublishTerminal(r)
  BY <1>17, PublishTerminalDoes
<1>18. CASE SealRun(r)
  BY <1>18, SealRunDoes
<1>19. CASE CloseRun(r)
  BY <1>19, CloseRunDoes
<1>20. CASE HostKilled(r)
  BY <1>20 DEF HostKilled
<1> QED
    BY <1>1, <1>2, <1>3, <1>4, <1>5, <1>6, <1>7, <1>8, <1>9, <1>10, <1>11, <1>12, <1>13, <1>14,
     <1>15, <1>16, <1>17, <1>18, <1>19, <1>20 DEF ProcessStep, WatchdogNext, HostNext

(* Processes: what they write has its type.                                  *)
LEMMA ProcessFiles ==
  ASSUME NEW r \in Runs, TypeOK, Used, r = TheRun, RunInv, ProcessStep(r)
  PROVE  FilesTyped'
<1> USE CallersAssumption DEF Goto, Stays, Return, Finalize, Unlocked, Admitted, WaitForRun, Error,
      files, callers, processes, Runs, Works, Fails, Watch, Run, TypeOK, FilesTyped
<1>1. CASE WatchdogUnfed(r)
  BY <1>1, RecordValues, ControlValues, LostValues, BundleValues DEF WatchdogUnfed
<1>2. CASE SpawnHost(r)
  BY <1>2, RecordValues, ControlValues, LostValues, BundleValues DEF SpawnHost
<1>3. CASE FeedHost(r)
  BY <1>3, RecordValues, ControlValues, LostValues, BundleValues DEF FeedHost
<1>4. CASE SuperviseDead(r)
  BY <1>4, RecordValues, ControlValues, LostValues, BundleValues DEF SuperviseDead
<1>5. CASE SuperviseTerminal(r)
  BY <1>5, RecordValues, ControlValues, LostValues, BundleValues DEF SuperviseTerminal
<1>6. CASE SuperviseExpired(r)
  BY <1>6, RecordValues, ControlValues, LostValues, BundleValues DEF SuperviseExpired
<1>7. CASE ReconcileHost(r)
  BY <1>7, RecordValues, ControlValues, LostValues, BundleValues DEF ReconcileHost
<1>8. CASE ReplaceBundle(r)
  BY <1>8, ReplaceBundleDoes, RecordValues, ControlValues, LostValues, BundleValues
<1>9. CASE PublishLost(r)
  BY <1>9, PublishLostDoes, RecordValues, ControlValues, LostValues, BundleValues
<1>10. CASE WatchdogKilled(r)
  BY <1>10, RecordValues, ControlValues, LostValues, BundleValues DEF WatchdogKilled
<1>11. CASE HostUnfed(r)
  BY <1>11, RecordValues, ControlValues, LostValues, BundleValues DEF HostUnfed
<1>12. CASE BindSocket(r)
  BY <1>12, RecordValues, ControlValues, LostValues, BundleValues DEF BindSocket
<1>13. CASE PublishInitialControl(r)
  BY <1>13, PublishInitialControlDoes, RecordValues, ControlValues, LostValues, BundleValues
<1>14. CASE StartFlow(r)
  BY <1>14, RecordValues, ControlValues, LostValues, BundleValues DEF StartFlow
<1>15. CASE Checkpoint(r)
  BY <1>15, RecordValues, ControlValues, LostValues, BundleValues DEF Checkpoint
<1>16. CASE PublishEvidence(r)
  BY <1>16, RecordValues, ControlValues, LostValues, BundleValues DEF PublishEvidence
<1>17. CASE PublishTerminal(r)
  BY <1>17, PublishTerminalDoes, RecordValues, ControlValues, LostValues, BundleValues
<1>18. CASE SealRun(r)
  <2>1. Complete(r, "flow") \in Records
    BY RecordValues DEF Terminals
  <2> QED
    BY <1>18, <2>1, SealRunDoes
<1>19. CASE CloseRun(r)
  <2>1. Complete(r, "flow") \in Records
    BY RecordValues DEF Terminals
  <2> QED
    BY <1>19, <2>1, CloseRunDoes
<1>20. CASE HostKilled(r)
  BY <1>20, RecordValues, ControlValues, LostValues, BundleValues DEF HostKilled
<1> QED
    BY <1>1, <1>2, <1>3, <1>4, <1>5, <1>6, <1>7, <1>8, <1>9, <1>10, <1>11, <1>12, <1>13, <1>14,
     <1>15, <1>16, <1>17, <1>18, <1>19, <1>20 DEF ProcessStep, WatchdogNext, HostNext

(* Processes: their places and the counters have their types.                *)
LEMMA ProcessPlaces ==
  ASSUME NEW r \in Runs, TypeOK, Used, r = TheRun, RunInv, ProcessStep(r)
  PROVE  PlacesTyped'
<1> USE CallersAssumption DEF Goto, Stays, Return, Finalize, Unlocked, Admitted, WaitForRun, Error,
      files, callers, processes, Runs, Works, Fails, Watch, Run, TypeOK, PlacesTyped
<1>1. CASE WatchdogUnfed(r)
  BY <1>1, BoundsAssumption DEF WatchdogUnfed
<1>2. CASE SpawnHost(r)
  BY <1>2, BoundsAssumption DEF SpawnHost
<1>3. CASE FeedHost(r)
  BY <1>3, BoundsAssumption DEF FeedHost
<1>4. CASE SuperviseDead(r)
  BY <1>4, BoundsAssumption DEF SuperviseDead
<1>5. CASE SuperviseTerminal(r)
  BY <1>5, BoundsAssumption DEF SuperviseTerminal
<1>6. CASE SuperviseExpired(r)
  BY <1>6, BoundsAssumption DEF SuperviseExpired
<1>7. CASE ReconcileHost(r)
  BY <1>7, BoundsAssumption DEF ReconcileHost
<1>8. CASE ReplaceBundle(r)
  BY <1>8, ReplaceBundleDoes, BoundsAssumption
<1>9. CASE PublishLost(r)
  BY <1>9, PublishLostDoes, BoundsAssumption
<1>10. CASE WatchdogKilled(r)
  BY <1>10, BoundsAssumption DEF WatchdogKilled
<1>11. CASE HostUnfed(r)
  BY <1>11, BoundsAssumption DEF HostUnfed
<1>12. CASE BindSocket(r)
  BY <1>12, BoundsAssumption DEF BindSocket
<1>13. CASE PublishInitialControl(r)
  BY <1>13, PublishInitialControlDoes, BoundsAssumption
<1>14. CASE StartFlow(r)
  BY <1>14, BoundsAssumption DEF StartFlow
<1>15. CASE Checkpoint(r)
  BY <1>15, BoundsAssumption DEF Checkpoint
<1>16. CASE PublishEvidence(r)
  BY <1>16, BoundsAssumption DEF PublishEvidence
<1>17. CASE PublishTerminal(r)
  BY <1>17, PublishTerminalDoes, BoundsAssumption
<1>18. CASE SealRun(r)
  BY <1>18, SealRunDoes, BoundsAssumption
<1>19. CASE CloseRun(r)
  BY <1>19, CloseRunDoes, BoundsAssumption
<1>20. CASE HostKilled(r)
  BY <1>20, BoundsAssumption DEF HostKilled
<1> QED
    BY <1>1, <1>2, <1>3, <1>4, <1>5, <1>6, <1>7, <1>8, <1>9, <1>10, <1>11, <1>12, <1>13, <1>14,
     <1>15, <1>16, <1>17, <1>18, <1>19, <1>20 DEF ProcessStep, WatchdogNext, HostNext

(* A process touches no other run.                                           *)
LEMMA ProcessOneRun ==
  ASSUME NEW r \in Runs, TypeOK, Used, r = TheRun, RunInv, OneRun, ProcessStep(r)
  PROVE  OneRun'
<1> USE CallersAssumption DEF Goto, Stays, Return, Finalize, Unlocked, Admitted, WaitForRun, Error,
      files, callers, processes, Runs, Works, Fails, Watch, Run, TypeOK, OneRun, Untouched, Used,
      TheRun, Intent, Complete
<1>1. CASE WatchdogUnfed(r)
  BY <1>1 DEF WatchdogUnfed
<1>2. CASE SpawnHost(r)
  BY <1>2 DEF SpawnHost
<1>3. CASE FeedHost(r)
  BY <1>3 DEF FeedHost
<1>4. CASE SuperviseDead(r)
  BY <1>4 DEF SuperviseDead
<1>5. CASE SuperviseTerminal(r)
  BY <1>5 DEF SuperviseTerminal
<1>6. CASE SuperviseExpired(r)
  BY <1>6 DEF SuperviseExpired
<1>7. CASE ReconcileHost(r)
  BY <1>7 DEF ReconcileHost
<1>8. CASE ReplaceBundle(r)
  BY <1>8, ReplaceBundleDoes
<1>9. CASE PublishLost(r)
  BY <1>9, PublishLostDoes
<1>10. CASE WatchdogKilled(r)
  BY <1>10 DEF WatchdogKilled
<1>11. CASE HostUnfed(r)
  BY <1>11 DEF HostUnfed
<1>12. CASE BindSocket(r)
  BY <1>12 DEF BindSocket
<1>13. CASE PublishInitialControl(r)
  BY <1>13, PublishInitialControlDoes
<1>14. CASE StartFlow(r)
  BY <1>14 DEF StartFlow
<1>15. CASE Checkpoint(r)
  BY <1>15 DEF Checkpoint
<1>16. CASE PublishEvidence(r)
  BY <1>16 DEF PublishEvidence
<1>17. CASE PublishTerminal(r)
  BY <1>17, PublishTerminalDoes
<1>18. CASE SealRun(r)
  BY <1>18, SealRunDoes
<1>19. CASE CloseRun(r)
  BY <1>19, CloseRunDoes
<1>20. CASE HostKilled(r)
  BY <1>20 DEF HostKilled
<1> QED
    BY <1>1, <1>2, <1>3, <1>4, <1>5, <1>6, <1>7, <1>8, <1>9, <1>10, <1>11, <1>12, <1>13, <1>14,
     <1>15, <1>16, <1>17, <1>18, <1>19, <1>20 DEF ProcessStep, WatchdogNext, HostNext

(* The processes of the run keep their order.                                *)
LEMMA ProcessBootstrap ==
  ASSUME NEW r \in Runs, TypeOK, Used, r = TheRun, RunInv, ProcessStep(r)
  PROVE  BootstrapOK'
<1> USE CallersAssumption DEF Goto, Stays, Return, Finalize, Unlocked, Admitted, WaitForRun, Error,
      files, callers, processes, Runs, Works, Fails, Watch, Run, TypeOK, BootstrapOK, BlockedOK,
      RunLockOK, RunInv, HostAlive, WatchdogAlive, LockHeld, Reconciling, Locking, Terminal,
      Terminals, TheRun, Used, Complete
<1>1. CASE WatchdogUnfed(r)
  BY <1>1, ControlValues, LostValues DEF WatchdogUnfed
<1>2. CASE SpawnHost(r)
  BY <1>2, ControlValues, LostValues DEF SpawnHost
<1>3. CASE FeedHost(r)
  BY <1>3, ControlValues, LostValues DEF FeedHost
<1>4. CASE SuperviseDead(r)
  BY <1>4, ControlValues, LostValues DEF SuperviseDead
<1>5. CASE SuperviseTerminal(r)
  BY <1>5, ControlValues, LostValues DEF SuperviseTerminal
<1>6. CASE SuperviseExpired(r)
  BY <1>6, ControlValues, LostValues DEF SuperviseExpired
<1>7. CASE ReconcileHost(r)
  BY <1>7, ControlValues, LostValues DEF ReconcileHost
<1>8. CASE ReplaceBundle(r)
  BY <1>8, ReplaceBundleDoes, ControlValues, LostValues
<1>9. CASE PublishLost(r)
  BY <1>9, PublishLostDoes, ControlValues, LostValues
<1>10. CASE WatchdogKilled(r)
  BY <1>10, ControlValues, LostValues DEF WatchdogKilled
<1>11. CASE HostUnfed(r)
  BY <1>11, ControlValues, LostValues DEF HostUnfed
<1>12. CASE BindSocket(r)
  BY <1>12, ControlValues, LostValues DEF BindSocket
<1>13. CASE PublishInitialControl(r)
  BY <1>13, PublishInitialControlDoes, ControlValues, LostValues
<1>14. CASE StartFlow(r)
  BY <1>14, ControlValues, LostValues DEF StartFlow
<1>15. CASE Checkpoint(r)
  BY <1>15, ControlValues, LostValues DEF Checkpoint
<1>16. CASE PublishEvidence(r)
  BY <1>16, ControlValues, LostValues DEF PublishEvidence
<1>17. CASE PublishTerminal(r)
  BY <1>17, PublishTerminalDoes, ControlValues, LostValues
<1>18. CASE SealRun(r)
  BY <1>18, SealRunDoes, ControlValues, LostValues
<1>19. CASE CloseRun(r)
  BY <1>19, CloseRunDoes, ControlValues, LostValues
<1>20. CASE HostKilled(r)
  BY <1>20, ControlValues, LostValues DEF HostKilled
<1> QED
    BY <1>1, <1>2, <1>3, <1>4, <1>5, <1>6, <1>7, <1>8, <1>9, <1>10, <1>11, <1>12, <1>13, <1>14,
     <1>15, <1>16, <1>17, <1>18, <1>19, <1>20 DEF ProcessStep, WatchdogNext, HostNext

(* A job that misses a value has no process.                                 *)
LEMMA ProcessBlocked ==
  ASSUME NEW r \in Runs, TypeOK, Used, r = TheRun, RunInv, ProcessStep(r)
  PROVE  BlockedOK'
<1> USE CallersAssumption DEF Goto, Stays, Return, Finalize, Unlocked, Admitted, WaitForRun, Error,
      files, callers, processes, Runs, Works, Fails, Watch, Run, TypeOK, BootstrapOK, BlockedOK,
      RunLockOK, RunInv, HostAlive, WatchdogAlive, LockHeld, Reconciling, Locking, Terminal,
      Terminals, TheRun, Used, Complete
<1>1. CASE WatchdogUnfed(r)
  BY <1>1, ControlValues DEF WatchdogUnfed
<1>2. CASE SpawnHost(r)
  BY <1>2, ControlValues DEF SpawnHost
<1>3. CASE FeedHost(r)
  BY <1>3, ControlValues DEF FeedHost
<1>4. CASE SuperviseDead(r)
  BY <1>4, ControlValues DEF SuperviseDead
<1>5. CASE SuperviseTerminal(r)
  BY <1>5, ControlValues DEF SuperviseTerminal
<1>6. CASE SuperviseExpired(r)
  BY <1>6, ControlValues DEF SuperviseExpired
<1>7. CASE ReconcileHost(r)
  BY <1>7, ControlValues DEF ReconcileHost
<1>8. CASE ReplaceBundle(r)
  BY <1>8, ReplaceBundleDoes, ControlValues
<1>9. CASE PublishLost(r)
  BY <1>9, PublishLostDoes, ControlValues
<1>10. CASE WatchdogKilled(r)
  BY <1>10, ControlValues DEF WatchdogKilled
<1>11. CASE HostUnfed(r)
  BY <1>11, ControlValues DEF HostUnfed
<1>12. CASE BindSocket(r)
  BY <1>12, ControlValues DEF BindSocket
<1>13. CASE PublishInitialControl(r)
  BY <1>13, PublishInitialControlDoes, ControlValues
<1>14. CASE StartFlow(r)
  BY <1>14, ControlValues DEF StartFlow
<1>15. CASE Checkpoint(r)
  BY <1>15, ControlValues DEF Checkpoint
<1>16. CASE PublishEvidence(r)
  BY <1>16, ControlValues DEF PublishEvidence
<1>17. CASE PublishTerminal(r)
  BY <1>17, PublishTerminalDoes, ControlValues
<1>18. CASE SealRun(r)
  BY <1>18, SealRunDoes, ControlValues
<1>19. CASE CloseRun(r)
  BY <1>19, CloseRunDoes, ControlValues
<1>20. CASE HostKilled(r)
  BY <1>20, ControlValues DEF HostKilled
<1> QED
    BY <1>1, <1>2, <1>3, <1>4, <1>5, <1>6, <1>7, <1>8, <1>9, <1>10, <1>11, <1>12, <1>13, <1>14,
     <1>15, <1>16, <1>17, <1>18, <1>19, <1>20 DEF ProcessStep, WatchdogNext, HostNext

(* The watchdog reconciles under the run lock, without a host.               *)
LEMMA ProcessRunLock ==
  ASSUME NEW r \in Runs, TypeOK, Used, r = TheRun, RunInv, ProcessStep(r)
  PROVE  RunLockOK'
<1> USE CallersAssumption DEF Goto, Stays, Return, Finalize, Unlocked, Admitted, WaitForRun, Error,
      files, callers, processes, Runs, Works, Fails, Watch, Run, TypeOK, BootstrapOK, BlockedOK,
      RunLockOK, RunInv, HostAlive, WatchdogAlive, LockHeld, Reconciling, Locking, Terminal,
      Terminals, TheRun, Used, Complete
<1>1. CASE WatchdogUnfed(r)
  BY <1>1, ControlValues DEF WatchdogUnfed
<1>2. CASE SpawnHost(r)
  BY <1>2, ControlValues DEF SpawnHost
<1>3. CASE FeedHost(r)
  BY <1>3, ControlValues DEF FeedHost
<1>4. CASE SuperviseDead(r)
  BY <1>4, ControlValues DEF SuperviseDead
<1>5. CASE SuperviseTerminal(r)
  BY <1>5, ControlValues DEF SuperviseTerminal
<1>6. CASE SuperviseExpired(r)
  BY <1>6, ControlValues DEF SuperviseExpired
<1>7. CASE ReconcileHost(r)
  BY <1>7, ControlValues DEF ReconcileHost
<1>8. CASE ReplaceBundle(r)
  BY <1>8, ReplaceBundleDoes, ControlValues
<1>9. CASE PublishLost(r)
  BY <1>9, PublishLostDoes, ControlValues
<1>10. CASE WatchdogKilled(r)
  BY <1>10, ControlValues DEF WatchdogKilled
<1>11. CASE HostUnfed(r)
  BY <1>11, ControlValues DEF HostUnfed
<1>12. CASE BindSocket(r)
  BY <1>12, ControlValues DEF BindSocket
<1>13. CASE PublishInitialControl(r)
  BY <1>13, PublishInitialControlDoes, ControlValues
<1>14. CASE StartFlow(r)
  BY <1>14, ControlValues DEF StartFlow
<1>15. CASE Checkpoint(r)
  BY <1>15, ControlValues DEF Checkpoint
<1>16. CASE PublishEvidence(r)
  BY <1>16, ControlValues DEF PublishEvidence
<1>17. CASE PublishTerminal(r)
  BY <1>17, PublishTerminalDoes, ControlValues
<1>18. CASE SealRun(r)
  BY <1>18, SealRunDoes, ControlValues
<1>19. CASE CloseRun(r)
  BY <1>19, CloseRunDoes, ControlValues
<1>20. CASE HostKilled(r)
  BY <1>20, ControlValues DEF HostKilled
<1> QED
    BY <1>1, <1>2, <1>3, <1>4, <1>5, <1>6, <1>7, <1>8, <1>9, <1>10, <1>11, <1>12, <1>13, <1>14,
     <1>15, <1>16, <1>17, <1>18, <1>19, <1>20 DEF ProcessStep, WatchdogNext, HostNext

(* The control says no more than the processes have done.                    *)
LEMMA ProcessControl ==
  ASSUME NEW r \in Runs, TypeOK, Used, r = TheRun, RunInv, ProcessStep(r)
  PROVE  ControlOK'
<1> USE CallersAssumption DEF Goto, Stays, Return, Finalize, Unlocked, Admitted, WaitForRun, Error,
      files, callers, processes, Runs, Works, Fails, Watch, Run, TypeOK, BootstrapOK, BlockedOK,
      RunLockOK, RunInv, HostAlive, WatchdogAlive, LockHeld, Reconciling, Locking, Terminal,
      Terminals, TheRun, Used, Complete, ControlOK
<1>1. CASE WatchdogUnfed(r)
  BY <1>1, ControlValues, LostValues DEF WatchdogUnfed
<1>2. CASE SpawnHost(r)
  BY <1>2, ControlValues, LostValues DEF SpawnHost
<1>3. CASE FeedHost(r)
  BY <1>3, ControlValues, LostValues DEF FeedHost
<1>4. CASE SuperviseDead(r)
  BY <1>4, ControlValues, LostValues DEF SuperviseDead
<1>5. CASE SuperviseTerminal(r)
  BY <1>5, ControlValues, LostValues DEF SuperviseTerminal
<1>6. CASE SuperviseExpired(r)
  BY <1>6, ControlValues, LostValues DEF SuperviseExpired
<1>7. CASE ReconcileHost(r)
  BY <1>7, ControlValues, LostValues DEF ReconcileHost
<1>8. CASE ReplaceBundle(r)
  BY <1>8, ReplaceBundleDoes, ControlValues, LostValues
<1>9. CASE PublishLost(r)
  BY <1>9, PublishLostDoes, ControlValues, LostValues
<1>10. CASE WatchdogKilled(r)
  BY <1>10, ControlValues, LostValues DEF WatchdogKilled
<1>11. CASE HostUnfed(r)
  BY <1>11, ControlValues, LostValues DEF HostUnfed
<1>12. CASE BindSocket(r)
  BY <1>12, ControlValues, LostValues DEF BindSocket
<1>13. CASE PublishInitialControl(r)
  BY <1>13, PublishInitialControlDoes, ControlValues, LostValues
<1>14. CASE StartFlow(r)
  BY <1>14, ControlValues, LostValues DEF StartFlow
<1>15. CASE Checkpoint(r)
  BY <1>15, ControlValues, LostValues DEF Checkpoint
<1>16. CASE PublishEvidence(r)
  BY <1>16, ControlValues, LostValues DEF PublishEvidence
<1>17. CASE PublishTerminal(r)
  BY <1>17, PublishTerminalDoes, ControlValues, LostValues
<1>18. CASE SealRun(r)
  BY <1>18, SealRunDoes, ControlValues, LostValues
<1>19. CASE CloseRun(r)
  BY <1>19, CloseRunDoes, ControlValues, LostValues
<1>20. CASE HostKilled(r)
  BY <1>20, ControlValues, LostValues DEF HostKilled
<1> QED
    BY <1>1, <1>2, <1>3, <1>4, <1>5, <1>6, <1>7, <1>8, <1>9, <1>10, <1>11, <1>12, <1>13, <1>14,
     <1>15, <1>16, <1>17, <1>18, <1>19, <1>20 DEF ProcessStep, WatchdogNext, HostNext

(* The host records the result its evidence holds.                           *)
LEMMA ProcessRecord ==
  ASSUME NEW r \in Runs, TypeOK, Used, r = TheRun, RunInv, ProcessStep(r)
  PROVE  RecordOK'
<1> USE CallersAssumption DEF Goto, Stays, Return, Finalize, Unlocked, Admitted, WaitForRun, Error,
      files, callers, processes, Runs, Works, Fails, Watch, Run, TypeOK, BootstrapOK, BlockedOK,
      RunInv, ControlOK, RecordOK, Sealed, HostAlive, Terminal, Terminals, TheRun, Used, Complete
<1>1. CASE WatchdogUnfed(r)
  BY <1>1, ControlValues, RecordValues DEF WatchdogUnfed
<1>2. CASE SpawnHost(r)
  BY <1>2, ControlValues, RecordValues DEF SpawnHost
<1>3. CASE FeedHost(r)
  BY <1>3, ControlValues, RecordValues DEF FeedHost
<1>4. CASE SuperviseDead(r)
  BY <1>4, ControlValues, RecordValues DEF SuperviseDead
<1>5. CASE SuperviseTerminal(r)
  BY <1>5, ControlValues, RecordValues DEF SuperviseTerminal
<1>6. CASE SuperviseExpired(r)
  BY <1>6, ControlValues, RecordValues DEF SuperviseExpired
<1>7. CASE ReconcileHost(r)
  BY <1>7, ControlValues, RecordValues DEF ReconcileHost
<1>8. CASE ReplaceBundle(r)
  BY <1>8, ReplaceBundleDoes, ControlValues, RecordValues
<1>9. CASE PublishLost(r)
  BY <1>9, PublishLostDoes, ControlValues, RecordValues
<1>10. CASE WatchdogKilled(r)
  BY <1>10, ControlValues, RecordValues DEF WatchdogKilled
<1>11. CASE HostUnfed(r)
  BY <1>11, ControlValues, RecordValues DEF HostUnfed
<1>12. CASE BindSocket(r)
  BY <1>12, ControlValues, RecordValues DEF BindSocket
<1>13. CASE PublishInitialControl(r)
  BY <1>13, PublishInitialControlDoes, ControlValues, RecordValues
<1>14. CASE StartFlow(r)
  BY <1>14, ControlValues, RecordValues DEF StartFlow
<1>15. CASE Checkpoint(r)
  BY <1>15, ControlValues, RecordValues DEF Checkpoint
<1>16. CASE PublishEvidence(r)
  BY <1>16, ControlValues, RecordValues DEF PublishEvidence
<1>17. CASE PublishTerminal(r)
  BY <1>17, PublishTerminalDoes, ControlValues, RecordValues
<1>18. CASE SealRun(r)
  <2>1. Sealed /\ evidence[r] = "flow"
    BY <1>18, SealRunDoes, ControlValues
  <2>2. Sealed' /\ evidence'[r] = "flow" /\ index' = index
    BY <1>18, <2>1, SealRunDoes
  <2>3. index.phase = "complete" => entry' = entry
    BY <1>18, <2>1, SealRunDoes
  <2> QED
    BY <1>18, <2>1, <2>2, <2>3, SealRunDoes
<1>19. CASE CloseRun(r)
  BY <1>19, CloseRunDoes, ControlValues, RecordValues
<1>20. CASE HostKilled(r)
  BY <1>20, ControlValues, RecordValues DEF HostKilled
<1> QED
    BY <1>1, <1>2, <1>3, <1>4, <1>5, <1>6, <1>7, <1>8, <1>9, <1>10, <1>11, <1>12, <1>13, <1>14,
     <1>15, <1>16, <1>17, <1>18, <1>19, <1>20 DEF ProcessStep, WatchdogNext, HostNext

(* A process changes no terminal control and no result that may be recorded. *)
LEMMA ProcessKeeps ==
  ASSUME NEW r \in Runs, TypeOK, Used, r = TheRun, RunInv, ProcessStep(r)
  PROVE  KeepsEnds
<1> USE CallersAssumption DEF Goto, Stays, Return, Finalize, Unlocked, Admitted, WaitForRun, Error,
      files, callers, processes, Runs, Works, Fails, Watch, Run, KeepsEnds, TypeOK, RunInv,
      RecordOK, BootstrapOK, ControlOK, BlockedOK, Terminal, Terminals, Sealed, TheRun, Used,
      HostAlive, Complete
<1>1. CASE WatchdogUnfed(r)
  BY <1>1, ControlValues, LostValues DEF WatchdogUnfed
<1>2. CASE SpawnHost(r)
  BY <1>2, ControlValues, LostValues DEF SpawnHost
<1>3. CASE FeedHost(r)
  BY <1>3, ControlValues, LostValues DEF FeedHost
<1>4. CASE SuperviseDead(r)
  BY <1>4, ControlValues, LostValues DEF SuperviseDead
<1>5. CASE SuperviseTerminal(r)
  BY <1>5, ControlValues, LostValues DEF SuperviseTerminal
<1>6. CASE SuperviseExpired(r)
  BY <1>6, ControlValues, LostValues DEF SuperviseExpired
<1>7. CASE ReconcileHost(r)
  BY <1>7, ControlValues, LostValues DEF ReconcileHost
<1>8. CASE ReplaceBundle(r)
  BY <1>8, ReplaceBundleDoes, ControlValues, LostValues
<1>9. CASE PublishLost(r)
  BY <1>9, PublishLostDoes, ControlValues, LostValues
<1>10. CASE WatchdogKilled(r)
  BY <1>10, ControlValues, LostValues DEF WatchdogKilled
<1>11. CASE HostUnfed(r)
  BY <1>11, ControlValues, LostValues DEF HostUnfed
<1>12. CASE BindSocket(r)
  BY <1>12, ControlValues, LostValues DEF BindSocket
<1>13. CASE PublishInitialControl(r)
  BY <1>13, PublishInitialControlDoes, ControlValues, LostValues
<1>14. CASE StartFlow(r)
  BY <1>14, ControlValues, LostValues DEF StartFlow
<1>15. CASE Checkpoint(r)
  BY <1>15, ControlValues, LostValues DEF Checkpoint
<1>16. CASE PublishEvidence(r)
  BY <1>16, ControlValues, LostValues DEF PublishEvidence
<1>17. CASE PublishTerminal(r)
  BY <1>17, PublishTerminalDoes, ControlValues, LostValues
<1>18. CASE SealRun(r)
  BY <1>18, SealRunDoes, ControlValues, LostValues
<1>19. CASE CloseRun(r)
  BY <1>19, CloseRunDoes, ControlValues, LostValues
<1>20. CASE HostKilled(r)
  BY <1>20, ControlValues, LostValues DEF HostKilled
<1> QED
    BY <1>1, <1>2, <1>3, <1>4, <1>5, <1>6, <1>7, <1>8, <1>9, <1>10, <1>11, <1>12, <1>13, <1>14,
     <1>15, <1>16, <1>17, <1>18, <1>19, <1>20 DEF ProcessStep, WatchdogNext, HostNext

(* A process does not touch what a caller is about to act on.                *)
LEMMA ProcessLeaves ==
  ASSUME NEW r \in Runs, TypeOK, Used, r = TheRun, RunInv, NEW d \in Callers, PlaceOK(d),
         KnowsOK(d), ProcessStep(r)
  PROVE  LeavesTo(d)
<1> USE CallersAssumption DEF Goto, Stays, Return, Finalize, Unlocked, Admitted, WaitForRun, Error,
      files, callers, processes, Runs, Works, Fails, Watch, Run, LeavesTo, TypeOK, RunInv, RecordOK,
      BootstrapOK, ControlOK, BlockedOK, Terminal, Terminals, Sealed, TheRun, Used, LockHeld,
      Reconciling, Busy, Locking, HostAlive, WatchdogAlive, Complete, PlaceOK, Bound, Unbound
<1>1. CASE WatchdogUnfed(r)
  BY <1>1, ControlValues, LostValues DEF WatchdogUnfed
<1>2. CASE SpawnHost(r)
  BY <1>2, ControlValues, LostValues DEF SpawnHost
<1>3. CASE FeedHost(r)
  BY <1>3, ControlValues, LostValues DEF FeedHost
<1>4. CASE SuperviseDead(r)
  BY <1>4, ControlValues, LostValues DEF SuperviseDead
<1>5. CASE SuperviseTerminal(r)
  BY <1>5, ControlValues, LostValues DEF SuperviseTerminal
<1>6. CASE SuperviseExpired(r)
  BY <1>6, ControlValues, LostValues DEF SuperviseExpired
<1>7. CASE ReconcileHost(r)
  BY <1>7, ControlValues, LostValues DEF ReconcileHost
<1>8. CASE ReplaceBundle(r)
  BY <1>8, ReplaceBundleDoes, ControlValues, LostValues
<1>9. CASE PublishLost(r)
  BY <1>9, PublishLostDoes, ControlValues, LostValues
<1>10. CASE WatchdogKilled(r)
  BY <1>10, ControlValues, LostValues DEF WatchdogKilled
<1>11. CASE HostUnfed(r)
  BY <1>11, ControlValues, LostValues DEF HostUnfed
<1>12. CASE BindSocket(r)
  BY <1>12, ControlValues, LostValues DEF BindSocket
<1>13. CASE PublishInitialControl(r)
  BY <1>13, PublishInitialControlDoes, ControlValues, LostValues
<1>14. CASE StartFlow(r)
  BY <1>14, ControlValues, LostValues DEF StartFlow
<1>15. CASE Checkpoint(r)
  BY <1>15, ControlValues, LostValues DEF Checkpoint
<1>16. CASE PublishEvidence(r)
  BY <1>16, ControlValues, LostValues DEF PublishEvidence
<1>17. CASE PublishTerminal(r)
  BY <1>17, PublishTerminalDoes, ControlValues, LostValues
<1>18. CASE SealRun(r)
  BY <1>18, SealRunDoes, ControlValues, LostValues
<1>19. CASE CloseRun(r)
  BY <1>19, CloseRunDoes, ControlValues, LostValues
<1>20. CASE HostKilled(r)
  BY <1>20, ControlValues, LostValues DEF HostKilled
<1> QED
    BY <1>1, <1>2, <1>3, <1>4, <1>5, <1>6, <1>7, <1>8, <1>9, <1>10, <1>11, <1>12, <1>13, <1>14,
     <1>15, <1>16, <1>17, <1>18, <1>19, <1>20 DEF ProcessStep, WatchdogNext, HostNext

-----------------------------------------------------------------------------
(* The invariant.                                                            *)

(* What a caller goes by survives every step of somebody else.               *)
LEMMA OthersKeep ==
  ASSUME NEW d \in Callers, TypeOK, RunInv, Used, PlaceOK(d), KnowsOK(d), ToldOK(d),
         pc'[d] = pc[d] /\ run'[d] = run[d] /\ seen'[d] = seen[d] /\ out'[d] = out[d],
         KeepsEnds, LeavesTo(d)
  PROVE  PlaceOK(d)' /\ KnowsOK(d)' /\ ToldOK(d)'
<1>1. PlaceOK(d)'
  BY DEF PlaceOK, Bound, Unbound, KeepsEnds, TheRun
<1>2. ToldOK(d)'
  BY DEF ToldOK, KeepsEnds, Ended, TheRun
<1>3. Sealed => Sealed' /\ evidence'[TheRun'] = evidence[TheRun]
  BY DEF Sealed, KeepsEnds, TheRun
<1>4. KnowsOK(d)'
  BY <1>3 DEF KnowsOK, KeepsEnds, LeavesTo, TheRun
<1> QED
  BY <1>1, <1>2, <1>4

(* As long as the request id is unused, there is nothing to know.            *)
LEMMA NobodyKnows ==
  ASSUME NEW d \in Callers, TypeOK, ~Used, PlaceOK(d), ToldOK(d),
         pc'[d] = pc[d] /\ run'[d] = run[d] /\ seen'[d] = seen[d] /\ out'[d] = out[d],
         pc[d] = "intent" => ~Used'
  PROVE  PlaceOK(d)' /\ KnowsOK(d)' /\ ToldOK(d)'
  BY DEF PlaceOK, KnowsOK, ToldOK, Bound, Unbound, Used

(* Every step of a caller keeps the invariant.                              *)
LEMMA CallerStepOK ==
  ASSUME AdmissionInv, NEW c \in Callers, CallerStep(c)
  PROVE  AdmissionInv'
<1>1. /\ TypeOK /\ OneRun /\ RequestLockInv /\ (Used => RunInv)
      /\ PlaceOK(c) /\ KnowsOK(c) /\ ToldOK(c)
  BY DEF AdmissionInv, CallersInv, RunInv
<1>2. RunInv
  BY DEF AdmissionInv
<1>3. TypeOK'
  <2>1. pc[c] \in {"seal", "close"} => out[c] \in Terminals
    BY <1>1 DEF KnowsOK, Sealed
  <2>2. FilesTyped'
    BY <1>1, <1>2, <2>1, CallerFiles
  <2>3. NoControl \in Controls /\ AbandonedControl \in Controls
    BY ControlValues
  <2>4. PlacesTyped'
    BY <1>1, <1>2, <2>3, CallerPlaces
  <2>5. out \in [Callers -> Answers] /\ index.result \in Answers
    BY <1>1 DEF TypeOK, Records, Answers
  <2>6. Terminals \cup {"running", "missing_value", "conflict", "killed", Error} \subseteq Answers
    BY DEF Answers, States, Terminals
  <2>7. ASSUME run[c] \in Runs
        PROVE  control[run[c]] = NoControl \/ control[run[c]].state \in Answers
    <3>1. control[run[c]] \in Controls /\ (Untouched(run[c]) \/ (Used /\ run[c] = TheRun))
      BY <1>1, <2>7 DEF TypeOK, OneRun
    <3>2. control[run[c]].state = "absent" => control[run[c]] = NoControl
      BY <1>1, <3>1 DEF Untouched, RunInv, ControlOK
    <3> QED
      BY <3>1, <3>2 DEF Controls, Answers
  <2>8. out' \in [Callers -> Answers]
    BY <1>1, <1>2, <2>5, <2>6, <2>7, CallerAnswers
  <2> QED
    BY <2>2, <2>4, <2>8 DEF TypeOK, FilesTyped, PlacesTyped
<1>4. OneRun' /\ RequestLockInv' /\ PlaceOK(c)'
  BY <1>1, <1>2, CallerOneRun, CallerLocks, CallerPlace
<1>5. CASE Used
  <2>1. RunInv'
    BY <1>1, <1>2, <1>5, CallerBootstrap, CallerBlocked, CallerRunLock, CallerControl, CallerRecord DEF RunInv
  <2>2. KnowsOK(c)' /\ ToldOK(c)'
    BY <1>1, <1>2, <1>5, CallerKnows, CallerTold
  <2>3. ASSUME NEW d \in Callers, d # c
        PROVE  PlaceOK(d)' /\ KnowsOK(d)' /\ ToldOK(d)'
    <3>1. PlaceOK(d) /\ KnowsOK(d) /\ ToldOK(d)
      BY DEF AdmissionInv, CallersInv
    <3>2. KeepsEnds /\ LeavesTo(d)
      BY <1>1, <1>2, <1>5, <2>3, <3>1, CallerKeeps, CallerLeaves
    <3> QED
      BY <1>1, <1>2, <1>5, <2>3, <3>1, <3>2, CallerMoves, OthersKeep
  <2> QED
    BY <1>3, <1>4, <2>1, <2>2, <2>3 DEF AdmissionInv, CallersInv
<1>6. CASE ~Used
  <2>1. RunInv'
    <3>1. Used' => RunInv'
      BY <1>1, <1>2, <1>6, CallerFirst
    <3> QED
      BY <3>1 DEF RunInv
  <2>2. KnowsOK(c)' /\ ToldOK(c)'
    BY <1>1, <1>2, <1>6, CallerUnknowing
  <2>3. ASSUME NEW d \in Callers, d # c
        PROVE  PlaceOK(d)' /\ KnowsOK(d)' /\ ToldOK(d)'
    <3>1. PlaceOK(d) /\ KnowsOK(d) /\ ToldOK(d)
      BY DEF AdmissionInv, CallersInv
    <3>2. pc[d] = "intent" => ~Used'
      BY <1>1, <1>6, <2>3, CallerClaims
    <3> QED
      BY <1>1, <1>6, <2>3, <3>1, <3>2, CallerMoves, NobodyKnows
  <2> QED
    BY <1>3, <1>4, <2>1, <2>2, <2>3 DEF AdmissionInv, CallersInv
<1> QED
  BY <1>5, <1>6

(* So does every step of a host or a watchdog, and every death.             *)
LEMMA ProcessStepOK ==
  ASSUME AdmissionInv, NEW r \in Runs, ProcessStep(r)
  PROVE  AdmissionInv'
<1>1. TypeOK /\ OneRun /\ RequestLockInv /\ RunInv /\ CallersInv
  BY DEF AdmissionInv
<1>2. Used /\ r = TheRun /\ UNCHANGED <<requestLock, pc, run, seen, out>>
  BY <1>1, ProcessOfTheRun DEF callers
<1>3. TypeOK'
  <2>1. out' \in [Callers -> Answers]
    BY <1>1, <1>2 DEF TypeOK
  <2> QED
    BY <1>1, <1>2, <2>1, ProcessFiles, ProcessPlaces DEF TypeOK, FilesTyped, PlacesTyped
<1>4. OneRun'
  BY <1>1, <1>2, ProcessOneRun
<1>5. RequestLockInv'
  BY <1>1, <1>2 DEF RequestLockInv
<1>6. RunInv'
  BY <1>1, <1>2, ProcessBootstrap, ProcessBlocked, ProcessRunLock, ProcessControl, ProcessRecord DEF RunInv
<1>7. ASSUME NEW d \in Callers
      PROVE  PlaceOK(d)' /\ KnowsOK(d)' /\ ToldOK(d)'
  <2>1. PlaceOK(d) /\ KnowsOK(d) /\ ToldOK(d)
    BY <1>1 DEF CallersInv
  <2>2. KeepsEnds /\ LeavesTo(d)
    BY <1>1, <1>2, <2>1, ProcessKeeps, ProcessLeaves
  <2> QED
    BY <1>1, <1>2, <2>1, <2>2, OthersKeep
<1> QED
  BY <1>3, <1>4, <1>5, <1>6, <1>7 DEF AdmissionInv, CallersInv

(* No run was asked for yet.                                                *)
LEMMA AdmissionInit == Init => AdmissionInv
<1> SUFFICES ASSUME Init PROVE AdmissionInv
  OBVIOUS
<1>1. NoRecord \in Records /\ NoControl \in Controls /\ "none" \in Bundles /\ "none" \in Answers
  BY RecordValues, ControlValues, BundleValues DEF Answers
<1>2. TypeOK
  BY <1>1, BoundsAssumption DEF Init, TypeOK, Runs
<1>3. ~Used /\ OneRun
  BY DEF Init, OneRun, Used, Untouched, NoRecord, Runs
<1>4. RequestLockInv
  BY CallersAssumption DEF Init, RequestLockInv, Holding
<1>5. CallersInv
  BY DEF Init, CallersInv, PlaceOK, KnowsOK, ToldOK, Unbound
<1> QED
  BY <1>2, <1>3, <1>4, <1>5 DEF AdmissionInv, RunInv

(* Nothing else changes what the invariant is about.                        *)
LEMMA AdmissionStutters == AdmissionInv /\ UNCHANGED vars => AdmissionInv'
<1> SUFFICES ASSUME AdmissionInv, UNCHANGED vars PROVE AdmissionInv'
  OBVIOUS
<1> USE DEF vars, files, callers, processes
<1>1. TypeOK' /\ OneRun' /\ RequestLockInv'
  BY DEF AdmissionInv, TypeOK, OneRun, RequestLockInv, Used, TheRun, Untouched
<1>2. RunInv'
  BY DEF AdmissionInv, RunInv, BootstrapOK, BlockedOK, RunLockOK, ControlOK, RecordOK, Sealed, Used, TheRun, HostAlive
<1>3. CallersInv'
  BY DEF AdmissionInv, CallersInv, PlaceOK, KnowsOK, ToldOK, Bound, Ended, Sealed, Busy, HostAlive, Used, TheRun
<1> QED
  BY <1>1, <1>2, <1>3 DEF AdmissionInv

(* AdmissionInv is inductive: it holds of every reachable state.             *)
THEOREM AdmissionInvariant == Spec => []AdmissionInv
<1>1. AdmissionInv /\ [Next]_vars => AdmissionInv'
  <2>1. ASSUME AdmissionInv, Next PROVE AdmissionInv'
    <3>1. PICK c \in Callers : CallerStep(c) \/ ProcessStep(c)
      BY <2>1, Steps DEF AdmissionInv
    <3> QED
      BY <2>1, <3>1, CallerStepOK, ProcessStepOK DEF Runs
  <2> QED
    BY <2>1, AdmissionStutters
<1> QED
  BY AdmissionInit, <1>1, PTL DEF Spec

(* Every variable of the admission keeps its type, and a caller past its     *)
(* lookup has a run.                                                         *)
THEOREM AdmissionTypeCorrect == Spec => []TypeOK
<1>1. AdmissionInv => TypeOK
  BY DEF AdmissionInv
<1> QED
  BY <1>1, AdmissionInvariant, PTL

(* reconcile_abandoned_bootstrap: a bootstrap given up never turns into a run.*)
THEOREM AbandonedNeverStarts == Spec => []AbandonedStaysUnstarted
<1>1. ASSUME AdmissionInv, NEW r \in Runs, control[r].state = "abandoned"
      PROVE  /\ flows = 0 /\ ~HostAlive(r)
             /\ watchdog[r] \notin {"spawned", "framed"} /\ pc[r] \notin {"spawn", "send"}
  <2>1. Used /\ r = TheRun
    BY <1>1, ControlValues DEF AdmissionInv, OneRun, Untouched
  <2>2. ControlOK /\ TypeOK
    BY <1>1, <2>1 DEF AdmissionInv, RunInv
  <2> QED
    BY <1>1, <2>1, <2>2, ControlValues DEF ControlOK, TypeOK
<1>2. AdmissionInv => AbandonedStaysUnstarted
  BY <1>1 DEF AbandonedStaysUnstarted
<1> QED
  BY <1>2, AdmissionInvariant, PTL

(* finalize: the response of a request id is what the evidence and the entry *)
(* of its run say, whoever recorded it.                                      *)
THEOREM RecordIsAlwaysConfirmed == Spec => []RecordIsConfirmed
<1>1. AdmissionInv => RecordIsConfirmed
  <2> SUFFICES ASSUME AdmissionInv, index.phase = "complete"
               PROVE  evidence[index.run] = index.result /\ entry[index.run] = index
    BY DEF RecordIsConfirmed
  <2>1. Used /\ RecordOK
    BY DEF AdmissionInv, RunInv, Used
  <2>2. entry[TheRun] = index /\ index = Complete(TheRun, evidence[TheRun])
    BY <2>1 DEF RecordOK
  <2> QED
    BY <2>2 DEF TheRun, Complete
<1> QED
  BY <1>1, AdmissionInvariant, PTL

(* No two callers are given different terminal results, and none the result  *)
(* of another job.                                                           *)
THEOREM AnswersAlwaysAgree == Spec => []AnswersAgree
<1>1. ASSUME AdmissionInv, NEW c \in Callers, pc[c] = "done" /\ out[c] \in States
      PROVE  /\ JobOf[c] = JobOf[index.run]
             /\ \A d \in Callers : pc[d] = "done" /\ {out[c], out[d]} \subseteq Terminals => out[c] = out[d]
  <2>1. Used /\ ControlOK /\ BlockedOK
    BY <1>1 DEF AdmissionInv, CallersInv, ToldOK, RunInv
  <2>2. \A d \in Callers : pc[d] = "done" /\ out[d] \in Terminals => Ended(out[d])
    BY <1>1 DEF AdmissionInv, CallersInv, ToldOK, States
  <2>3. ASSUME NEW s, NEW t, Ended(s), Ended(t) PROVE s = t
    BY <2>1, <2>3, ControlValues DEF Ended, BlockedOK, Terminal, Terminals
  <2> QED
    BY <1>1, <2>2, <2>3 DEF AdmissionInv, CallersInv, ToldOK, TheRun
<1>2. AdmissionInv => AnswersAgree
  BY <1>1 DEF AnswersAgree
<1> QED
  BY <1>2, AdmissionInvariant, PTL

-----------------------------------------------------------------------------
(* The refinement of RunRequest.                                             *)
GivenUp == control[TheRun].state = "abandoned"
PromiseStep ==
  \/ UNCHANGED <<index, flows, GivenUp>>
  \/ /\ Sealed /\ index' = Complete(TheRun, evidence[TheRun])
     /\ UNCHANGED <<flows, GivenUp>>
  \/ /\ Bootstrapping(control[TheRun]) /\ JobOf[TheRun] \notin Blocked
     /\ GivenUp' /\ UNCHANGED <<index, flows>>
  \/ host[TheRun] = "serving" /\ flows' = flows + 1 /\ UNCHANGED <<index, GivenUp>>


(* Before there is a run, the only record a caller writes is its intent.     *)
LEMMA CallerRecords ==
  ASSUME NEW c \in Callers, TypeOK, OneRun, RunInv, RequestLockInv, PlaceOK(c), KnowsOK(c),
         ~Used, CallerStep(c)
  PROVE  index' = index \/ index' = Intent(c)
<1> USE CallersAssumption DEF Goto, Stays, Return, Finalize, Unlocked, Admitted, WaitForRun, Error,
      files, callers, processes, Runs, Works, Fails, Watch, Run, TypeOK, PlaceOK, Unbound, Bound,
      Used
<1>1. CASE Lock(c)
  BY <1>1 DEF Lock
<1>2. CASE Lookup(c)
  BY <1>2 DEF Lookup
<1>3. CASE RecordIntent(c)
  BY <1>3, RecordIntentDoes
<1>4. CASE RecordEntry(c)
  BY <1>4, RecordEntryDoes
<1>5. CASE StopAtAdmission(c)
  BY <1>5, StopAtAdmissionDoes
<1>6. CASE Seal(c)
  BY <1>6, SealDoes
<1>7. CASE Close(c)
  BY <1>7, CloseDoes
<1>8. CASE InitializeBasis(c)
  BY <1>8, InitializeBasisDoes
<1>9. CASE SpawnWatchdog(c)
  BY <1>9 DEF SpawnWatchdog
<1>10. CASE SendBootstrap(c)
  BY <1>10 DEF SendBootstrap
<1>11. CASE AwaitReadiness(c)
  BY <1>11 DEF AwaitReadiness
<1>12. CASE ReadControl(c)
  BY <1>12 DEF ReadControl
<1>13. CASE RereadControl(c)
  BY <1>13 DEF RereadControl
<1>14. CASE ProbeBootstrap(c)
  BY <1>14 DEF ProbeBootstrap
<1>15. CASE ReconcileBootstrap(c)
  BY <1>15, ReconcileBootstrapDoes
<1>16. CASE Attach(c)
  BY <1>16 DEF Attach
<1>17. CASE ConfirmDead(c)
  BY <1>17 DEF ConfirmDead
<1>18. CASE Recover(c)
  BY <1>18 DEF Recover
<1>19. CASE Wait(c)
  BY <1>19 DEF Wait
<1>20. CASE DoubtHost(c)
  BY <1>20 DEF DoubtHost
<1>21. CASE PublishLoss(c)
  BY <1>21, PublishLossDoes
<1>22. CASE CallerKilled(c)
  BY <1>22 DEF CallerKilled
<1> QED
    BY <1>1, <1>2, <1>3, <1>4, <1>5, <1>6, <1>7, <1>8, <1>9, <1>10, <1>11, <1>12, <1>13, <1>14,
     <1>15, <1>16, <1>17, <1>18, <1>19, <1>20, <1>21, <1>22 DEF CallerStep, CallerNext

(* A caller records the result that is sealed, or gives a bootstrap up.      *)
LEMMA CallerPromise ==
  ASSUME NEW c \in Callers, TypeOK, OneRun, RunInv, RequestLockInv, PlaceOK(c), KnowsOK(c),
         Used, CallerStep(c)
  PROVE  PromiseStep
<1> USE CallersAssumption DEF Goto, Stays, Return, Finalize, Unlocked, Admitted, WaitForRun, Error,
      files, callers, processes, Runs, Works, Fails, Watch, Run, PromiseStep, GivenUp, TypeOK,
      RunInv, KnowsOK, PlaceOK, Unbound, Bound, Used, TheRun, Bootstrapping, BootstrapOK, Terminal,
      Terminals
<1>1. CASE Lock(c)
  BY <1>1, ControlValues DEF Lock
<1>2. CASE Lookup(c)
  BY <1>2, ControlValues DEF Lookup
<1>3. CASE RecordIntent(c)
  BY <1>3, RecordIntentDoes, ControlValues
<1>4. CASE RecordEntry(c)
  BY <1>4, RecordEntryDoes, ControlValues
<1>5. CASE StopAtAdmission(c)
  BY <1>5, StopAtAdmissionDoes, ControlValues
<1>6. CASE Seal(c)
  BY <1>6, SealDoes, ControlValues
<1>7. CASE Close(c)
  <2>1. Sealed /\ run[c] = TheRun /\ out[c] = evidence[TheRun]
    BY <1>7, CloseDoes
  <2>2. UNCHANGED <<control, flows>>
    BY <1>7, CloseDoes
  <2>3. index' \in {index, Complete(TheRun, evidence[TheRun])}
    BY <1>7, <2>1, CloseDoes
  <2>4. UNCHANGED GivenUp
    BY <2>2, <2>3 DEF Complete
  <2> QED
    BY <2>1, <2>2, <2>3, <2>4
<1>8. CASE InitializeBasis(c)
  BY <1>8, InitializeBasisDoes, ControlValues
<1>9. CASE SpawnWatchdog(c)
  BY <1>9, ControlValues DEF SpawnWatchdog
<1>10. CASE SendBootstrap(c)
  BY <1>10, ControlValues DEF SendBootstrap
<1>11. CASE AwaitReadiness(c)
  BY <1>11, ControlValues DEF AwaitReadiness
<1>12. CASE ReadControl(c)
  BY <1>12, ControlValues DEF ReadControl
<1>13. CASE RereadControl(c)
  BY <1>13, ControlValues DEF RereadControl
<1>14. CASE ProbeBootstrap(c)
  BY <1>14, ControlValues DEF ProbeBootstrap
<1>15. CASE ReconcileBootstrap(c)
  BY <1>15, ReconcileBootstrapDoes, ControlValues
<1>16. CASE Attach(c)
  BY <1>16, ControlValues DEF Attach
<1>17. CASE ConfirmDead(c)
  BY <1>17, ControlValues DEF ConfirmDead
<1>18. CASE Recover(c)
  BY <1>18, ControlValues DEF Recover
<1>19. CASE Wait(c)
  BY <1>19, ControlValues DEF Wait
<1>20. CASE DoubtHost(c)
  BY <1>20, ControlValues DEF DoubtHost
<1>21. CASE PublishLoss(c)
  BY <1>21, PublishLossDoes, ControlValues
<1>22. CASE CallerKilled(c)
  BY <1>22, ControlValues DEF CallerKilled
<1> QED
    BY <1>1, <1>2, <1>3, <1>4, <1>5, <1>6, <1>7, <1>8, <1>9, <1>10, <1>11, <1>12, <1>13, <1>14,
     <1>15, <1>16, <1>17, <1>18, <1>19, <1>20, <1>21, <1>22 DEF CallerStep, CallerNext

(* A host starts the flow, and records the result that is sealed.            *)
LEMMA ProcessPromise ==
  ASSUME NEW r \in Runs, TypeOK, Used, r = TheRun, RunInv, ProcessStep(r)
  PROVE  PromiseStep
<1> USE CallersAssumption DEF Goto, Stays, Return, Finalize, Unlocked, Admitted, WaitForRun, Error,
      files, callers, processes, Runs, Works, Fails, Watch, Run, PromiseStep, GivenUp, TypeOK,
      RunInv, RecordOK, ControlOK, BlockedOK, Terminal, Terminals, Sealed, TheRun, Used, HostAlive,
      Complete
<1>1. CASE WatchdogUnfed(r)
  BY <1>1, ControlValues, LostValues DEF WatchdogUnfed
<1>2. CASE SpawnHost(r)
  BY <1>2, ControlValues, LostValues DEF SpawnHost
<1>3. CASE FeedHost(r)
  BY <1>3, ControlValues, LostValues DEF FeedHost
<1>4. CASE SuperviseDead(r)
  BY <1>4, ControlValues, LostValues DEF SuperviseDead
<1>5. CASE SuperviseTerminal(r)
  BY <1>5, ControlValues, LostValues DEF SuperviseTerminal
<1>6. CASE SuperviseExpired(r)
  BY <1>6, ControlValues, LostValues DEF SuperviseExpired
<1>7. CASE ReconcileHost(r)
  BY <1>7, ControlValues, LostValues DEF ReconcileHost
<1>8. CASE ReplaceBundle(r)
  BY <1>8, ReplaceBundleDoes, ControlValues, LostValues
<1>9. CASE PublishLost(r)
  BY <1>9, PublishLostDoes, ControlValues, LostValues
<1>10. CASE WatchdogKilled(r)
  BY <1>10, ControlValues, LostValues DEF WatchdogKilled
<1>11. CASE HostUnfed(r)
  BY <1>11, ControlValues, LostValues DEF HostUnfed
<1>12. CASE BindSocket(r)
  BY <1>12, ControlValues, LostValues DEF BindSocket
<1>13. CASE PublishInitialControl(r)
  BY <1>13, PublishInitialControlDoes, ControlValues, LostValues
<1>14. CASE StartFlow(r)
  BY <1>14, ControlValues, LostValues DEF StartFlow
<1>15. CASE Checkpoint(r)
  BY <1>15, ControlValues, LostValues DEF Checkpoint
<1>16. CASE PublishEvidence(r)
  BY <1>16, ControlValues, LostValues DEF PublishEvidence
<1>17. CASE PublishTerminal(r)
  BY <1>17, PublishTerminalDoes, ControlValues, LostValues
<1>18. CASE SealRun(r)
  BY <1>18, SealRunDoes, ControlValues, LostValues
<1>19. CASE CloseRun(r)
  BY <1>19, CloseRunDoes, ControlValues, LostValues
<1>20. CASE HostKilled(r)
  BY <1>20, ControlValues, LostValues DEF HostKilled
<1> QED
    BY <1>1, <1>2, <1>3, <1>4, <1>5, <1>6, <1>7, <1>8, <1>9, <1>10, <1>11, <1>12, <1>13, <1>14,
     <1>15, <1>16, <1>17, <1>18, <1>19, <1>20 DEF ProcessStep, WatchdogNext, HostNext

(* The first record of a request id claims it for the job of its caller.     *)
LEMMA ClaimStep ==
  ASSUME AdmissionInv, NEW c \in Callers, CallerStep(c), ~Used
  PROVE  [Request!Next]_Request!vars
<1>1. /\ TypeOK /\ OneRun /\ RequestLockInv /\ RunInv /\ PlaceOK(c) /\ KnowsOK(c)
  BY DEF AdmissionInv, CallersInv
<1>2. flows' = flows /\ control' = control
  BY <1>1, CallerFirst
<1>3. index = NoRecord
  BY <1>1 DEF OneRun
<1>4. index' = index \/ (index' = Intent(c) /\ JobOf[c] \in Jobs)
  BY <1>1, CallerRecords, JobsAssumption
<1>5. CASE index' = index
  BY <1>2, <1>5 DEF Request!vars
<1>6. CASE index' = Intent(c) /\ JobOf[c] \in Jobs
  <2>1. Request!Claim(JobOf[c])
    BY <1>2, <1>3, <1>6 DEF Request!Claim, NoRecord, Intent
  <2> QED
    BY <1>6, <2>1 DEF Request!Next
<1> QED
  BY <1>4, <1>5, <1>6

(* A step of the promise, once the id is claimed: the recorded response, a   *)
(* bootstrap given up, a flow started, or nothing.                           *)
LEMMA PromiseKept ==
  ASSUME AdmissionInv, AdmissionInv', Used, Used', UNCHANGED TheRun, PromiseStep
  PROVE  [Request!Next]_Request!vars
<1>1. TypeOK /\ OneRun /\ BootstrapOK /\ BlockedOK /\ ControlOK /\ RecordOK
  BY DEF AdmissionInv, RunInv
<1>2. TypeOK' /\ OneRun'
  BY DEF AdmissionInv
<1>3. (\E r \in Runs : control[r].state = "abandoned") <=> GivenUp
  BY <1>1, ControlValues DEF OneRun, Untouched, GivenUp, Runs
<1>4. (\E r \in Runs : control[r].state = "abandoned")' <=> GivenUp'
  BY <1>2, ControlValues DEF OneRun, Untouched, GivenUp, Runs
<1>5. JobOf[TheRun] # NoJob /\ TheRun \in Callers
  BY <1>1, JobsAssumption DEF OneRun
<1>6. index.phase # "absent" /\ index'.phase # "absent" /\ index'.run = index.run
  BY DEF Used, TheRun
<1>7. index.phase # "complete" => index.result = "none"
  BY <1>1 DEF OneRun, Intent, Complete
<1>8. index.phase = "complete" => Sealed /\ index = Complete(TheRun, evidence[TheRun])
  BY <1>1 DEF RecordOK
<1>9. CASE UNCHANGED <<index, flows, GivenUp>>
  BY <1>3, <1>4, <1>9 DEF Request!vars
<1>10. CASE /\ Sealed /\ index' = Complete(TheRun, evidence[TheRun])
            /\ UNCHANGED <<flows, GivenUp>>
  <2>1. CASE index.phase = "complete"
    BY <1>3, <1>4, <1>8, <1>10, <2>1 DEF Request!vars
  <2>2. CASE index.phase # "complete"
    <3>1. ~GivenUp
      BY <1>1, <1>10, ControlValues DEF Sealed, GivenUp, ControlOK, BlockedOK
    <3>2. index'.result = evidence[TheRun] /\ evidence[TheRun] \in Terminals
      BY <1>10 DEF Complete, Sealed
    <3>3. Request!Respond(evidence[TheRun])
      BY <1>3, <1>4, <1>5, <1>6, <1>7, <1>10, <2>2, <3>1, <3>2 DEF Request!Respond, TheRun
    <3> QED
      BY <3>2, <3>3 DEF Request!Next
  <2> QED
    BY <2>1, <2>2
<1>11. CASE /\ Bootstrapping(control[TheRun]) /\ JobOf[TheRun] \notin Blocked
            /\ GivenUp' /\ UNCHANGED <<index, flows>>
  <2>1. index.phase # "complete" /\ flows = 0
    BY <1>1, <1>8, <1>11 DEF Sealed, Bootstrapping, Terminal, Terminals, ControlOK
  <2>2. Request!Abandon
    BY <1>4, <1>5, <1>6, <1>7, <1>11, <2>1 DEF Request!Abandon, TheRun
  <2> QED
    BY <2>2 DEF Request!Next
<1>12. CASE host[TheRun] = "serving" /\ flows' = flows + 1 /\ UNCHANGED <<index, GivenUp>>
  <2>1. flows = 0 /\ ~Terminal(control[TheRun]) /\ JobOf[TheRun] \notin Blocked
    BY <1>1, <1>12 DEF ControlOK, BlockedOK, HostAlive
  <2>2. index.phase # "complete" /\ ~GivenUp
    BY <1>8, <2>1 DEF Sealed, GivenUp, Terminal, Terminals
  <2>3. Request!Start
    BY <1>3, <1>4, <1>5, <1>6, <1>7, <1>12, <2>1, <2>2 DEF Request!Start, TheRun
  <2> QED
    BY <2>3 DEF Request!Next
<1> QED
  BY <1>9, <1>10, <1>11, <1>12 DEF PromiseStep

(* RunRequest: the id belongs to one job, its run starts at most once, a run *)
(* given up never starts, and the recorded response is final.  Every step of *)
(* a caller, a watchdog or a host is a step of that promise or leaves it.    *)
THEOREM AdmissionImplementsRequest == Spec => ImplementsRequest
<1>1. Init => Request!Init
  BY ControlValues DEF Init, Request!Init, NoRecord, Runs
<1>2. AdmissionInv /\ AdmissionInv' /\ [Next]_vars => [Request!Next]_Request!vars
  <2>1. ASSUME AdmissionInv, AdmissionInv', Next PROVE [Request!Next]_Request!vars
    <3>1. PICK c \in Callers : CallerStep(c) \/ ProcessStep(c)
      BY <2>1, Steps DEF AdmissionInv
    <3>2. TypeOK /\ OneRun /\ RequestLockInv /\ RunInv /\ PlaceOK(c) /\ KnowsOK(c)
      BY <2>1 DEF AdmissionInv, CallersInv
    <3>3. CASE CallerStep(c) /\ ~Used
      BY <2>1, <3>3, ClaimStep
    <3>4. CASE CallerStep(c) /\ Used
      <4>1. KeepsEnds /\ PromiseStep
        BY <3>2, <3>4, CallerKeeps, CallerPromise
      <4> QED
        BY <2>1, <3>4, <4>1, PromiseKept DEF KeepsEnds
    <3>5. CASE ProcessStep(c)
      <4>1. Used /\ c = TheRun
        BY <3>2, <3>5, ProcessOfTheRun DEF Runs
      <4>2. KeepsEnds /\ PromiseStep
        BY <3>2, <3>5, <4>1, ProcessKeeps, ProcessPromise DEF Runs
      <4> QED
        BY <2>1, <4>1, <4>2, PromiseKept DEF KeepsEnds
    <3> QED
      BY <3>1, <3>3, <3>4, <3>5
  <2>2. ASSUME UNCHANGED vars PROVE UNCHANGED Request!vars
    BY <2>2 DEF vars, files, processes, Request!vars
  <2> QED
    BY <2>1, <2>2
<1> QED
  BY <1>1, <1>2, AdmissionInvariant, PTL DEF Spec, ImplementsRequest, Request!Spec
==============================================================================
