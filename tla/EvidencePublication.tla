------------------------ MODULE EvidencePublication -------------------------
(***************************************************************************)
(* The evidence directory of one run and the run control that refers to    *)
(* it.  The host publishes a bundle at every pause and at its end, each in *)
(* place of the one before; when the host is lost, the watchdog replaces   *)
(* the tail of the last bundle; a later caller answers from what it finds, *)
(* after validating it.  Processes may be killed between any two steps,    *)
(* and every file operation may fail.                                      *)
(***************************************************************************)
EXTENDS Integers

CONSTANTS
  MaxBundles,  \* bound: bundles a host publishes
  MaxCrashes,  \* bound: processes killed from outside
  MaxFaults    \* bound: file operations that fail

ASSUME BoundsAssumption ==
  MaxBundles \in Nat \ {0} /\ MaxCrashes \in Nat /\ MaxFaults \in Nat

VARIABLES
  exchange,   \* the build has an atomic exchange of directories
  final,      \* the directory at the run's path in the evidence root
  stage,      \* the directory the host fills before it publishes it
  backup,     \* the directory a build without exchange moves aside
  control,    \* what runs/<run>/control.json says of the result
  host, watchdog, client,   \* where these processes are
  opened,     \* the manifest a recovering caller read
  answer,     \* what the caller was answered
  crashes, faults

directories == <<final, stage, backup>>
reader == <<client, opened, answer>>
bounds == <<crashes, faults>>
vars == <<exchange, directories, control, host, watchdog, reader, bounds>>

-----------------------------------------------------------------------------
(* Results.  What the flow comes to at its n-th publication: a pause of a   *)
(* step or of the final verification, a pass, another end, or an end whose  *)
(* evidence is incomplete; "running" is written to the control only, between*)
(* bundles.  The watchdog turns a result that does not end into a loss.     *)
FinalEnds == {"passed", "stopped", "torn"}
Ends == {"pause", "verification"} \cup FinalEnds
Result(n, end) == [n |-> n, end |-> end, lost |-> FALSE]
Running(n) == Result(n, "running")
Lost(result) == [result EXCEPT !.lost = TRUE]
Terminal(result) == result.lost \/ result.end \in FinalEnds

(* The final verification is part of a bundle once it was attempted.        *)
NeedsVerification(result) == result.end \in {"verification", "passed"}

-----------------------------------------------------------------------------
(* Directories.  A file is known by its content; "facts" stand for all the  *)
(* artifacts written once, and the manifest holds the digests of all.       *)
Bundle(result, verified) ==
  [facts |-> result.n, verification |-> verified, cleanup |-> result, result |-> result,
   listed |-> [facts |-> result.n, verification |-> verified,
               cleanup |-> result, result |-> result],
   complete |-> result.end # "torn",   \* of the manifest
   stray |-> FALSE]                     \* an unlisted temporary file is there
None == [Bundle(Running(0), FALSE) EXCEPT !.complete = FALSE]
Listed(d) ==
  [facts |-> d.facts, verification |-> d.verification, cleanup |-> d.cleanup,
   result |-> d.result]

DigestsMatch(d) == Listed(d) = d.listed
FilesMatch(d) == ~d.stray
Intact(d) == d.complete /\ DigestsMatch(d) /\ FilesMatch(d)
(* What a validated bundle must hold for the result it carries.             *)
Shaped(d) ==
  /\ Terminal(d.result)
  /\ NeedsVerification(d.result) => d.verification

Works == UNCHANGED faults
Fails == faults < MaxFaults /\ faults' = faults + 1

-----------------------------------------------------------------------------
(* The host.  An error of a publication ends it, and drops the stage.       *)
HostAlive == host \notin {"dead", "exited", "refused"}
Goto(place) == host' = place
HostFails == Fails /\ Goto("dead") /\ stage' = None

(* validate_replacement: a bundle is replaced only when it is intact.       *)
Replaceable == final = None \/ Intact(final)

(* Once the verification was attempted, its record stays in the artifacts.  *)
(* Mutant of Recorded: the record is kept for the results that need it only.*)
RecordedWhenNeeded(result) == IF NeedsVerification(result) THEN {TRUE} ELSE BOOLEAN
Recorded(result) ==
  IF NeedsVerification(result) \/ final.verification THEN {TRUE} ELSE BOOLEAN

(* publish: the whole bundle is staged in a directory nobody looks into.    *)
Stage(result) ==
  /\ host = "driving" \/ (host = "stopping" /\ result.end = "stopped")
  /\ \/ /\ Replaceable
        /\ \E verified \in Recorded(result) : stage' = Bundle(result, verified)
        /\ Works /\ Goto("staged")
     \/ HostFails
     \/ ~Replaceable /\ Works /\ Goto("refused") /\ UNCHANGED stage
  /\ UNCHANGED <<exchange, final, backup, control, watchdog, reader, crashes>>

(* publish_active_checkpoint: a step is done, the control says running.  A  *)
(* failure stops the flow, which then publishes its end.                    *)
Checkpoint ==
  LET next == [result |-> Running(control.result.n), complete |-> FALSE] IN
  /\ host = "driving"
  /\ \/ control' = next /\ Works /\ UNCHANGED host
     \/ control' \in {control, next} /\ Fails /\ Goto("stopping")
  /\ UNCHANGED <<exchange, directories, watchdog, reader, crashes>>

(* commit, for a first bundle: one rename.                                  *)
CommitFirst ==
  /\ host = "staged" /\ final = None
  /\ \/ final' = stage /\ stage' = None /\ Works /\ Goto("committed")
     \/ HostFails /\ UNCHANGED final
  /\ UNCHANGED <<exchange, backup, control, watchdog, reader, crashes>>

(* commit_replacing, with exchange_directories.                             *)
CommitExchange ==
  /\ host = "staged" /\ final # None /\ exchange
  /\ \/ final' = stage /\ stage' = final /\ Works /\ Goto("committed")
     \/ HostFails /\ UNCHANGED final
  /\ UNCHANGED <<exchange, backup, control, watchdog, reader, crashes>>

(* commit_replacing_portably: the bundle is moved aside, and put back when  *)
(* the new one cannot take its place.                                       *)
(* Mutant of MoveAside: the earlier bundle is removed instead.              *)
MoveAsideRemoved ==
  /\ host = "staged" /\ final # None /\ ~exchange
  /\ final' = None /\ Works /\ Goto("aside")
  /\ UNCHANGED <<exchange, stage, backup, control, watchdog, reader, crashes>>

MoveAside ==
  /\ host = "staged" /\ final # None /\ ~exchange
  /\ \/ backup' = final /\ final' = None /\ Works /\ Goto("aside")
        /\ UNCHANGED stage
     \/ HostFails /\ UNCHANGED <<backup, final>>
  /\ UNCHANGED <<exchange, control, watchdog, reader, crashes>>

MoveIn ==
  /\ host = "aside"
  /\ \/ final' = stage /\ stage' = None /\ Works /\ Goto("committed")
     \/ Fails /\ Goto("back") /\ UNCHANGED <<final, stage>>
  /\ UNCHANGED <<exchange, backup, control, watchdog, reader, crashes>>

MoveBack ==
  /\ host = "back" /\ Goto("dead") /\ stage' = None
  /\ \/ final' = backup /\ backup' = None /\ Works
     \/ Fails /\ UNCHANGED <<final, backup>>
  /\ UNCHANGED <<exchange, control, watchdog, reader, crashes>>

(* The root is synced, and only then the earlier bundle goes.               *)
SyncCommit ==
  /\ host = "committed"
  /\ \/ Works /\ Goto("replaced") /\ UNCHANGED stage
     \/ HostFails
  /\ UNCHANGED <<exchange, final, backup, control, watchdog, reader, crashes>>

RemovePrior ==
  /\ host = "replaced"
  /\ \/ stage' = None /\ backup' = None /\ Works /\ Goto("published")
     \/ HostFails /\ UNCHANGED backup
  /\ UNCHANGED <<exchange, final, control, watchdog, reader, crashes>>

(* Mutant of PublishControl: the control is written before the bundle.      *)
PublishControlEarly ==
  /\ host = "staged"
  /\ control' = [result |-> stage.result, complete |-> stage.complete]
  /\ UNCHANGED <<exchange, directories, host, watchdog, reader, bounds>>

(* publish_checkpoint, after the bundle.  A failed write may be in place.   *)
PublishControl ==
  LET result == final.result
      next == [result |-> result, complete |-> final.complete]
  IN
  /\ host = "published"
  /\ \/ /\ control' = next /\ Works
        /\ Goto(IF Terminal(result) THEN "exited" ELSE "driving")
        /\ UNCHANGED stage
     \/ control' \in {control, next} /\ HostFails
  /\ UNCHANGED <<exchange, final, backup, watchdog, reader, crashes>>

-----------------------------------------------------------------------------
(* reconcile_dead_host: under the run lock, a loss is made of the control   *)
(* and replaces the tail of the bundle.  Any error leaves the bundle as it  *)
(* is and the loss with incomplete evidence.                                *)
Watch(place) == watchdog' = place
GiveUp == Fails /\ Watch("incomplete")

(* Mutant of Reconcile: the death of the host is not confirmed.             *)
ReconcileAlive ==
  /\ watchdog = "watching"
  /\ Watch(IF Terminal(control.result) THEN "gone"
           ELSE IF final.complete THEN "mark" ELSE "incomplete")
  /\ UNCHANGED <<exchange, directories, control, host, reader, bounds>>

Reconcile ==
  /\ watchdog = "watching" /\ ~HostAlive
  /\ Watch(IF Terminal(control.result) THEN "gone"
           ELSE IF final.complete THEN "mark" ELSE "incomplete")
  /\ UNCHANGED <<exchange, directories, control, host, reader, bounds>>

(* write_atomic leaves its temporary file when it fails after creating it.  *)
WriteTail(place, next, written) ==
  /\ watchdog = place
  /\ \/ final' = written /\ Works /\ Watch(next)
     \/ final' \in {final, [final EXCEPT !.stray = TRUE]} /\ GiveUp
  /\ UNCHANGED <<exchange, stage, backup, control, host, reader, crashes>>

(* write_manifest_and_sync: the sync may fail once the manifest is in place.*)
WriteManifest(place, next, written) ==
  \/ WriteTail(place, next, written)
  \/ /\ watchdog = place /\ final' = written /\ GiveUp
     /\ UNCHANGED <<exchange, stage, backup, control, host, reader, crashes>>

MarkIncomplete ==
  WriteManifest("mark", "cleanup", [final EXCEPT !.complete = FALSE])
WriteCleanup ==
  WriteTail("cleanup", "result", [final EXCEPT !.cleanup = Lost(control.result)])
WriteResult ==
  WriteTail("result", "complete", [final EXCEPT !.result = Lost(control.result)])

(* Mutant of MarkComplete: the digests of the replaced files are kept.      *)
MarkCompleteStale ==
  WriteManifest("complete", "verified", [final EXCEPT !.complete = TRUE])

(* The manifest, with the digests of what was written.                      *)
MarkComplete ==
  WriteManifest("complete", "verified",
                [final EXCEPT !.complete = TRUE, !.listed = Listed(final)])

PublishLost ==
  LET lost == [result |-> Lost(control.result), complete |-> watchdog = "verified"] IN
  /\ watchdog \in {"verified", "incomplete"} /\ Watch("gone")
  /\ \/ control' = lost /\ Works
     \/ control' \in {control, lost} /\ Fails
  /\ UNCHANGED <<exchange, directories, host, reader, crashes>>

(* publish_host_loss: a client that confirmed the death under the run lock. *)
ClientLost ==
  /\ ~HostAlive /\ watchdog \in {"watching", "gone"} /\ ~Terminal(control.result)
  /\ control' = [result |-> Lost(control.result), complete |-> FALSE]
  /\ UNCHANGED <<exchange, directories, host, watchdog, reader, bounds>>

-----------------------------------------------------------------------------
(* recover_published_run, for a caller that found a terminal control with   *)
(* complete evidence: manifest, digests, file set, result.                  *)
Reads == UNCHANGED <<exchange, directories, control, host, watchdog, bounds>>
Refuse == client' = "refused" /\ UNCHANGED <<opened, answer>>

OpenManifest ==
  /\ client = "none" /\ Terminal(control.result) /\ control.complete
  /\ IF final.complete
     THEN opened' = final.listed /\ client' = "opened" /\ UNCHANGED answer
     ELSE Refuse
  /\ Reads

CheckFiles ==
  /\ client = "opened"
  /\ IF Listed(final) = opened /\ FilesMatch(final)
     THEN client' = "checked" /\ UNCHANGED <<opened, answer>>
     ELSE Refuse
  /\ Reads

ReadResult ==
  /\ client = "checked"
  /\ IF Shaped(final)
     THEN client' = "answered" /\ answer' = final.result /\ UNCHANGED opened
     ELSE Refuse
  /\ Reads

-----------------------------------------------------------------------------
(* The host or the watchdog is killed; a temporary file may be left.        *)
CrashHost ==
  /\ HostAlive /\ Goto("dead")
  /\ UNCHANGED <<directories, watchdog>>
CrashWatchdog ==
  /\ watchdog # "gone" /\ Watch("gone")
  /\ \/ UNCHANGED final
     \/ /\ watchdog \in {"mark", "cleanup", "result", "complete"}
        /\ final' = [final EXCEPT !.stray = TRUE]
  /\ UNCHANGED <<stage, backup, host>>
Crash ==
  /\ crashes < MaxCrashes /\ crashes' = crashes + 1
  /\ CrashHost \/ CrashWatchdog
  /\ UNCHANGED <<exchange, control, reader, faults>>

(* Nothing is left to be done.                                              *)
Settled ==
  /\ Terminal(control.result) /\ watchdog = "gone"
  /\ client \in {"answered", "refused"} \/ ~control.complete
  /\ UNCHANGED vars

HostNext ==
  \/ /\ control.result.n < MaxBundles
     /\ \E end \in Ends : Stage(Result(control.result.n + 1, end))
  \/ Checkpoint \/ CommitFirst \/ CommitExchange \/ MoveAside \/ MoveIn \/ MoveBack
  \/ SyncCommit \/ RemovePrior \/ PublishControl
WatchdogNext ==
  Reconcile \/ MarkIncomplete \/ WriteCleanup \/ WriteResult \/ MarkComplete \/ PublishLost
ReaderNext == OpenManifest \/ CheckFiles \/ ReadResult
Next == HostNext \/ WatchdogNext \/ ReaderNext \/ ClientLost \/ Crash \/ Settled

Init ==
  /\ exchange \in BOOLEAN
  /\ final = None /\ stage = None /\ backup = None
  /\ control = [result |-> Running(0), complete |-> FALSE]
  /\ host = "driving" /\ watchdog = "watching"
  /\ client = "none" /\ opened = None.listed /\ answer = Running(0)
  /\ crashes = 0 /\ faults = 0

Spec == Init /\ [][Next]_vars

-----------------------------------------------------------------------------
Results == [n : 0 .. MaxBundles, end : Ends \cup {"running"}, lost : BOOLEAN]
Listings ==
  [facts : 0 .. MaxBundles, verification : BOOLEAN, cleanup : Results, result : Results]
Directories ==
  [facts : 0 .. MaxBundles, verification : BOOLEAN, cleanup : Results, result : Results,
   listed : Listings, complete : BOOLEAN, stray : BOOLEAN]

(* Every variable has its type, a stage exists only while the host is at    *)
(* work on it or was killed, and a directory is moved aside only by a build *)
(* that cannot exchange.                                                    *)
TypeOK ==
  /\ exchange \in BOOLEAN /\ {final, stage, backup} \subseteq Directories
  /\ control \in [result : Results, complete : BOOLEAN]
  /\ host \in {"driving", "stopping", "staged", "aside", "back", "committed", "replaced",
               "published", "dead", "exited", "refused"}
  /\ watchdog \in {"watching", "mark", "cleanup", "result", "complete", "verified",
                   "incomplete", "gone"}
  /\ client \in {"none", "opened", "checked", "answered", "refused"}
  /\ opened \in Listings /\ answer \in Results
  /\ crashes \in 0 .. MaxCrashes /\ faults \in 0 .. MaxFaults
  /\ host \in {"driving", "stopping", "published", "exited", "refused"} => stage = None
  /\ exchange => backup = None

(* A complete manifest lists the digests of the files that are there, at    *)
(* every moment of a publication, of a replacement of the tail and of a     *)
(* crash in either: "complete" is never said of a bundle half replaced.     *)
DigestsHold == \A d \in {final, backup} : d.complete => DigestsMatch(d)

(* What a terminal control calls complete evidence is there, whole, with no *)
(* file the manifest does not list, carries the control's own result, and   *)
(* holds at least the facts of the last publication the control told of.    *)
ControlIsBacked ==
  Terminal(control.result) /\ control.complete =>
    /\ Intact(final) /\ final.result = control.result
    /\ final.facts >= control.result.n

(* A caller that answers from published evidence is never refused by its own*)
(* validation, whoever wrote the bundle's last version, and answers with    *)
(* the result of the control; nor does a host find its own earlier bundle   *)
(* unfit to be replaced, which would end the run.                           *)
RecoverySucceeds ==
  /\ client # "refused" /\ host # "refused"
  /\ client = "answered" => answer = control.result

(* The evidence of a pause the control told of is never lost: an exchanging *)
(* build keeps it in place, the portable one in place or moved aside.       *)
PriorIsKept ==
  control.result.n > 0 => final # None \/ (~exchange /\ backup # None)
=============================================================================
