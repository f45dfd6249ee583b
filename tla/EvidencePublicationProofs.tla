---------------------- MODULE EvidencePublicationProofs ----------------------
(* The inductive invariant of EvidencePublication and the theorems that rest *)
(* on it.                                                                    *)
EXTENDS EvidencePublication, TLAPS

-----------------------------------------------------------------------------
(* A directory that some flow filled, one nobody wrote to since, and one     *)
(* with the evidence the control told of.                                    *)
Real(d) == d.facts > 0
Fresh(d) ==
  /\ Real(d) /\ DigestsMatch(d) /\ FilesMatch(d)
  /\ d.facts = d.result.n /\ ~d.result.lost
  /\ d.result.end \in Ends /\ d.complete = (d.result.end # "torn")
Backs(d) ==
  /\ Real(d) /\ d.facts >= control.result.n
  /\ NeedsVerification(control.result) => d.verification

(* Every directory is empty or real, its digests hold once it is complete,   *)
(* and its verification is there when its result needs one.                  *)
Sound(d) ==
  /\ d = None \/ Real(d)
  /\ d.complete => DigestsMatch(d)
  /\ NeedsVerification(d.result) => d.verification
AllSound == Sound(final) /\ Sound(stage) /\ Sound(backup)

(* The control: nothing before the first bundle, and an end only once the    *)
(* host is gone and the watchdog has not begun or is done.                   *)
Undisturbed == watchdog \in {"watching", "gone"}
ControlInv ==
  /\ control.result.n = 0 => control.result.end = "running"
  /\ Terminal(control.result) => ~HostAlive /\ Undisturbed

(* The evidence the control told of is in place, or aside.                   *)
EvidenceKept ==
  /\ final # None => Backs(final)
  /\ control.result.n > 0 => final # None \/ (~exchange /\ backup # None)

(* The bundle the host replaces is the one the control tells of, its stage   *)
(* is the next one.                                                          *)
Current(d) == Fresh(d) /\ Backs(d) /\ d.facts = control.result.n /\ ~Terminal(d.result)
Successor(d) == Fresh(d) /\ Backs(d) /\ d.facts = control.result.n + 1
HostInv ==
  /\ HostAlive => Undisturbed
  /\ host \in {"driving", "stopping", "staged"} =>
       /\ backup = None
       /\ (final = None /\ control.result.n = 0) \/ Current(final)
  /\ host \in {"staged", "aside", "back"} => Successor(stage)
  /\ host \in {"aside", "back"} => ~exchange /\ final = None /\ Current(backup)
  /\ host \in {"committed", "replaced", "published"} => Successor(final)
  /\ host = "published" => backup = None

(* The watchdog replaces the tail of a bundle that is marked incomplete.     *)
WatchdogInv ==
  /\ ~Undisturbed => ~HostAlive /\ ~Terminal(control.result)
  /\ watchdog \in {"mark", "cleanup", "result", "complete", "verified"} =>
       Real(final) /\ FilesMatch(final)
  /\ watchdog = "watching" => FilesMatch(final)
  /\ watchdog \in {"cleanup", "result", "complete"} => ~final.complete
  /\ watchdog \in {"complete", "verified"} => final.result = Lost(control.result)
  /\ watchdog = "verified" => final.complete

(* A caller that opened a manifest reads what the control told it of.        *)
ReaderInv ==
  /\ client \in {"opened", "checked"} => Terminal(control.result) /\ control.complete
  /\ client = "opened" => opened = final.listed
  /\ client = "answered" => Terminal(control.result) /\ answer = control.result
  /\ client # "refused" /\ host # "refused"

PublicationInv ==
  /\ TypeOK /\ AllSound /\ ControlInv /\ EvidenceKept /\ HostInv /\ WatchdogInv
  /\ ControlIsBacked /\ ReaderInv

-----------------------------------------------------------------------------
(* What the operators make.                                                  *)
LEMMA NoneIsEmpty ==
  /\ None \in Directories /\ None.facts = 0 /\ ~None.complete /\ ~None.stray
  /\ Sound(None)
<1>1. Running(0) \in Results /\ ~NeedsVerification(Running(0)) /\ Running(0).n = 0
  BY BoundsAssumption DEF Running, Result, Results, NeedsVerification
<1>2. /\ Bundle(Running(0), FALSE) \in Directories
      /\ Bundle(Running(0), FALSE).facts = 0 /\ Bundle(Running(0), FALSE).stray = FALSE
      /\ Bundle(Running(0), FALSE).result = Running(0)
  BY <1>1, BoundsAssumption DEF Bundle, Directories, Listings
<1>3. /\ None \in Directories /\ None.facts = 0 /\ None.complete = FALSE /\ None.stray = FALSE
      /\ None.result = Running(0)
  BY <1>2 DEF None, Directories
<1> QED
  BY <1>1, <1>3 DEF Sound

(* A bundle that is built lists what it holds.                              *)
LEMMA BundleIsFresh ==
  ASSUME NEW n \in 1 .. MaxBundles, NEW end \in Ends, NEW verified \in BOOLEAN,
         NeedsVerification(Result(n, end)) => verified
  PROVE  LET b == Bundle(Result(n, end), verified) IN
         /\ b \in Directories /\ Fresh(b) /\ Sound(b)
         /\ b.facts = n /\ b.verification = verified
  BY BoundsAssumption
  DEF Bundle, Result, Directories, Results, Listings, Fresh, Real, Sound, NeedsVerification,
      DigestsMatch, FilesMatch, Listed, Ends, FinalEnds, Terminal

(* A loss ends a run, and needs a verification if what was lost did.        *)
LEMMA LostEnds ==
  ASSUME NEW result \in Results
  PROVE  /\ Lost(result) \in Results /\ Terminal(Lost(result))
         /\ Lost(result).n = result.n
         /\ NeedsVerification(Lost(result)) <=> NeedsVerification(result)
  BY DEF Results, Lost, Terminal, NeedsVerification

(* The host begins with nothing published.                                  *)
LEMMA InitOK == Init => PublicationInv
<1> SUFFICES ASSUME Init PROVE PublicationInv
  OBVIOUS
<1> USE NoneIsEmpty
<1>1. TypeOK
  BY BoundsAssumption DEF Init, TypeOK, Running, Result, Results, Ends, FinalEnds, None, Bundle, Listings, Directories
<1>2. AllSound /\ ControlInv /\ EvidenceKept /\ WatchdogInv /\ ReaderInv /\ ControlIsBacked
  BY DEF Init, AllSound, ControlInv, EvidenceKept, WatchdogInv, ReaderInv, ControlIsBacked,
     Undisturbed, HostAlive, Running, Result, FilesMatch, Terminal, FinalEnds
<1>3. HostInv
  BY DEF Init, HostInv, Undisturbed, HostAlive, Running, Result
<1> QED
  BY <1>1, <1>2, <1>3 DEF PublicationInv

-----------------------------------------------------------------------------
(* While the host lives, the control says no end, no watchdog works on the   *)
(* bundle and no caller reads it; so it stays when a step changes neither    *)
(* the control nor the host's life.                                          *)
Others == <<control, watchdog, client, opened, answer>>
(* Nobody else is at work while the host lives.                             *)
LEMMA HostLives ==
  ASSUME PublicationInv, HostAlive
  PROVE  /\ Undisturbed /\ ~Terminal(control.result)
         /\ client \notin {"opened", "checked", "answered"}
  BY DEF PublicationInv, ControlInv, HostInv, ReaderInv

(* So a step of it only has to leave a bundle whose files match.            *)
LEMMA HostWorks ==
  ASSUME PublicationInv, HostAlive, HostAlive', UNCHANGED Others, FilesMatch(final')
  PROVE  ControlInv' /\ WatchdogInv' /\ ReaderInv' /\ ControlIsBacked'
<1>1. /\ Undisturbed /\ ~Terminal(control.result) /\ client \notin {"opened", "checked", "answered"}
      /\ client # "refused" /\ (control.result.n = 0 => control.result.end = "running")
  BY HostLives DEF PublicationInv, ReaderInv, ControlInv
<1> QED
  BY <1>1 DEF Others, ControlInv, WatchdogInv, ReaderInv, ControlIsBacked, Undisturbed, HostAlive

(* A host that dies leaves what is there to the watchdog.                    *)
LEMMA HostDies ==
  ASSUME PublicationInv, HostAlive, host' = "dead",
         stage' \in Directories, Sound(stage'),
         UNCHANGED <<exchange, final, backup, Others>>,
         crashes' \in 0 .. MaxCrashes, faults' \in 0 .. MaxFaults
  PROVE  PublicationInv'
<1>1. /\ TypeOK /\ AllSound /\ EvidenceKept /\ Undisturbed /\ ~Terminal(control.result)
      /\ client \notin {"opened", "checked", "answered", "refused"}
      /\ (control.result.n = 0 => control.result.end = "running")
      /\ watchdog = "watching" => FilesMatch(final)
  BY HostLives DEF PublicationInv, ReaderInv, ControlInv, WatchdogInv
<1>2. TypeOK'
  BY <1>1 DEF TypeOK, Others
<1>3. AllSound' /\ EvidenceKept'
  BY <1>1 DEF AllSound, EvidenceKept, Others, Backs
<1>4. HostInv'
  BY <1>1 DEF HostInv, HostAlive
<1>5. ControlInv' /\ WatchdogInv' /\ ReaderInv' /\ ControlIsBacked'
  BY <1>1 DEF Others, ControlInv, WatchdogInv, ReaderInv, ControlIsBacked, Undisturbed, HostAlive
<1> QED
  BY <1>2, <1>3, <1>4, <1>5 DEF PublicationInv

(* A failed write ends the host and drops its stage; the bundle stays.      *)
LEMMA HostFailsOK ==
  ASSUME PublicationInv, HostAlive, HostFails,
         UNCHANGED <<exchange, final, backup, Others, crashes>>
  PROVE  PublicationInv'
<1>1. crashes' \in 0 .. MaxCrashes /\ faults' \in 0 .. MaxFaults
  BY BoundsAssumption DEF PublicationInv, TypeOK, HostFails, Fails
<1> QED
  BY <1>1, HostDies, NoneIsEmpty DEF HostFails, Goto, Others

(* The next bundle is staged: what the control tells of stays in place.      *)
LEMMA StageOK ==
  ASSUME PublicationInv, NEW end \in Ends, control.result.n < MaxBundles,
         Stage(Result(control.result.n + 1, end))
  PROVE  PublicationInv'
<1> DEFINE n == control.result.n + 1
           result == Result(n, end)
<1>1. /\ TypeOK /\ AllSound /\ ControlInv /\ EvidenceKept /\ HostInv /\ WatchdogInv
  BY DEF PublicationInv
<1>2. n \in 1 .. MaxBundles /\ control.result.n \in Nat
  BY <1>1, BoundsAssumption DEF TypeOK, Results
<1>3. /\ host \in {"driving", "stopping"} /\ HostAlive /\ Undisturbed /\ Replaceable
      /\ UNCHANGED <<exchange, final, backup, Others, crashes>>
      /\ backup = None /\ ((final = None /\ control.result.n = 0) \/ Current(final))
  BY <1>1 DEF Stage, HostInv, HostAlive, Replaceable, Intact, Current, Fresh, Terminal, FinalEnds, reader, Others
<1>4. CASE HostFails
  BY <1>3, <1>4, HostFailsOK
<1>5. ASSUME NEW verified \in Recorded(result), stage' = Bundle(result, verified),
             faults' = faults, host' = "staged"
      PROVE  PublicationInv'
  <2>1. verified \in BOOLEAN /\ (NeedsVerification(result) \/ final.verification => verified)
    BY <1>5 DEF Recorded
  <2>2. /\ stage' \in Directories /\ Fresh(stage') /\ Sound(stage')
        /\ stage'.facts = n /\ stage'.verification = verified
    BY <1>2, <1>5, <2>1, BundleIsFresh
  <2>3. TypeOK'
    BY <1>1, <1>3, <1>5, <2>2 DEF TypeOK, Others
  <2>4. AllSound' /\ EvidenceKept'
    BY <1>1, <1>3, <2>2 DEF AllSound, EvidenceKept, Others, Backs
  <2>5. HostInv'
    <3>1. Backs(stage)'
      BY <1>1, <1>2, <1>3, <2>1, <2>2 DEF Backs, Current, ControlInv, Fresh, Others, NeedsVerification
    <3> QED
      BY <1>1, <1>3, <1>5, <2>2, <3>1 DEF HostInv, HostAlive, Undisturbed, Others, Successor, Current, Backs
  <2>6. FilesMatch(final')
    BY <1>3, NoneIsEmpty DEF Current, Fresh, FilesMatch
  <2>7. ControlInv' /\ WatchdogInv' /\ ReaderInv' /\ ControlIsBacked'
    BY <1>3, <1>5, <2>6, HostWorks DEF HostAlive, Others
  <2> QED
    BY <2>3, <2>4, <2>5, <2>7 DEF PublicationInv
<1> QED
  BY <1>3, <1>4, <1>5 DEF Stage, Works, Goto

(* A checkpoint of a running step tells of the same bundle.                  *)
LEMMA CheckpointOK == ASSUME PublicationInv, Checkpoint PROVE PublicationInv'
<1> DEFINE next == [result |-> Running(control.result.n), complete |-> FALSE]
<1>1. /\ TypeOK /\ AllSound /\ ControlInv /\ EvidenceKept /\ HostInv /\ WatchdogInv /\ ReaderInv
      /\ Undisturbed /\ ~Terminal(control.result) /\ client \notin {"opened", "checked", "answered"}
  BY HostLives DEF PublicationInv, Checkpoint, HostAlive
<1>2. /\ host = "driving" /\ host' \in {"driving", "stopping"} /\ control' \in {control, next}
      /\ faults' \in 0 .. MaxFaults
      /\ UNCHANGED <<exchange, final, stage, backup, watchdog, client, opened, answer, crashes>>
  BY <1>1, BoundsAssumption DEF Checkpoint, Works, Fails, Goto, directories, reader, TypeOK
<1>3. /\ next.result.n = control.result.n /\ ~Terminal(next.result) /\ ~NeedsVerification(next.result)
      /\ next.result.end = "running" /\ next \in [result : Results, complete : BOOLEAN]
  BY <1>1 DEF TypeOK, Running, Result, Terminal, FinalEnds, NeedsVerification, Results
<1>4. /\ control'.result.n = control.result.n /\ ~Terminal(control'.result)
      /\ NeedsVerification(control'.result) => NeedsVerification(control.result)
      /\ control'.result.end \in {control.result.end, "running"}
      /\ control' \in [result : Results, complete : BOOLEAN]
  BY <1>1, <1>2, <1>3 DEF TypeOK
<1>5. TypeOK'
  BY <1>1, <1>2, <1>4 DEF TypeOK
<1>6. AllSound' /\ ControlInv' /\ EvidenceKept'
  BY <1>1, <1>2, <1>4 DEF AllSound, ControlInv, EvidenceKept, Backs
<1>7. HostInv'
  BY <1>1, <1>2, <1>4 DEF HostInv, HostAlive, Undisturbed, Current, Backs
<1>8. WatchdogInv' /\ ReaderInv' /\ ControlIsBacked'
  BY <1>1, <1>2, <1>4 DEF WatchdogInv, ReaderInv, ControlIsBacked, Undisturbed
<1> QED
  BY <1>5, <1>6, <1>7, <1>8 DEF PublicationInv

(* A first bundle, or the next one, takes the place of what was there.       *)
LEMMA CommitOK == ASSUME PublicationInv, CommitFirst \/ CommitExchange \/ MoveIn PROVE PublicationInv'
<1>1. /\ TypeOK /\ AllSound /\ EvidenceKept /\ HostInv /\ HostAlive
      /\ host \in {"staged", "aside"} /\ UNCHANGED <<exchange, backup, Others, crashes>>
      /\ Successor(stage)
  BY DEF PublicationInv, CommitFirst, CommitExchange, MoveIn, HostAlive, Others, reader, HostInv
<1>2. CASE HostFails /\ UNCHANGED final
  BY <1>1, <1>2, HostFailsOK
<1>3. CASE Fails /\ host = "aside" /\ host' = "back" /\ UNCHANGED <<final, stage>>
  <2>1. TypeOK'
    BY <1>1, <1>3, BoundsAssumption DEF TypeOK, Fails, Others
  <2>2. AllSound' /\ EvidenceKept'
    BY <1>1, <1>3 DEF AllSound, EvidenceKept, Others, Backs
  <2>3. HostInv'
    BY <1>1, <1>3 DEF HostInv, HostAlive, Undisturbed, Others, Successor, Current, Backs
  <2>4. FilesMatch(final')
    BY <1>1, <1>3, NoneIsEmpty DEF HostInv, FilesMatch
  <2>5. ControlInv' /\ WatchdogInv' /\ ReaderInv' /\ ControlIsBacked'
    BY <1>1, <1>3, <2>4, HostWorks DEF HostAlive
  <2> QED
    BY <2>1, <2>2, <2>3, <2>5 DEF PublicationInv
<1>4. CASE final' = stage /\ stage' \in {None, final} /\ Works /\ host' = "committed"
  <2>1. TypeOK'
    BY <1>1, <1>4, NoneIsEmpty DEF TypeOK, Works, Others
  <2>2. AllSound'
    BY <1>1, <1>4, NoneIsEmpty DEF AllSound
  <2>3. Successor(final)' /\ FilesMatch(final')
    BY <1>1, <1>4 DEF Successor, Fresh, Backs, Others
  <2>4. EvidenceKept'
    BY <2>3, NoneIsEmpty DEF EvidenceKept, Successor, Backs, Real
  <2>5. HostInv'
    BY <1>1, <1>4, <2>3 DEF HostInv, HostAlive, Undisturbed, Others
  <2>6. ControlInv' /\ WatchdogInv' /\ ReaderInv' /\ ControlIsBacked'
    BY <1>1, <1>4, <2>3, HostWorks DEF HostAlive
  <2> QED
    BY <2>1, <2>2, <2>4, <2>5, <2>6 DEF PublicationInv
<1> QED
  BY <1>1, <1>2, <1>3, <1>4 DEF CommitFirst, CommitExchange, MoveIn, Goto

(* The bundle the control tells of is moved aside, and stays there.          *)
LEMMA MoveAsideOK == ASSUME PublicationInv, MoveAside PROVE PublicationInv'
<1>1. /\ TypeOK /\ AllSound /\ EvidenceKept /\ HostInv /\ HostAlive
      /\ host = "staged" /\ ~exchange /\ UNCHANGED <<exchange, Others, crashes>>
      /\ Successor(stage) /\ Current(final)
  BY DEF PublicationInv, MoveAside, HostAlive, Others, reader, HostInv
<1>2. CASE HostFails /\ UNCHANGED <<backup, final>>
  BY <1>1, <1>2, HostFailsOK
<1>3. CASE backup' = final /\ final' = None /\ Works /\ host' = "aside" /\ UNCHANGED stage
  <2>1. TypeOK'
    BY <1>1, <1>3, NoneIsEmpty DEF TypeOK, Works, Others
  <2>2. AllSound' /\ FilesMatch(final')
    BY <1>1, <1>3, NoneIsEmpty DEF AllSound, FilesMatch
  <2>3. backup' # None
    BY <1>1, <1>3, NoneIsEmpty DEF Current, Fresh, Real
  <2>4. EvidenceKept'
    BY <1>1, <1>3, <2>3 DEF EvidenceKept
  <2>5. HostInv'
    BY <1>1, <1>3 DEF HostInv, HostAlive, Undisturbed, Others, Successor, Current, Backs
  <2>6. ControlInv' /\ WatchdogInv' /\ ReaderInv' /\ ControlIsBacked'
    BY <1>1, <1>3, <2>2, HostWorks DEF HostAlive
  <2> QED
    BY <2>1, <2>2, <2>4, <2>5, <2>6 DEF PublicationInv
<1> QED
  BY <1>1, <1>2, <1>3 DEF MoveAside, Goto

(* It is put back when the next one could not take its place.                *)
LEMMA MoveBackOK == ASSUME PublicationInv, MoveBack PROVE PublicationInv'
<1>1. /\ TypeOK /\ AllSound /\ ControlInv /\ EvidenceKept /\ HostInv /\ ReaderInv /\ HostAlive
      /\ Undisturbed /\ ~Terminal(control.result) /\ client \notin {"opened", "checked", "answered"}
      /\ UNCHANGED <<exchange, Others, crashes>> /\ stage' = None /\ host' = "dead"
      /\ ~exchange /\ final = None /\ Current(backup)
  BY HostLives DEF PublicationInv, MoveBack, HostAlive, HostInv, Others, reader, Goto
<1>2. /\ (final' = backup /\ backup' = None) \/ UNCHANGED <<final, backup>>
      /\ faults' \in 0 .. MaxFaults
  BY <1>1, BoundsAssumption DEF MoveBack, Works, Fails, TypeOK
<1>3. TypeOK'
  BY <1>1, <1>2, NoneIsEmpty DEF TypeOK, Others
<1>4. AllSound' /\ FilesMatch(final')
  BY <1>1, <1>2, NoneIsEmpty DEF AllSound, Current, Fresh, FilesMatch
<1>5. EvidenceKept'
  BY <1>1, <1>2, NoneIsEmpty DEF EvidenceKept, Current, Fresh, Backs, Others, Real
<1>6. HostInv'
  BY <1>1 DEF HostInv, HostAlive
<1>7. ControlInv' /\ WatchdogInv' /\ ReaderInv' /\ ControlIsBacked'
  BY <1>1, <1>4 DEF ControlInv, WatchdogInv, ReaderInv, ControlIsBacked, Undisturbed, HostAlive, Others
<1> QED
  BY <1>3, <1>4, <1>5, <1>6, <1>7 DEF PublicationInv

(* The earlier bundle goes once the next one is in place.                    *)
LEMMA RemoveOK == ASSUME PublicationInv, SyncCommit \/ RemovePrior PROVE PublicationInv'
<1>1. /\ TypeOK /\ AllSound /\ EvidenceKept /\ HostInv /\ HostAlive
      /\ host \in {"committed", "replaced"} /\ UNCHANGED <<exchange, final, Others, crashes>>
      /\ Successor(final)
  BY DEF PublicationInv, SyncCommit, RemovePrior, HostAlive, Others, reader, HostInv
<1>2. CASE HostFails /\ UNCHANGED backup
  BY <1>1, <1>2, HostFailsOK
<1>3. CASE /\ Works
           /\ \/ host' = "replaced" /\ UNCHANGED <<stage, backup>>
              \/ host' = "published" /\ stage' = None /\ backup' = None
  <2>1. TypeOK'
    BY <1>1, <1>3, NoneIsEmpty DEF TypeOK, Works, Others
  <2>2. AllSound' /\ FilesMatch(final')
    BY <1>1, <1>3, NoneIsEmpty DEF AllSound, Successor, Fresh
  <2>3. Successor(final)'
    BY <1>1 DEF Successor, Backs, Others
  <2>4. EvidenceKept'
    BY <2>3, NoneIsEmpty DEF EvidenceKept, Successor, Backs, Real
  <2>5. HostInv'
    BY <1>1, <1>3, <2>3 DEF HostInv, HostAlive, Undisturbed, Others
  <2>6. ControlInv' /\ WatchdogInv' /\ ReaderInv' /\ ControlIsBacked'
    BY <1>1, <1>3, <2>2, HostWorks DEF HostAlive
  <2> QED
    BY <2>1, <2>2, <2>4, <2>5, <2>6 DEF PublicationInv
<1> QED
  BY <1>1, <1>2, <1>3 DEF SyncCommit, RemovePrior, Goto

(* The control tells of the bundle that is in place, whole when it says so.  *)
LEMMA PublishControlOK == ASSUME PublicationInv, PublishControl PROVE PublicationInv'
<1> DEFINE next == [result |-> final.result, complete |-> final.complete]
<1>1. /\ TypeOK /\ AllSound /\ ControlInv /\ EvidenceKept /\ HostInv /\ WatchdogInv /\ ReaderInv
      /\ HostAlive /\ host = "published" /\ stage = None /\ backup = None
      /\ Undisturbed /\ ~Terminal(control.result) /\ client \notin {"opened", "checked", "answered"}
      /\ Successor(final) /\ UNCHANGED <<exchange, final, backup, watchdog, client, opened, answer, crashes>>
  BY HostLives DEF PublicationInv, PublishControl, HostAlive, HostInv, TypeOK, reader
<1>2. CASE HostFails /\ control' = control
  BY <1>1, <1>2, HostFailsOK DEF Others
<1>3. CASE /\ control' = next /\ stage' = None
           /\ faults' \in 0 .. MaxFaults
           /\ \/ host' = "dead"
              \/ host' = IF Terminal(final.result) THEN "exited" ELSE "driving"
  <2>1. /\ next \in [result : Results, complete : BOOLEAN] /\ next.result = final.result
        /\ next.complete = final.complete
    BY <1>1 DEF TypeOK, Directories
  <2>2. TypeOK'
    BY <1>1, <1>3, <2>1, NoneIsEmpty DEF TypeOK
  <2>3. AllSound'
    BY <1>1, <1>3, NoneIsEmpty DEF AllSound
  <2>4. final.result.n > 0 /\ final.facts = final.result.n /\ FilesMatch(final) /\ final # None
    BY <1>1, NoneIsEmpty DEF Successor, Fresh, Real, TypeOK, Results, Directories
  <2>5. Backs(final)'
    BY <1>1, <1>3, <2>1, <2>4 DEF Backs, AllSound, Sound, Successor, TypeOK, Results
  <2>6. EvidenceKept' /\ ControlInv'
    BY <1>1, <1>3, <2>1, <2>4, <2>5 DEF EvidenceKept, ControlInv, HostAlive, Undisturbed
  <2>7. HostInv'
    BY <1>1, <1>3, <2>1, <2>4, <2>5 DEF HostInv, HostAlive, Undisturbed, Current, Successor
  <2>8. WatchdogInv' /\ ReaderInv'
    BY <1>1, <1>3, <2>4 DEF WatchdogInv, ReaderInv, Undisturbed
  <2>9. ControlIsBacked'
    <3>1. final.facts \in Int /\ (final.complete => Intact(final))
      BY <1>1, <2>4 DEF Intact, AllSound, Sound, TypeOK, Directories
    <3> HIDE DEF next
    <3> QED
      BY <1>1, <1>3, <2>1, <2>4, <3>1 DEF ControlIsBacked
  <2> QED
    BY <2>2, <2>3, <2>6, <2>7, <2>8, <2>9 DEF PublicationInv
<1> QED
  BY <1>1, <1>2, <1>3, BoundsAssumption DEF PublishControl, HostFails, Fails, Works, Goto, TypeOK

-----------------------------------------------------------------------------
(* The steps of the watchdog and of a client that reports the loss.  The     *)
(* bundle they work on keeps its facts, and a reader has not begun.          *)
Working == {"mark", "cleanup", "result", "complete"}
(* What they write leaves the facts and the verification that were there.   *)
LEMMA TailKeeps ==
  ASSUME PublicationInv, ~Undisturbed,
         UNCHANGED <<exchange, stage, backup, control, host, client, opened, answer>>,
         final' \in Directories, Sound(final'),
         final # None => final'.facts = final.facts /\ final'.verification = final.verification,
         final = None => final' = None,
         watchdog' \in Working \cup {"verified", "incomplete", "gone"},
         faults' \in 0 .. MaxFaults, crashes' \in 0 .. MaxCrashes
  PROVE  /\ TypeOK' /\ AllSound' /\ ControlInv' /\ EvidenceKept' /\ HostInv'
         /\ ControlIsBacked' /\ ReaderInv'
         /\ ~HostAlive' /\ ~Terminal(control.result)'
<1>1. /\ TypeOK /\ AllSound /\ ControlInv /\ EvidenceKept /\ ~HostAlive /\ ReaderInv
      /\ ~Terminal(control.result)
  BY DEF PublicationInv, WatchdogInv
<1>2. TypeOK'
  BY <1>1 DEF TypeOK, Working
<1>3. AllSound' /\ ControlInv' /\ ControlIsBacked' /\ ReaderInv' /\ ~HostAlive' /\ ~Terminal(control.result)'
  BY <1>1 DEF AllSound, ControlInv, ControlIsBacked, ReaderInv, HostAlive
<1>4. EvidenceKept'
  <2>1. final' # None => final # None /\ Backs(final)
    BY <1>1 DEF EvidenceKept
  <2>2. final # None => final' # None
    BY NoneIsEmpty, <1>1 DEF EvidenceKept, Backs, Real
  <2> QED
    BY <1>1, <2>1, <2>2 DEF EvidenceKept, Backs, Real
<1>5. HostInv'
  BY <1>1 DEF HostInv, HostAlive
<1> QED
  BY <1>2, <1>3, <1>4, <1>5

(* They begin when the host is dead.                                        *)
LEMMA ReconcileOK == ASSUME PublicationInv, Reconcile PROVE PublicationInv'
<1>1. /\ TypeOK /\ AllSound /\ ControlInv /\ EvidenceKept /\ HostInv /\ WatchdogInv
      /\ ControlIsBacked /\ ReaderInv /\ watchdog = "watching" /\ ~HostAlive
      /\ UNCHANGED <<exchange, final, stage, backup, control, host, client, opened, answer, crashes, faults>>
      /\ watchdog' = IF Terminal(control.result) THEN "gone"
                     ELSE IF final.complete THEN "mark" ELSE "incomplete"
  BY DEF PublicationInv, Reconcile, Watch, directories, reader, bounds
<1>2. TypeOK' /\ AllSound' /\ EvidenceKept' /\ ControlIsBacked' /\ ReaderInv'
  BY <1>1 DEF TypeOK, AllSound, EvidenceKept, ControlIsBacked, ReaderInv, Backs
<1>3. ControlInv' /\ HostInv'
  BY <1>1 DEF ControlInv, HostInv, HostAlive, Undisturbed
<1>4. WatchdogInv'
  <2>1. final.complete => Real(final) /\ FilesMatch(final)
    BY <1>1, NoneIsEmpty DEF AllSound, Sound, WatchdogInv
  <2> QED
    BY <1>1, <2>1 DEF WatchdogInv, Undisturbed, HostAlive
<1> QED
  BY <1>2, <1>3, <1>4 DEF PublicationInv

(* One file of the tail is replaced, by the bundle's own rules; when that    *)
(* fails, the loss is published with incomplete evidence.                    *)
LEMMA TailOK ==
  ASSUME PublicationInv,
         MarkIncomplete \/ WriteCleanup \/ WriteResult \/ MarkComplete
  PROVE  PublicationInv'
<1> DEFINE lost == Lost(control.result)
           Listing == Listed(final)
<1>1. /\ TypeOK /\ AllSound /\ WatchdogInv /\ ~Undisturbed /\ watchdog \in Working
      /\ Real(final) /\ FilesMatch(final) /\ final # None /\ final \in Directories
      /\ lost \in Results /\ (NeedsVerification(lost) <=> NeedsVerification(control.result))
      /\ EvidenceKept
      /\ UNCHANGED <<exchange, stage, backup, control, host, client, opened, answer, crashes>>
      /\ faults' \in 0 .. MaxFaults /\ crashes' \in 0 .. MaxCrashes
      /\ watchdog' \in Working \cup {"verified", "incomplete"}
  BY NoneIsEmpty, LostEnds, BoundsAssumption
  DEF PublicationInv, MarkIncomplete, WriteCleanup, WriteResult, MarkComplete, WriteManifest,
      WriteTail, WatchdogInv, Working, reader, TypeOK, Works, Fails, GiveUp, Watch, Real, Undisturbed
<1>2. Listing \in Listings
  BY <1>1 DEF Directories, Listings, Listed
<1>3. CASE /\ watchdog' = "incomplete"
           /\ final' \in {final, [final EXCEPT !.stray = TRUE]}
  <2>1. final' \in Directories /\ Sound(final')
        /\ final'.facts = final.facts /\ final'.verification = final.verification
    BY <1>1, <1>3 DEF Directories, AllSound, Sound, DigestsMatch, Listed, Real
  <2> QED
    BY <1>1, <1>3, <2>1, TailKeeps DEF PublicationInv, TypeOK, WatchdogInv, Undisturbed, Working
<1>4. CASE /\ watchdog = "mark" /\ watchdog' \in {"cleanup", "incomplete"}
           /\ final' = [final EXCEPT !.complete = FALSE]
  <2>1. /\ final' \in Directories /\ Sound(final') /\ ~final'.complete
        /\ final'.facts = final.facts /\ final'.verification = final.verification
        /\ Real(final') /\ FilesMatch(final')
    BY <1>1, <1>4 DEF Directories, AllSound, Sound, Real, FilesMatch
  <2>2. /\ TypeOK' /\ AllSound' /\ ControlInv' /\ EvidenceKept' /\ HostInv'
        /\ ControlIsBacked' /\ ReaderInv' /\ ~HostAlive' /\ ~Terminal(control.result)'
    BY <1>1, <1>4, <2>1, TailKeeps
  <2>3. WatchdogInv'
    BY <1>1, <1>4, <2>1, <2>2 DEF WatchdogInv, Undisturbed
  <2> QED
    BY <2>2, <2>3 DEF PublicationInv
<1>5. CASE /\ watchdog = "cleanup" /\ watchdog' = "result"
           /\ final' = [final EXCEPT !.cleanup = lost]
  <2>1. /\ final' \in Directories /\ Sound(final') /\ ~final'.complete
        /\ final'.facts = final.facts /\ final'.verification = final.verification
        /\ Real(final') /\ FilesMatch(final')
    BY <1>1, <1>5 DEF Directories, AllSound, Sound, Real, FilesMatch, WatchdogInv
  <2>2. /\ TypeOK' /\ AllSound' /\ ControlInv' /\ EvidenceKept' /\ HostInv'
        /\ ControlIsBacked' /\ ReaderInv' /\ ~HostAlive' /\ ~Terminal(control.result)'
    BY <1>1, <1>5, <2>1, TailKeeps
  <2>3. WatchdogInv'
    BY <1>1, <1>5, <2>1, <2>2 DEF WatchdogInv, Undisturbed
  <2> QED
    BY <2>2, <2>3 DEF PublicationInv
<1>6. CASE /\ watchdog = "result" /\ watchdog' = "complete"
           /\ final' = [final EXCEPT !.result = lost]
  <2>1. /\ final' \in Directories /\ Sound(final') /\ ~final'.complete
        /\ final'.facts = final.facts /\ final'.verification = final.verification
        /\ Real(final') /\ FilesMatch(final') /\ final'.result = lost
    BY <1>1, <1>6 DEF Directories, AllSound, Sound, Real, FilesMatch, WatchdogInv, EvidenceKept, Backs
  <2>2. /\ TypeOK' /\ AllSound' /\ ControlInv' /\ EvidenceKept' /\ HostInv'
        /\ ControlIsBacked' /\ ReaderInv' /\ ~HostAlive' /\ ~Terminal(control.result)'
    BY <1>1, <1>6, <2>1, TailKeeps
  <2>3. WatchdogInv'
    BY <1>1, <1>6, <2>1, <2>2 DEF WatchdogInv, Undisturbed
  <2> QED
    BY <2>2, <2>3 DEF PublicationInv
<1>7. CASE /\ watchdog = "complete" /\ watchdog' \in {"verified", "incomplete"}
           /\ final' = [final EXCEPT !.complete = TRUE, !.listed = Listing]
  <2>1. /\ final' \in Directories /\ final'.complete /\ final'.listed = Listing
        /\ final'.facts = final.facts /\ final'.verification = final.verification
        /\ final'.cleanup = final.cleanup /\ final'.result = final.result /\ final'.stray = final.stray
    BY <1>1, <1>2, <1>7 DEF Directories
  <2>2. DigestsMatch(final')
    BY <2>1 DEF DigestsMatch, Listed
  <2>3. Sound(final') /\ Real(final') /\ FilesMatch(final') /\ final'.result = lost
    BY <1>1, <1>7, <2>1, <2>2 DEF AllSound, Sound, Real, FilesMatch, WatchdogInv
  <2>4. /\ TypeOK' /\ AllSound' /\ ControlInv' /\ EvidenceKept' /\ HostInv'
        /\ ControlIsBacked' /\ ReaderInv' /\ ~HostAlive' /\ ~Terminal(control.result)'
    BY <1>1, <1>7, <2>1, <2>3, TailKeeps
  <2>5. WatchdogInv'
    BY <1>1, <1>7, <2>1, <2>3, <2>4 DEF WatchdogInv, Undisturbed
  <2> QED
    BY <2>4, <2>5 DEF PublicationInv
<1> QED
  BY <1>1, <1>3, <1>4, <1>5, <1>6, <1>7
  DEF MarkIncomplete, WriteCleanup, WriteResult, MarkComplete, WriteManifest, WriteTail, GiveUp, Watch

(* The loss, whoever publishes it, ends a control that said no end yet; it   *)
(* says that the evidence is complete when the tail was replaced to the end. *)
LEMMA LossOK == ASSUME PublicationInv, PublishLost \/ ClientLost PROVE PublicationInv'
<1> DEFINE lost == [result |-> Lost(control.result), complete |-> watchdog = "verified"]
<1>1. /\ TypeOK /\ AllSound /\ ControlInv /\ EvidenceKept /\ HostInv /\ WatchdogInv /\ ReaderInv
      /\ ~HostAlive /\ ~Terminal(control.result)
      /\ client \notin {"opened", "checked", "answered", "refused"}
      /\ UNCHANGED <<exchange, final, stage, backup, host, client, opened, answer, crashes>>
      /\ faults' \in 0 .. MaxFaults
  BY BoundsAssumption
  DEF PublicationInv, PublishLost, ClientLost, ReaderInv, WatchdogInv, Undisturbed, directories,
      reader, bounds, TypeOK, Works, Fails
<1>2. /\ control' \in {control, lost} /\ watchdog' \in {"watching", "gone"}
      /\ watchdog' \in {watchdog, "gone"}
  BY <1>1 DEF PublishLost, ClientLost, Watch, WatchdogInv, Undisturbed
<1>3. /\ lost \in [result : Results, complete : BOOLEAN] /\ Terminal(lost.result)
      /\ lost.result.n = control.result.n /\ lost.result.end = control.result.end
      /\ NeedsVerification(lost.result) <=> NeedsVerification(control.result)
      /\ lost.result = Lost(control.result) /\ (lost.complete <=> watchdog = "verified")
  BY <1>1, LostEnds DEF TypeOK, Lost, Results
<1> HIDE DEF lost
<1>4. /\ control'.result.n = control.result.n /\ control'.result.end = control.result.end
      /\ NeedsVerification(control'.result) <=> NeedsVerification(control.result)
      /\ control' \in [result : Results, complete : BOOLEAN]
  BY <1>1, <1>2, <1>3 DEF TypeOK
<1>5. TypeOK' /\ AllSound'
  BY <1>1, <1>2, <1>4 DEF TypeOK, AllSound
<1>6. ControlInv' /\ EvidenceKept' /\ HostInv'
  BY <1>1, <1>2, <1>4 DEF ControlInv, EvidenceKept, Backs, HostInv, HostAlive, Undisturbed
<1>7. WatchdogInv' /\ ReaderInv'
  BY <1>1, <1>2 DEF WatchdogInv, ReaderInv, Undisturbed
<1>8. ControlIsBacked'
  <2>1. CASE watchdog # "verified"
    BY <1>1, <1>2, <1>3, <2>1 DEF ControlIsBacked
  <2>2. CASE watchdog = "verified"
    <3>1. final.complete /\ Real(final) /\ FilesMatch(final) /\ final.result = Lost(control.result)
      BY <1>1, <2>2 DEF WatchdogInv
    <3>2. Intact(final) /\ final.facts >= control.result.n
      BY <1>1, <3>1, NoneIsEmpty DEF Intact, AllSound, Sound, EvidenceKept, Backs, Real
    <3> QED
      BY <1>1, <1>2, <1>3, <3>1, <3>2 DEF ControlIsBacked
  <2> QED
    BY <2>1, <2>2
<1> QED
  BY <1>5, <1>6, <1>7, <1>8 DEF PublicationInv

-----------------------------------------------------------------------------
(* A caller's reads, and crashes.                                            *)
LEMMA ReaderOK == ASSUME PublicationInv, ReaderNext PROVE PublicationInv'
<1>1. /\ TypeOK /\ AllSound /\ ControlInv /\ EvidenceKept /\ HostInv /\ WatchdogInv
      /\ ControlIsBacked /\ ReaderInv
      /\ UNCHANGED <<exchange, final, stage, backup, control, host, watchdog, crashes, faults>>
  BY DEF PublicationInv, ReaderNext, OpenManifest, CheckFiles, ReadResult, Reads, directories, bounds
<1>2. /\ Terminal(control.result) /\ control.complete
      /\ Intact(final) /\ final.result = control.result /\ Shaped(final)
  BY <1>1 DEF ReaderNext, OpenManifest, CheckFiles, ReadResult, ReaderInv, ControlIsBacked, AllSound,
     Sound, Shaped
<1>3. /\ \/ client' = "opened" /\ opened' = final.listed /\ answer' = answer
         \/ client' = "checked" /\ opened' = opened /\ answer' = answer
         \/ client' = "answered" /\ opened' = opened /\ answer' = control.result
  BY <1>1, <1>2
  DEF ReaderNext, OpenManifest, CheckFiles, ReadResult, ReaderInv, Intact, DigestsMatch
<1>4. TypeOK'
  BY <1>1, <1>3 DEF TypeOK, Directories
<1>5. ReaderInv'
  BY <1>1, <1>2, <1>3 DEF ReaderInv
<1>6. AllSound' /\ ControlInv' /\ EvidenceKept' /\ HostInv' /\ WatchdogInv' /\ ControlIsBacked'
  BY <1>1 DEF AllSound, ControlInv, EvidenceKept, HostInv, WatchdogInv, ControlIsBacked, Backs,
     Undisturbed, HostAlive, Current, Successor
<1> QED
  BY <1>4, <1>5, <1>6 DEF PublicationInv

(* Wherever a process crashes, what it leaves behind is accounted for.      *)
LEMMA CrashOK == ASSUME PublicationInv, Crash PROVE PublicationInv'
<1>1. /\ TypeOK /\ AllSound /\ ControlInv /\ EvidenceKept /\ HostInv /\ WatchdogInv
      /\ ControlIsBacked /\ ReaderInv
      /\ crashes' \in 0 .. MaxCrashes /\ faults' \in 0 .. MaxFaults
      /\ UNCHANGED <<exchange, control, client, opened, answer>>
  BY BoundsAssumption DEF PublicationInv, Crash, TypeOK, reader
<1>2. CASE CrashHost
  BY <1>1, <1>2, HostDies DEF CrashHost, Goto, directories, Others, TypeOK, AllSound
<1>3. CASE CrashWatchdog /\ UNCHANGED final
  <2>1. UNCHANGED <<stage, backup, host>> /\ watchdog' = "gone"
    BY <1>3 DEF CrashWatchdog, Watch
  <2>2. TypeOK' /\ AllSound' /\ EvidenceKept' /\ ControlIsBacked' /\ ReaderInv'
    BY <1>1, <1>3, <2>1 DEF TypeOK, AllSound, EvidenceKept, ControlIsBacked, ReaderInv, Backs
  <2>3. ControlInv' /\ HostInv' /\ WatchdogInv'
    BY <1>1, <1>3, <2>1
    DEF ControlInv, HostInv, WatchdogInv, HostAlive, Undisturbed, Current, Successor, Backs
  <2> QED
    BY <2>2, <2>3 DEF PublicationInv
<1>4. CASE CrashWatchdog /\ watchdog \in Working /\ final' = [final EXCEPT !.stray = TRUE]
  <2>1. UNCHANGED <<stage, backup, host>> /\ watchdog' = "gone" /\ ~Undisturbed /\ Real(final)
    BY <1>1, <1>4 DEF CrashWatchdog, Watch, Working, Undisturbed, WatchdogInv
  <2>2. final \in Directories /\ final # None
    BY <1>1, <2>1, NoneIsEmpty DEF TypeOK, Real
  <2>3. /\ final' \in Directories
        /\ final'.facts = final.facts /\ final'.verification = final.verification
        /\ final'.cleanup = final.cleanup /\ final'.result = final.result
        /\ final'.complete = final.complete /\ final'.listed = final.listed
    BY <1>4, <2>2 DEF Directories
  <2>4. Sound(final')
    BY <1>1, <2>1, <2>3 DEF AllSound, Sound, DigestsMatch, Listed, Real
  <2>5. WatchdogInv'
    BY <2>1 DEF WatchdogInv, Undisturbed
  <2> QED
    BY <1>1, <2>1, <2>2, <2>3, <2>4, <2>5, TailKeeps DEF PublicationInv
<1> QED
  BY <1>2, <1>3, <1>4 DEF Crash, CrashWatchdog, Working

-----------------------------------------------------------------------------
(* Every step keeps the invariant.                                          *)
LEMMA StepOK == PublicationInv /\ [Next]_vars => PublicationInv'
<1> SUFFICES ASSUME PublicationInv, [Next]_vars PROVE PublicationInv'
  OBVIOUS
<1>1. CASE HostNext
  BY <1>1, StageOK, CheckpointOK, CommitOK, MoveAsideOK, MoveBackOK, RemoveOK, PublishControlOK
  DEF HostNext
<1>2. CASE WatchdogNext
  BY <1>2, ReconcileOK, TailOK, LossOK DEF WatchdogNext
<1>3. CASE ReaderNext \/ ClientLost \/ Crash
  BY <1>3, ReaderOK, LossOK, CrashOK
<1>4. CASE UNCHANGED vars
  <2>1. UNCHANGED <<exchange, final, stage, backup, control, host, watchdog, client, opened,
                    answer, crashes, faults>>
    BY <1>4 DEF vars, directories, reader, bounds
  <2> QED
    BY <2>1
    DEF PublicationInv, TypeOK, AllSound, ControlInv, EvidenceKept, HostInv, WatchdogInv,
        ControlIsBacked, ReaderInv, Backs, Undisturbed, HostAlive, Current, Successor
<1> QED
  BY <1>1, <1>2, <1>3, <1>4 DEF Next, Settled

(* So it holds in every state.                                              *)
LEMMA PublicationInvariant == Spec => []PublicationInv
  BY InitOK, StepOK, PTL DEF Spec

(* Every variable keeps its type, and a stage or a directory moved aside is  *)
(* there only when the host's place in the publication says so.              *)
THEOREM PublicationTypeCorrect == Spec => []TypeOK
<1>1. PublicationInv => TypeOK
  BY DEF PublicationInv
<1> QED
  BY <1>1, PublicationInvariant, PTL

(* DigestsHold of every publication: however often the host, its watchdog    *)
(* and the file system fail, a manifest that says complete lists what is     *)
(* there.                                                                    *)
THEOREM DigestsAlwaysHold == Spec => []DigestsHold
<1>1. PublicationInv => DigestsHold
  BY DEF PublicationInv, AllSound, Sound, DigestsHold
<1> QED
  BY <1>1, PublicationInvariant, PTL

(* ControlIsBacked: a terminal control that calls its evidence complete has  *)
(* whole evidence with its own result.                                       *)
THEOREM ControlIsAlwaysBacked == Spec => []ControlIsBacked
<1>1. PublicationInv => ControlIsBacked
  BY DEF PublicationInv
<1> QED
  BY <1>1, PublicationInvariant, PTL

(* RecoverySucceeds: no caller is refused the evidence the control called    *)
(* complete, no host the bundle it wants to replace, and the answer is the   *)
(* control's result.                                                         *)
THEOREM RecoveryAlwaysSucceeds == Spec => []RecoverySucceeds
<1>1. PublicationInv => RecoverySucceeds
  BY DEF PublicationInv, ReaderInv, RecoverySucceeds
<1> QED
  BY <1>1, PublicationInvariant, PTL

(* PriorIsKept: no crash and no failed operation loses the evidence of a     *)
(* pause the control told of.                                                *)
THEOREM PriorIsAlwaysKept == Spec => []PriorIsKept
<1>1. PublicationInv => PriorIsKept
  BY DEF PublicationInv, EvidenceKept, PriorIsKept
<1> QED
  BY <1>1, PublicationInvariant, PTL
=============================================================================
