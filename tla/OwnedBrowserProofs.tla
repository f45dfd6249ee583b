-------------------------- MODULE OwnedBrowserProofs --------------------------
(***************************************************************************)
(* Proofs about OwnedBrowser, for every bound, every page and every way    *)
(* Chrome, its connection and its process may fail: a browser that was     *)
(* closed, or that did not start, leaves no process behind; the journal,   *)
(* the channels and the stage of the operation in progress are what the    *)
(* caller takes them for; and no navigation that was signalled is missed.  *)
(***************************************************************************)
EXTENDS OwnedBrowser, TLAPS

(* The life of the browser.                                                 *)

Lives == {"new", "prepared", "endpoint", "page", "connect", "setup", "running",
          "dropping", "closing", "failed", "closed", "leaked"}
Terminations == {"none", "check", "signal", "wait", "kill", "done"}
Unreaped == {"running", "hung", "exited"}
Over == {"failed", "closed", "leaked"}

(* How far the life of a browser has come, and what is left of its process  *)
(* then: none before it was spawned; while it is terminated, one that was   *)
(* not waited for until the termination is done; and none when its profile  *)
(* is removed and after.  ClosedMeansGone alone does not say that a         *)
(* termination that is done has waited for the process.                     *)
LifeInv ==
  /\ life \in [at : Lives, terminate : Terminations]
  /\ life.terminate # "none" <=> life.at \in {"dropping", "closing"}
  /\ life.at \in {"new", "prepared"} => proc = "none"
  /\ life.at \in Over => proc \in {"none", "reaped"}
  /\ life.terminate \in {"signal", "wait", "kill"} => proc \in Unreaped
  /\ life.terminate = "done" => proc = "reaped"
  /\ cleanup = "confirmed" => life.at = "closed" /\ proc = "reaped" /\ ~profile

(* A set-up is in progress only while the browser is in its launch.         *)
SetupInv ==
  /\ "phase" \in DOMAIN op
  /\ op.phase = "setup" => life.at = "setup"

BrowserInv == LifeInv /\ SetupInv /\ proc \in Unreaped \cup {"none", "reaped"}

(* An operation goes on in the phase it is given, or ends.                  *)
LEMMA PhaseOfOperation ==
  ASSUME NEW kind, NEW phase
  PROVE  /\ Operation(kind, phase).phase = phase
         /\ "phase" \in DOMAIN Operation(kind, phase)
         /\ "phase" \in DOMAIN NoOp /\ NoOp.phase = "none"
  BY DEF Operation, NoOp

(* The phase an operation is in after a step that leaves the life as it is, *)
(* and begins no set-up.                                                    *)
Operates == "phase" \in DOMAIN op' /\ (op'.phase = "setup" => op.phase = "setup")

(* An operation that goes on, ends or fails begins no set-up.               *)
LEMMA GoesOn ==
  ASSUME "phase" \in DOMAIN op
  PROVE  /\ \A o, m : "phase" \in DOMAIN o /\ o.phase # "setup" /\ GoOn(o, m) => Operates
         /\ \A result : Finish(result) => Operates
         /\ Fail => Operates
         /\ op' = NoOp => Operates
  BY PhaseOfOperation DEF GoOn, Finish, Fail, Operates

(* Navigation and input leave the browser's life alone, and begin no set-up.*)
LEMMA OperationsOperate ==
  ASSUME "phase" \in DOMAIN op,
         \/ Navigate \/ Cancel
         \/ \E kind \in Captures : Capture(kind)
         \/ \E kind \in Operations : Perform(kind)
         \/ CommitAnswered \/ DocumentAnswered \/ WidthAnswered
         \/ InputAnswered \/ SettleInput \/ AwaitLoading
  PROVE  Operates /\ UNCHANGED <<life, proc, profile, cleanup>>
<1>1. CASE Navigate
  BY <1>1, GoesOn, PhaseOfOperation DEF Navigate, Caller, chrome
<1>2. CASE Cancel
  BY <1>2 DEF Cancel, Operates, chrome
<1>3. CASE \E kind \in Captures : Capture(kind)
  BY <1>3, GoesOn, PhaseOfOperation DEF Capture, Caller, chrome
<1>4. CASE \E kind \in Operations : Perform(kind)
  BY <1>4, GoesOn, PhaseOfOperation DEF Perform
<1>5. CASE CommitAnswered
  BY <1>5, GoesOn DEF CommitAnswered, Caller, chrome
<1>6. CASE DocumentAnswered
  BY <1>6, GoesOn DEF DocumentAnswered, Caller, chrome
<1>7. CASE WidthAnswered
  BY <1>7, GoesOn DEF WidthAnswered, Caller, chrome
<1>8. CASE InputAnswered
  BY <1>8, GoesOn DEF InputAnswered, Caller, chrome, Operates
<1>9. CASE SettleInput
  BY <1>9, GoesOn DEF SettleInput, Caller, chrome, Operates
<1>10. CASE AwaitLoading
  BY <1>10, GoesOn DEF AwaitLoading, Caller, chrome
<1> QED
  BY <1>1, <1>2, <1>3, <1>4, <1>5, <1>6, <1>7, <1>8, <1>9, <1>10

(* So do captures, with the clean-up after each attempt.                    *)
LEMMA CapturesOperate ==
  ASSUME "phase" \in DOMAIN op, CaptureAnswered \/ CleanupAnswered \/ WithheldAnswered
  PROVE  Operates /\ UNCHANGED <<life, proc, profile, cleanup>>
<1>1. ASSUME NEW verdict, NEW seen, CleanUp(verdict, seen) PROVE Operates
  <2> DEFINE at == IF op.at = 1 THEN 2 ELSE 1
             o == [op EXCEPT !.phase = "cleanup", !.at = at, !.verdict = verdict, !.seen = seen]
  <2>1. GoOn(o, CleanupSteps[at])
    BY <1>1 DEF CleanUp
  <2>2. "phase" \in DOMAIN o /\ o.phase = "cleanup"
    OBVIOUS
  <2> QED
    BY <2>1, <2>2, GoesOn
<1>2. \A seen : Judge(seen) => Operates
  BY <1>1 DEF Judge
<1>3. CASE CaptureAnswered
  <2>1. UNCHANGED <<life, proc, profile, cleanup>> /\ op.phase = "capture"
    BY <1>3 DEF CaptureAnswered, Caller, chrome
  <2>2. Operates
    BY <1>1, <1>2, <1>3, <2>1, GoesOn DEF CaptureAnswered
  <2> QED
    BY <2>1, <2>2
<1>4. CASE CleanupAnswered
  BY <1>4, GoesOn, PhaseOfOperation DEF CleanupAnswered, Caller, chrome
<1>5. CASE WithheldAnswered
  BY <1>5, GoesOn DEF WithheldAnswered, Caller, chrome
<1> QED
  BY <1>3, <1>4, <1>5

(* What leaves the life alone and begins no set-up keeps the invariant.     *)
LEMMA OperatingKeepsLife ==
  ASSUME BrowserInv, Operates, UNCHANGED <<life, proc, profile, cleanup>>
  PROVE  BrowserInv'
  BY DEF BrowserInv, LifeInv, SetupInv, Operates

(* The steps of a launch: a browser that fails before its process is        *)
(* spawned has none, and one that was spawned is terminated.                *)
LEMMA LaunchKeepsLife ==
  ASSUME BrowserInv, Prepare \/ Spawn \/ AwaitReady \/ ConnectClient \/ SetupAnswered
  PROVE  BrowserInv'
<1> USE DEF BrowserInv
<1>1. CASE Prepare \/ Spawn \/ AwaitReady
  <2>1. LifeInv' /\ proc' \in Unreaped \cup {"none", "reaped"}
    <3>1. CASE Prepare
      BY <3>1 DEF Prepare, Life, Still, LifeInv, Lives, Terminations, Over, Unreaped
    <3>2. CASE Spawn
      BY <3>2 DEF Spawn, Life, Still, LifeInv, Lives, Terminations, Over, Unreaped
    <3>3. CASE AwaitReady
      BY <3>3 DEF AwaitReady, Life, Terminating, Still, LifeInv, Lives, Terminations, Over, Unreaped
    <3> QED
      BY <1>1, <3>1, <3>2, <3>3
  <2>2. SetupInv'
    BY <1>1 DEF Prepare, Spawn, AwaitReady, Still, SetupInv
  <2> QED
    BY <2>1, <2>2
<1>2. CASE ConnectClient
  <2>1. /\ life.at = "connect" /\ UNCHANGED <<proc, profile, cleanup>>
        /\ \/ life' = [at |-> "setup", terminate |-> "none"] /\ op' = Operation("launch", "setup")
           \/ life' = [at |-> "dropping", terminate |-> "check"] /\ op' = op
    BY <1>2 DEF ConnectClient, Life, Terminating, chrome
  <2>2. SetupInv'
    BY <2>1, PhaseOfOperation DEF SetupInv
  <2>3. LifeInv'
    BY <2>1 DEF LifeInv, Lives, Terminations, Over
  <2> QED
    BY <2>1, <2>2, <2>3
<1>3. CASE SetupAnswered
  <2>1. /\ life.at = "setup" /\ UNCHANGED <<proc, profile, cleanup>>
        /\ \/ life' = life /\ op' = [op EXCEPT !.at = @ + 1]
           \/ /\ life' \in {[at |-> "running", terminate |-> "none"],
                            [at |-> "dropping", terminate |-> "check"]}
              /\ op' = NoOp
    BY <1>3 DEF SetupAnswered, SetupInv, GoOn, Life, Terminating, chrome
  <2>2. SetupInv'
    BY <2>1, PhaseOfOperation DEF SetupInv
  <2>3. LifeInv'
    BY <2>1 DEF LifeInv, Lives, Terminations, Over
  <2> QED
    BY <2>1, <2>2, <2>3
<1> QED
  BY <1>1, <1>2, <1>3

(* A termination ends only when the process was waited for; the profile is  *)
(* removed after that.                                                      *)
LEMMA TerminationKeepsLife ==
  ASSUME BrowserInv, Close \/ TryWait \/ Signal \/ AwaitExit \/ Kill \/ RemoveProfile
  PROVE  BrowserInv'
<1> USE DEF BrowserInv
<1>1. CASE Close
  <2>1. /\ life.at = "running" /\ op = NoOp /\ UNCHANGED <<op, proc, profile, cleanup>>
        /\ life' = [at |-> "closing", terminate |-> "check"]
    BY <1>1 DEF Close, Free, Terminating, chrome
  <2>2. SetupInv'
    BY <2>1, PhaseOfOperation DEF SetupInv
  <2>3. LifeInv'
    BY <2>1 DEF LifeInv, Lives, Terminations, Over
  <2> QED
    BY <2>1, <2>2, <2>3
<1>2. CASE TryWait \/ Signal \/ AwaitExit \/ Kill
  <2>1. op' = op /\ UNCHANGED <<profile, cleanup>> /\ life.terminate # "none"
        /\ life'.at = life.at
    BY <1>2 DEF TryWait, Signal, AwaitExit, Kill, Step, Still, LifeInv
  <2>2. SetupInv'
    BY <2>1 DEF SetupInv
  <2>3. LifeInv' /\ proc' \in Unreaped \cup {"none", "reaped"}
    <3>1. CASE TryWait
      BY <3>1 DEF TryWait, Step, Still, LifeInv, Lives, Terminations, Over, Unreaped
    <3>2. CASE Signal
      BY <3>2 DEF Signal, Step, Still, LifeInv, Lives, Terminations, Over, Unreaped
    <3>3. CASE AwaitExit
      BY <3>3 DEF AwaitExit, Step, Still, LifeInv, Lives, Terminations, Over, Unreaped
    <3>4. CASE Kill
      BY <3>4 DEF Kill, Step, LifeInv, Lives, Terminations, Over, Unreaped
    <3> QED
      BY <1>2, <3>1, <3>2, <3>3, <3>4
  <2> QED
    BY <2>2, <2>3
<1>3. CASE RemoveProfile
  <2>1. life.terminate = "done" /\ proc = "reaped" /\ proc' = proc /\ op' = op
    BY <1>3 DEF RemoveProfile, LifeInv, chrome
  <2>2. life.at \in {"dropping", "closing"} /\ SetupInv'
    BY <2>1 DEF LifeInv, SetupInv
  <2>3. LifeInv'
    BY <1>3, <2>1, <2>2 DEF RemoveProfile, Life, LifeInv, Lives, Terminations, Over
  <2> QED
    BY <2>1, <2>2, <2>3
<1> QED
  BY <1>1, <1>2, <1>3

(* Chrome may hang or exit at any moment, but a process that was waited for *)
(* is not there to do so; the worker and the page touch neither.            *)
LEMMA ChromeKeepsLife ==
  ASSUME BrowserInv,
         \/ (Worker \/ Expire) /\ UNCHANGED chrome /\ Session
         \/ Chrome /\ Session
         \/ Exits /\ UNCHANGED <<life, profile, cleanup, op, results, captured>>
  PROVE  BrowserInv'
<1>1. UNCHANGED <<life, profile, cleanup, op>>
  BY DEF Session
<1>2. proc' = proc \/ (proc \in {"running", "hung"} /\ proc' \in {"hung", "exited"})
  <2>1. CASE Chrome
    BY <2>1 DEF Chrome, ChromeHandles, DomChanges, Repaints, OpensPopup, StartsLoading,
                FinishesLoading, Moves, PageMoves, Breaks, Hangs, chrome
  <2>2. CASE Exits
    BY <2>2 DEF Exits
  <2> QED
    BY <2>1, <2>2 DEF chrome
<1> QED
  BY <1>1, <1>2 DEF BrowserInv, LifeInv, SetupInv, Over, Unreaped

(* Every step keeps the invariant.                                          *)
LEMMA BrowserInductive == BrowserInv /\ [Next]_vars => BrowserInv'
<1> SUFFICES ASSUME BrowserInv, [Next]_vars PROVE BrowserInv'
  OBVIOUS
<1>1. "phase" \in DOMAIN op
  BY DEF BrowserInv, SetupInv
<1>2. CASE UNCHANGED vars
  BY <1>2 DEF vars, chrome, BrowserInv, LifeInv, SetupInv
<1>3. CASE Thread
  BY <1>1, <1>3, OperationsOperate, CapturesOperate, OperatingKeepsLife, LaunchKeepsLife,
     TerminationKeepsLife DEF Thread
<1>4. CASE Requests
  BY <1>1, <1>4, OperationsOperate, OperatingKeepsLife, TerminationKeepsLife DEF Requests
<1> QED
  BY <1>2, <1>3, <1>4, ChromeKeepsLife DEF Next

(* A browser that was closed, or did not start, has no process; a confirmed *)
(* clean-up removed the profile too; and no process that was waited for is  *)
(* signalled (ClosedMeansGone): terminate_process waits before it signals,  *)
(* and nothing else reaps the process.                                      *)
THEOREM ClosedBrowsersAreGone == Spec => []ClosedMeansGone
<1>1. Init => BrowserInv
  BY DEF Init, InitTransport, BrowserInv, LifeInv, SetupInv, NoOp, Lives, Terminations, Over
<1>2. BrowserInv => ClosedMeansGone
  BY DEF BrowserInv, LifeInv, ClosedMeansGone, Over, Unreaped
<1> QED
  BY <1>1, <1>2, BrowserInductive, PTL DEF Spec

-----------------------------------------------------------------------------

(* Types of what the arguments below count and look up.                     *)
IsSeq(s) == s \in Seq({s[i] : i \in DOMAIN s})
JournalTypes ==
  /\ journal.cursor \in Nat /\ journal.dropped \in Nat /\ IsSeq(journal.events)
  /\ \A i \in DOMAIN journal.events : journal.events[i].kind \in Kinds
  /\ journal.arrived \in [Kinds -> Nat]
ChannelTypes ==
  /\ IsSeq(queue) /\ IsSeq(toChrome) /\ IsSeq(fromChrome)
  /\ DOMAIN call = DOMAIN NoCall /\ call.id \in Nat
  /\ DOMAIN worker = DOMAIN Idle /\ worker.request.id \in Nat
  /\ \A i \in DOMAIN queue : queue[i].id \in Nat
  /\ \A i \in DOMAIN toChrome : toChrome[i].id \in Nat
  /\ \A i \in DOMAIN fromChrome : fromChrome[i].id \in Nat /\ fromChrome[i].kind \in Kinds
PageTypes ==
  /\ DOMAIN page = DOMAIN NewPage /\ page.version \in Nat /\ page.paint \in Nat
  /\ IsSeq(effects)
OpTypes ==
  /\ DOMAIN op = DOMAIN NoOp /\ op.at \in Nat /\ op.fence \in Nat /\ op.cursor \in Nat
  /\ IsSeq(results)

(* What the journal keeps is numbered without a gap up to its cursor, and   *)
(* the latest event of a kind is among it unless it was dropped.            *)
JournalInv ==
  /\ journal.cursor = journal.dropped + Len(journal.events)
  /\ \A i \in DOMAIN journal.events :
       /\ journal.events[i].cursor = journal.dropped + i
       /\ journal.events[i].cursor <= journal.arrived[journal.events[i].kind]
  /\ \A k \in Kinds :
       /\ journal.arrived[k] <= journal.cursor
       /\ journal.arrived[k] > journal.dropped
            => journal.events[journal.arrived[k] - journal.dropped].kind = k

(* The requests that Chrome may still handle, and what may still become the *)
(* caller's reply, or is.                                                   *)
InFlight == {queue[i] : i \in DOMAIN queue} \cup {toChrome[i] : i \in DOMAIN toChrome}
Arriving == {fromChrome[i].answer : i \in {j \in DOMAIN fromChrome : fromChrome[j].id = call.id}} \cup {call.reply}
ChromeAnswered == \E a \in Arriving : a.outcome \in {"confirmed", "rejected"}

(* Requests are in the order they were issued, older ones on the socket     *)
(* first; when Chrome has answered the latest, none is left; and a caller   *)
(* that is told its request was not sent has none in flight.                *)
ChannelInv ==
  /\ \A i, j \in DOMAIN queue : i < j => queue[i].id < queue[j].id
  /\ \A i, j \in DOMAIN toChrome : i < j => toChrome[i].id < toChrome[j].id
  /\ \A i \in DOMAIN toChrome, j \in DOMAIN queue : toChrome[i].id < queue[j].id
  /\ \A r \in InFlight : r.id \in 1..call.id
  /\ \A i \in DOMAIN fromChrome :
       /\ fromChrome[i].id <= call.id /\ fromChrome[i].answer.outcome \in {"none", "confirmed", "rejected"}
       /\ fromChrome[i].id = 0 \/ fromChrome[i].kind = "response"
  /\ worker.request.id <= call.id
  /\ worker.at = "awaiting" => worker.request.id # 0
  /\ ChromeAnswered => InFlight = {}
  /\ call.reply = NotSent => \A r \in InFlight : r.id # call.id

-----------------------------------------------------------------------------

(* Sequences. *)
LEMMA SequenceIs ==
  ASSUME NEW s, IsSeq(s)
  PROVE  Len(s) \in Nat /\ DOMAIN s = 1..Len(s) /\ (s = <<>> <=> Len(s) = 0)
BY DEF IsSeq

(* A sequence is one of its own elements.                                   *)
LEMMA ElementsOf ==
  ASSUME NEW S, NEW s \in Seq(S)
  PROVE  IsSeq(s)
BY DEF IsSeq

(* What Append adds to a sequence, and what it leaves.                      *)
LEMMA Appended ==
  ASSUME NEW s, IsSeq(s), NEW x
  PROVE  /\ IsSeq(Append(s, x)) /\ Len(Append(s, x)) = Len(s) + 1
         /\ \A i \in DOMAIN s : Append(s, x)[i] = s[i]
         /\ Append(s, x)[Len(s) + 1] = x
<1> DEFINE S == {s[i] : i \in DOMAIN s} \cup {x}
<1>1. s \in Seq(S)
  BY DEF IsSeq
<1>2. Append(s, x) \in Seq(S)
  BY <1>1
<1> HIDE DEF S
<1>3. Len(Append(s, x)) = Len(s) + 1
  BY <1>1, <1>2
<1>4. \A i \in DOMAIN s : Append(s, x)[i] = s[i]
  BY <1>1, <1>2
<1>5. Append(s, x)[Len(s) + 1] = x
  BY <1>1, <1>2
<1> QED
  BY <1>2, <1>3, <1>4, <1>5, ElementsOf

(* What Tail leaves of a sequence, and its head.                            *)
LEMMA TailOf ==
  ASSUME NEW s, IsSeq(s), s # <<>>
  PROVE  /\ IsSeq(Tail(s)) /\ Len(Tail(s)) = Len(s) - 1 /\ Len(s) \in Nat \ {0}
         /\ \A i \in DOMAIN Tail(s) : i + 1 \in DOMAIN s /\ Tail(s)[i] = s[i + 1]
         /\ Head(s) = s[1] /\ 1 \in DOMAIN s
         /\ \A i \in DOMAIN s : i = 1 \/ (i - 1 \in DOMAIN Tail(s) /\ Tail(s)[i - 1] = s[i])
<1> DEFINE S == {s[i] : i \in DOMAIN s}
<1>1. s \in Seq(S)
  BY DEF IsSeq
<1>2. Tail(s) \in Seq(S)
  BY <1>1
<1> HIDE DEF S
<1>3. Len(Tail(s)) = Len(s) - 1 /\ Len(s) \in Nat \ {0} /\ Head(s) = s[1] /\ 1 \in DOMAIN s
  BY <1>1, <1>2
<1>4. \A i \in DOMAIN Tail(s) : i + 1 \in DOMAIN s /\ Tail(s)[i] = s[i + 1]
  BY <1>1, <1>2
<1>5. \A i \in DOMAIN s : i = 1 \/ (i - 1 \in DOMAIN Tail(s) /\ Tail(s)[i - 1] = s[i])
  BY <1>1, <1>2
<1> QED
  BY <1>2, <1>3, <1>4, <1>5, ElementsOf

(* The parts of a joined sequence, by position.                             *)
LEMMA Joined ==
  ASSUME NEW s, IsSeq(s), NEW t, IsSeq(t)
  PROVE  /\ IsSeq(s \o t) /\ Len(s \o t) = Len(s) + Len(t)
         /\ \A i \in DOMAIN s : (s \o t)[i] = s[i]
         /\ \A i \in DOMAIN t : (s \o t)[Len(s) + i] = t[i]
<1> DEFINE S == {s[i] : i \in DOMAIN s} \cup {t[i] : i \in DOMAIN t}
<1>1. s \in Seq(S) /\ t \in Seq(S)
  BY DEF IsSeq
<1>2. s \o t \in Seq(S)
  BY <1>1
<1> HIDE DEF S
<1>3. Len(s \o t) = Len(s) + Len(t)
  BY <1>1, <1>2
<1>4. \A i \in DOMAIN s : (s \o t)[i] = s[i]
  BY <1>1, <1>2
<1>5. \A i \in DOMAIN t : (s \o t)[Len(s) + i] = t[i]
  BY <1>1, <1>2
<1> QED
  BY <1>2, <1>3, <1>4, <1>5, ElementsOf

(* The last k elements of a sequence.                                       *)
LEMMA SubSequence ==
  ASSUME NEW s, IsSeq(s), NEW k \in Nat, k <= Len(s)
  PROVE  LET t == SubSeq(s, Len(s) - k + 1, Len(s))
         IN  IsSeq(t) /\ Len(t) = k /\ \A i \in 1..k : t[i] = s[Len(s) - k + i]
<1> DEFINE n == Len(s)
           t == SubSeq(s, n - k + 1, n)
           S == {s[i] : i \in DOMAIN s}
<1>1. n \in Nat /\ DOMAIN s = 1..n /\ s \in Seq(S)
  BY SequenceIs DEF IsSeq
<1>2. \A i \in 1..k : n - k + i \in 1..n
  BY <1>1
<1> HIDE DEF n
<1>3. t = [i \in 1..(n - (n - k + 1) + 1) |-> s[n - k + 1 + i - 1]]
  BY <1>1
<1>4. n - (n - k + 1) + 1 = k /\ \A i \in 1..k : n - k + 1 + i - 1 = n - k + i
  BY <1>1
<1>5. t = [i \in 1..k |-> s[n - k + i]]
  BY <1>3, <1>4
<1>6. t \in [1..k -> S]
  BY <1>1, <1>2, <1>5
<1> HIDE DEF t, S
<1>7. t \in Seq(S) /\ Len(t) = k
  <2>1. t \in Seq(S)
    BY <1>6
  <2>2. DOMAIN t = 1..k
    BY <1>6
  <2> QED
    BY <2>1, <2>2
<1> QED
  BY <1>5, <1>7, ElementsOf DEF n, t

(* Record and evict keep the cursors of the journal right: what is kept is  *)
(* the newest, it is numbered without a gap, and the latest of a kind is    *)
(* found where its cursor says, unless it was dropped.                      *)
LEMMA RecordedIs ==
  ASSUME JournalTypes, JournalInv, NEW kind \in Kinds, NEW j \in Recorded(kind)
  PROVE  /\ j.cursor = journal.cursor + 1 /\ j.dropped \in Nat /\ IsSeq(j.events)
         /\ \A i \in DOMAIN j.events : j.events[i].kind \in Kinds
         /\ j.arrived \in [Kinds -> Nat]
         /\ \A k \in Kinds : j.arrived[k] = IF k = kind THEN journal.cursor + 1 ELSE journal.arrived[k]
         /\ j.dropped >= journal.dropped
         /\ j.cursor = j.dropped + Len(j.events) /\ Len(j.events) <= MAX_EVENTS
         /\ \A i \in DOMAIN j.events :
              /\ j.events[i].cursor = j.dropped + i
              /\ j.events[i].cursor <= j.arrived[j.events[i].kind]
         /\ \A k \in Kinds : j.arrived[k] > j.dropped => j.events[j.arrived[k] - j.dropped].kind = k
<1> DEFINE new == [cursor |-> journal.cursor + 1, kind |-> kind]
           all == Append(journal.events, new)
           n == Len(journal.events)
<1>1. /\ journal.cursor \in Nat /\ journal.dropped \in Nat
      /\ journal.arrived \in [Kinds -> Nat] /\ n \in Nat
      /\ DOMAIN journal.events = 1..n /\ new.cursor = journal.cursor + 1 /\ new.kind = kind
  BY SequenceIs DEF JournalTypes
<1>2. /\ IsSeq(all) /\ Len(all) = n + 1 /\ DOMAIN all = 1..(n + 1)
      /\ \A i \in 1..n : all[i] = journal.events[i]
      /\ all[n + 1] = new
  BY <1>1, Appended, SequenceIs DEF JournalTypes
<1>0. /\ journal.cursor = journal.dropped + n
      /\ \A i \in 1..n : /\ journal.events[i].cursor = journal.dropped + i
                         /\ journal.events[i].kind \in Kinds
                         /\ journal.events[i].cursor <= journal.arrived[journal.events[i].kind]
      /\ \A k \in Kinds : /\ journal.arrived[k] <= journal.cursor
                          /\ journal.arrived[k] > journal.dropped
                               => journal.events[journal.arrived[k] - journal.dropped].kind = k
  BY <1>1 DEF JournalInv, JournalTypes
<1> DEFINE Keeping(k) ==
        [cursor  |-> journal.cursor + 1,
         dropped |-> IF k < Len(all) THEN all[Len(all) - k].cursor ELSE journal.dropped,
         events  |-> SubSeq(all, Len(all) - k + 1, Len(all)),
         arrived |-> [journal.arrived EXCEPT ![kind] = journal.cursor + 1]]
           most == IF Len(all) > MAX_EVENTS THEN MAX_EVENTS ELSE Len(all)
<1>3. j = Keeping(most) \/ j = Keeping(0)
  BY DEF Recorded
<1>4. most \in 0..(n + 1) /\ 0 \in 0..(n + 1) /\ most <= MAX_EVENTS /\ 0 <= MAX_EVENTS
  BY <1>1, <1>2, WindowAssumption
<1> HIDE DEF most, all, new, n
<1>5. PICK k \in 0..(n + 1) : j = Keeping(k) /\ k <= MAX_EVENTS
  BY <1>3, <1>4
<1>6. k \in Nat /\ k <= n + 1
  BY <1>1, <1>5
<1>7. j.cursor = journal.cursor + 1
  BY <1>5
<1>18. j.events = SubSeq(all, Len(all) - k + 1, Len(all))
  BY <1>5
<1>15. /\ j.arrived \in [Kinds -> Nat]
       /\ \A k2 \in Kinds : j.arrived[k2] = IF k2 = kind THEN journal.cursor + 1 ELSE journal.arrived[k2]
  <2>1. j.arrived = [journal.arrived EXCEPT ![kind] = journal.cursor + 1]
    BY <1>5
  <2> QED
    BY <1>1, <2>1
<1>19. j.dropped = IF k < Len(all) THEN all[Len(all) - k].cursor ELSE journal.dropped
  BY <1>5
<1>16. k < n + 1 => j.dropped = all[n + 1 - k].cursor
  BY <1>1, <1>2, <1>6, <1>19
<1>17. k = n + 1 => j.dropped = journal.dropped
  BY <1>1, <1>2, <1>19
<1> HIDE DEF Keeping
<1>8. /\ IsSeq(j.events) /\ Len(j.events) = k /\ DOMAIN j.events = 1..k
      /\ \A i \in 1..k : j.events[i] = all[n + 1 - k + i]
  <2>1. k <= Len(all)
    BY <1>2, <1>6
  <2>2. IsSeq(j.events) /\ Len(j.events) = k /\ \A i \in 1..k : j.events[i] = all[Len(all) - k + i]
    <3> DEFINE t == SubSeq(all, Len(all) - k + 1, Len(all))
    <3>1. IsSeq(all) /\ k \in Nat /\ k <= Len(all)
      BY <1>2, <1>6, <2>1
    <3>2. IsSeq(t) /\ Len(t) = k /\ \A i \in 1..k : t[i] = all[Len(all) - k + i]
      BY ONLY <3>1, SubSequence
    <3>3. j.events = t
      BY <1>18
    <3> QED
      BY ONLY <3>2, <3>3
  <2> QED
    BY <1>1, <1>2, <1>6, <2>2, SequenceIs
<1>9. \A i \in 1..(n + 1) :
        /\ all[i].cursor = journal.dropped + i
        /\ all[i].kind \in Kinds
        /\ all[i].cursor <= j.arrived[all[i].kind]
  <2> TAKE i \in 1..(n + 1)
  <2>1. CASE i = n + 1
    <3>1. all[i] = new /\ journal.cursor + 1 = journal.dropped + i
      BY <1>0, <1>1, <1>2, <2>1
    <3>2. j.arrived[kind] = journal.cursor + 1
      BY <1>15
    <3> QED
      BY <1>1, <3>1, <3>2
  <2>2. CASE i # n + 1
    <3>1. i \in 1..n /\ all[i] = journal.events[i]
      BY <1>1, <1>2, <2>2
    <3> DEFINE e == journal.events[i]
    <3>2. e.cursor = journal.dropped + i /\ e.kind \in Kinds /\ e.cursor <= journal.arrived[e.kind]
      BY <1>0, <3>1
    <3> HIDE DEF e
    <3>3. journal.arrived[e.kind] <= journal.cursor + 1 /\ journal.arrived[e.kind] \in Nat
      BY <1>0, <1>1, <3>2
    <3>4. journal.arrived[e.kind] <= j.arrived[e.kind] /\ j.arrived[e.kind] \in Nat
      BY <1>1, <1>15, <3>2, <3>3
    <3> QED
      BY <1>1, <3>1, <3>2, <3>3, <3>4 DEF e
  <2> QED
    BY <2>1, <2>2
<1>10. j.dropped = journal.dropped + (n + 1 - k)
  <2>1. CASE k < n + 1
    <3>1. n + 1 - k \in 1..(n + 1)
      BY <1>1, <1>6, <2>1
    <3> QED
      BY <1>9, <1>16, <2>1, <3>1
  <2>2. CASE k = n + 1
    BY <1>1, <1>17, <2>2
  <2> QED
    BY <1>1, <1>6, <2>1, <2>2
<1>11. \A i \in 1..k : n + 1 - k + i \in 1..(n + 1)
  BY <1>1, <1>6
<1>12. ASSUME NEW i \in 1..k
       PROVE  /\ j.events[i].cursor = j.dropped + i /\ j.events[i].cursor <= j.arrived[j.events[i].kind]
              /\ j.events[i].kind \in Kinds
  <2>1. journal.dropped + (n + 1 - k + i) = j.dropped + i
    BY <1>1, <1>6, <1>10
  <2> QED
    BY <1>8, <1>9, <1>11, <2>1
<1>13. ASSUME NEW k2 \in Kinds, j.arrived[k2] > j.dropped
       PROVE  j.events[j.arrived[k2] - j.dropped].kind = k2
  <2>1. CASE k2 = kind
    <3>1. j.arrived[k2] - j.dropped = k /\ k \in 1..k /\ n + 1 - k + k = n + 1
      BY <1>0, <1>1, <1>6, <1>15, <1>10, <1>13, <2>1
    <3> QED
      BY <1>1, <1>2, <1>8, <2>1, <3>1
  <2>2. CASE k2 # kind
    <3>1. j.arrived[k2] = journal.arrived[k2] /\ journal.arrived[k2] \in Nat /\ journal.arrived[k2] <= journal.cursor
      BY <1>0, <1>1, <1>15, <2>2
    <3>2. journal.events[journal.arrived[k2] - journal.dropped].kind = k2
      BY <1>0, <1>1, <1>6, <1>10, <1>13, <3>1
    <3>3. /\ j.arrived[k2] - j.dropped \in 1..k /\ journal.arrived[k2] - journal.dropped \in 1..n
          /\ n + 1 - k + (j.arrived[k2] - j.dropped) = journal.arrived[k2] - journal.dropped
      <4> DEFINE a == journal.arrived[k2]
                 d == journal.dropped
      <4>1. a \in Nat /\ d \in Nat /\ a <= d + n /\ j.arrived[k2] = a /\ j.dropped = d + (n + 1 - k) /\ a > d + (n + 1 - k)
        BY <1>0, <1>1, <1>10, <1>13, <3>1
      <4> HIDE DEF a, d
      <4> QED
        BY <1>1, <1>6, <4>1 DEF a, d
    <3>4. j.events[j.arrived[k2] - j.dropped] = journal.events[journal.arrived[k2] - journal.dropped]
      BY <1>2, <1>8, <3>3
    <3> QED
      BY <3>2, <3>4
  <2> QED
    BY <2>1, <2>2
<1>14. /\ j.cursor = j.dropped + Len(j.events) /\ j.dropped >= journal.dropped /\ j.dropped \in Nat
       /\ Len(j.events) <= MAX_EVENTS
  <2>1. j.cursor = journal.cursor + 1 /\ Len(j.events) = k
    BY <1>7, <1>8
  <2> QED
    BY <1>0, <1>1, <1>5, <1>6, <1>10, <2>1
<1> QED
  BY <1>7, <1>8, <1>12, <1>13, <1>14, <1>15

(* What the journal no longer shows was not there to see, unless it says so.*)
LEMMA NothingMissed ==
  ASSUME JournalTypes, JournalInv, NEW cursor \in Nat, ~LostEventsSince(cursor),
         NEW kind \in Kinds, kind \notin KindsSince(cursor)
  PROVE  journal.arrived[kind] <= cursor
<1> SUFFICES ASSUME journal.arrived[kind] > cursor PROVE FALSE
  BY DEF JournalTypes
<1> DEFINE i == journal.arrived[kind] - journal.dropped
<1>1. journal.dropped <= cursor /\ i \in DOMAIN journal.events /\ journal.events[i].kind = kind
  BY SequenceIs DEF JournalTypes, JournalInv, LostEventsSince
<1>2. journal.events[i].cursor = journal.arrived[kind]
  BY <1>1 DEF JournalTypes, JournalInv
<1> QED
  BY <1>1, <1>2 DEF KindsSince, Since, Retained

(* Since a cursor, loading that was seen to start was seen to stop.        *)
LEMMA LoadingSeen ==
  ASSUME JournalTypes, JournalInv, NEW cursor \in Nat, ~LostEventsSince(cursor), ~LoadingSince(cursor)
  PROVE  journal.arrived["started"] <= cursor \/ journal.arrived["started"] < journal.arrived["stopped"]
<1> SUFFICES ASSUME journal.arrived["started"] > cursor
             PROVE  journal.arrived["started"] < journal.arrived["stopped"]
  BY DEF JournalTypes, Kinds
<1> DEFINE i == journal.arrived["started"] - journal.dropped
           e == journal.events[i]
<1>0. "started" \in Kinds /\ "stopped" \in Kinds
  BY DEF Kinds
<1>1. journal.dropped <= cursor /\ i \in DOMAIN journal.events /\ e.kind = "started"
  BY <1>0, SequenceIs DEF JournalTypes, JournalInv, LostEventsSince
<1>2. e.cursor = journal.arrived["started"]
  BY <1>0, <1>1, SequenceIs DEF JournalTypes, JournalInv
<1>3. e \in Since(cursor)
  BY <1>1, <1>2 DEF Since, Retained
<1>4. PICK f \in Since(cursor) : f.kind = "stopped" /\ ~(f.cursor < e.cursor)
  BY <1>1, <1>3 DEF LoadingSince
<1>5. PICK j \in DOMAIN journal.events : f = journal.events[j]
  BY <1>4 DEF Since, Retained
<1>6. f.cursor = journal.dropped + j /\ e.cursor = journal.dropped + i /\ f.cursor <= journal.arrived["stopped"] /\ i # j
  BY <1>1, <1>4, <1>5 DEF JournalInv
<1> QED
  <2>1. f.cursor > e.cursor /\ journal.arrived["stopped"] \in Nat
    BY <1>0, <1>1, <1>4, <1>5, <1>6, SequenceIs DEF JournalTypes
  <2> QED
    BY <1>0, <1>2, <1>6, <2>1, SequenceIs DEF JournalTypes

(* The answers and events that are on their way, after some were emitted.  *)
LEMMA EmitIs ==
  ASSUME IsSeq(fromChrome), NEW events, IsSeq(events), Emit(events)
  PROVE  /\ IsSeq(fromChrome')
         /\ \A i \in DOMAIN fromChrome : i \in DOMAIN fromChrome' /\ fromChrome'[i] = fromChrome[i]
         /\ \A i \in DOMAIN fromChrome' :
              \/ i \in DOMAIN fromChrome
              \/ \E j \in DOMAIN events : ~broken /\ i = Len(fromChrome) + j /\ fromChrome'[i] = events[j]
         /\ ~broken => \A j \in DOMAIN events :
              Len(fromChrome) + j \in DOMAIN fromChrome' /\ fromChrome'[Len(fromChrome) + j] = events[j]
<1>1. CASE broken
  BY <1>1, SequenceIs DEF Emit
<1>2. CASE ~broken
  <2>1. fromChrome' = fromChrome \o events
    BY <1>2 DEF Emit
  <2> DEFINE n == Len(fromChrome)
             m == Len(events)
  <2>2. n \in Nat /\ m \in Nat /\ DOMAIN fromChrome = 1..n /\ DOMAIN events = 1..m
    BY SequenceIs
  <2>3. /\ IsSeq(fromChrome') /\ DOMAIN fromChrome' = 1..(n + m)
        /\ \A i \in 1..n : fromChrome'[i] = fromChrome[i]
        /\ \A i \in 1..m : fromChrome'[n + i] = events[i]
    BY <2>1, <2>2, Joined, SequenceIs
  <2> HIDE DEF n, m
  <2>4. ASSUME NEW i \in 1..(n + m), i \notin 1..n
        PROVE  \E j \in 1..m : i = n + j /\ fromChrome'[i] = events[j]
    <3>1. i - n \in 1..m /\ n + (i - n) = i
      BY <2>2, <2>4
    <3> QED
      BY <2>3, <3>1
  <2>5. (\A i \in 1..n : i \in 1..(n + m)) /\ \A j \in 1..m : n + j \in 1..(n + m)
    BY <2>2
  <2> QED
    BY <1>2, <2>2, <2>3, <2>4, <2>5 DEF n, m
<1> QED
  BY <1>1, <1>2

(* Sequences of one and of two.                                             *)
LEMMA Singles ==
  ASSUME NEW x, NEW y
  PROVE  /\ IsSeq(<<>>) /\ DOMAIN <<>> = {}
         /\ IsSeq(<<x>>) /\ DOMAIN <<x>> = {1} /\ <<x>>[1] = x /\ Len(<<x>>) = 1
         /\ IsSeq(<<x, y>>) /\ DOMAIN <<x, y>> = {1, 2} /\ <<x, y>>[1] = x /\ <<x, y>>[2] = y
<1>1. <<>> \in Seq({x}) /\ <<x>> \in Seq({x}) /\ <<x, y>> \in Seq({x, y})
  OBVIOUS
<1>2. IsSeq(<<>>) /\ IsSeq(<<x>>) /\ IsSeq(<<x, y>>)
  BY <1>1, ElementsOf
<1> QED
  BY <1>2

(* A command that is handled emits at most one event before its response.  *)

(* A command that is handled emits at most one event before its response.  *)
LEMMA HandledIs ==
  ASSUME NEW method, NEW h \in Handled(method), PageTypes
  PROVE  /\ DOMAIN h[1] = DOMAIN NewPage /\ h[1].version = page.version /\ h[1].paint = page.paint
         /\ h[1].popup = page.popup
         /\ h[2] = <<>> \/ \E kind \in {"started", "mask", "changed"} : h[2] = <<Event(kind)>>
<1> DEFINE Shape(p) == DOMAIN p = DOMAIN NewPage /\ p.version = page.version /\ p.paint = page.paint /\ p.popup = page.popup
           Told1(es) == es = <<>> \/ \E kind \in {"started", "mask", "changed"} : es = <<Event(kind)>>
<1>1. /\ Shape(page)
      /\ \A t : Shape([page EXCEPT !.text = t])
      /\ Shape([page EXCEPT !.loading = TRUE, !.live = TRUE])
      /\ Shape([page EXCEPT !.watched = TRUE]) /\ Shape([page EXCEPT !.watched = FALSE])
      /\ Shape([page EXCEPT !.masked = page.version]) /\ Shape([page EXCEPT !.masked = -1])
  BY DEF PageTypes, NewPage
<1>2. Told1(<<>>) /\ Told1(<<Event("started")>>) /\ Told1(Mutation("mask")) /\ Told1(Mutation("changed"))
  BY DEF Mutation
<1> HIDE DEF Shape, Told1
<1>3. Shape(h[1]) /\ Told1(h[2])
  <2>1. CASE method \in {"revalidate", "read_text", "ready_state"}
    BY <1>1, <1>2, <2>1 DEF Handled
  <2>2. CASE method \in {"insert", "set"}
    <3>1. h = <<page, <<>>, "no_target">> \/ \E t \in EnteredText : h = <<[page EXCEPT !.text = t], <<>>, "done">>
      BY <2>2 DEF Handled
    <3>2. CASE h = <<page, <<>>, "no_target">>
      BY <1>1, <1>2, <3>2
    <3>3. CASE \E t \in EnteredText : h = <<[page EXCEPT !.text = t], <<>>, "done">>
      <4>1. PICK t \in EnteredText : h = <<[page EXCEPT !.text = t], <<>>, "done">>
        BY <3>3
      <4>2. h[1] = [page EXCEPT !.text = t] /\ h[2] = <<>>
        BY <4>1
      <4>3. Shape(h[1])
        BY <4>2 DEF Shape, PageTypes, NewPage
      <4> QED
        BY <1>2, <4>2, <4>3
    <3> QED
      BY <3>1, <3>2, <3>3
  <2>3. CASE method = "navigate"
    <3>1. \/ h[1] = [page EXCEPT !.loading = TRUE, !.live = TRUE] /\ h[2] = <<Event("started")>>
          \/ h[1] = page /\ h[2] = <<>>
      BY <2>3 DEF Handled
    <3> QED
      BY <1>1, <1>2, <3>1
  <2>4. CASE method \in {"watch", "unwatch"}
    <3>1. h[2] = <<>> /\ (h[1] = [page EXCEPT !.watched = TRUE] \/ h[1] = [page EXCEPT !.watched = FALSE])
      <4>1. CASE method = "watch"
        BY <4>1 DEF Handled
      <4>2. CASE method = "unwatch"
        BY <4>2 DEF Handled
      <4> QED
        BY <2>4, <4>1, <4>2
    <3> QED
      BY <1>1, <1>2, <3>1
  <2>7. CASE method = "mask"
    <3>1. \/ h[2] = Mutation("mask") /\ h[1] = [page EXCEPT !.masked = page.version]
          \/ h[1] = page /\ h[2] = <<>>
      BY <2>7 DEF Handled
    <3> QED
      BY <1>1, <1>2, <3>1
  <2>8. CASE method = "unmask"
    <3>1. h[2] = Mutation("changed") /\ h[1] = [page EXCEPT !.masked = -1]
      BY <2>8 DEF Handled
    <3> QED
      BY <1>1, <1>2, <3>1
  <2>5. CASE method \in {"observe", "screenshot"}
    BY <1>1, <1>2, <2>5 DEF Handled
  <2>6. CASE method \notin {"revalidate", "read_text", "ready_state", "insert", "set", "navigate", "watch", "unwatch",
                            "mask", "unmask", "observe", "screenshot"}
    BY <1>1, <1>2, <2>6 DEF Handled
  <2> QED
    BY <2>1, <2>2, <2>3, <2>4, <2>5, <2>6, <2>7, <2>8
<1> QED
  BY <1>3 DEF Shape, Told1

(* What Chrome did with a request: its answer, after at most one event.     *)
Answering(r) ==
  \E es, m :
    /\ es = <<>> \/ \E kind \in {"started", "mask", "changed"} : es = <<Event(kind)>>
    /\ m.id = r.id /\ m.kind = "response" /\ m.answer.outcome \in {"confirmed", "rejected"}
    /\ Emit(es \o <<m>>)

(* What Chrome changes when it handles a request, for any request.          *)
LEMMA HandlesIs ==
  ASSUME ChannelTypes, PageTypes, ChromeHandles
  PROVE  /\ toChrome # <<>> /\ toChrome' = Tail(toChrome) /\ Answering(Head(toChrome))
         /\ UNCHANGED <<call, queue, worker, broken, journal, proc>>
         /\ PageTypes' /\ page'.version = page.version /\ page'.paint = page.paint /\ page'.popup = page.popup
<1> DEFINE r == Head(toChrome)
<1>1. /\ toChrome # <<>> /\ toChrome' = Tail(toChrome)
      /\ UNCHANGED <<call, queue, worker, broken, journal, proc>>
  BY DEF ChromeHandles
<1>2. CASE \E h \in Handled(r.method) :
             /\ page' = h[1]
             /\ Emit(h[2] \o <<Response(r, "confirmed", h[3])>>)
             /\ \/ effects' = effects
                \/ \E e : effects' = Append(effects, e)
  <2>1. PICK h \in Handled(r.method) :
             /\ page' = h[1]
             /\ Emit(h[2] \o <<Response(r, "confirmed", h[3])>>)
             /\ \/ effects' = effects
                \/ \E e : effects' = Append(effects, e)
    BY <1>2
  <2> DEFINE m == Response(r, "confirmed", h[3])
  <2>2. m.id = r.id /\ m.kind = "response" /\ m.answer.outcome = "confirmed"
    BY DEF Response, Outcome
  <2> HIDE DEF m
  <2>3. Answering(r)
    BY <2>1, <2>2, HandledIs DEF Answering, m
  <2>4. IsSeq(effects')
    <3>1. IsSeq(effects)
      BY DEF PageTypes
    <3>2. \A e : IsSeq(Append(effects, e))
      BY <3>1, Appended
    <3> QED
      BY <2>1, <3>1, <3>2
  <2> QED
    BY <1>1, <2>1, <2>3, <2>4, HandledIs DEF PageTypes
<1>3. CASE Emit(<<Response(r, "rejected", "none")>>) /\ UNCHANGED <<page, effects>>
  <2> DEFINE m == Response(r, "rejected", "none")
  <2>1. m.id = r.id /\ m.kind = "response" /\ m.answer.outcome = "rejected"
    BY DEF Response, Outcome
  <2>2. <<>> \o <<m>> = <<m>>
    OBVIOUS
  <2> HIDE DEF m
  <2>3. Answering(r)
    BY <1>3, <2>1, <2>2 DEF Answering, m
  <2> QED
    BY <1>1, <1>3, <2>3 DEF PageTypes
<1> QED
  BY <1>2, <1>3 DEF ChromeHandles

(* What was on its way stays in place; what joins it is an event of a       *)
(* command, or the response.                                                *)
LEMMA AnsweringIs ==
  ASSUME IsSeq(fromChrome), NEW r, Answering(r)
  PROVE  /\ IsSeq(fromChrome')
         /\ \A i \in DOMAIN fromChrome : i \in DOMAIN fromChrome' /\ fromChrome'[i] = fromChrome[i]
         /\ \A i \in DOMAIN fromChrome' : i \notin DOMAIN fromChrome =>
              \/ fromChrome'[i].id = 0 /\ fromChrome'[i].kind \in {"started", "mask", "changed"}
                   /\ fromChrome'[i].answer = None
              \/ fromChrome'[i].id = r.id /\ fromChrome'[i].kind = "response"
                   /\ fromChrome'[i].answer.outcome \in {"confirmed", "rejected"}
<1>1. PICK es, m :
        /\ es = <<>> \/ \E kind \in {"started", "mask", "changed"} : es = <<Event(kind)>>
        /\ m.id = r.id /\ m.kind = "response" /\ m.answer.outcome \in {"confirmed", "rejected"}
        /\ Emit(es \o <<m>>)
  BY DEF Answering
<1> DEFINE events == es \o <<m>>
<1>2. /\ IsSeq(events)
      /\ \A j \in DOMAIN events :
           events[j] = m \/ \E kind \in {"started", "mask", "changed"} : events[j] = Event(kind)
  <2>1. CASE es = <<>>
    <3>1. events = <<m>>
      BY <2>1
    <3> QED
      BY <3>1, Singles
  <2>2. CASE \E kind \in {"started", "mask", "changed"} : es = <<Event(kind)>>
    <3>1. PICK kind \in {"started", "mask", "changed"} : es = <<Event(kind)>>
      BY <2>2
    <3>2. IsSeq(es) /\ Len(es) = 1 /\ es[1] = Event(kind) /\ IsSeq(<<m>>) /\ Len(<<m>>) = 1 /\ <<m>>[1] = m
      BY <3>1, Singles
    <3>4. IsSeq(events) /\ Len(events) = Len(es) + Len(<<m>>)
      BY <3>2, Joined
    <3>5. DOMAIN es = {1} /\ DOMAIN <<m>> = {1}
      BY <3>1, Singles
    <3>6. events[1] = es[1] /\ events[Len(es) + 1] = <<m>>[1]
      <4> DEFINE last == <<m>>
      <4>1. IsSeq(es) /\ IsSeq(last) /\ 1 \in DOMAIN es /\ 1 \in DOMAIN last /\ events = es \o last
        BY <3>2, <3>5 DEF events
      <4> HIDE DEF last
      <4> QED
        BY <4>1, Joined DEF last
    <3>3. IsSeq(events) /\ Len(events) = 2 /\ events[1] = Event(kind) /\ events[2] = m
      BY <3>2, <3>4, <3>6
    <3> QED
      BY <3>3, SequenceIs
  <2> QED
    BY <1>1, <2>1, <2>2
<1> HIDE DEF events
<1>3. \A kind : Event(kind).id = 0 /\ Event(kind).kind = kind /\ Event(kind).answer = None
  BY DEF Event
<1>4. Emit(events)
  BY <1>1 DEF events
<1> QED
  BY <1>1, <1>2, <1>3, <1>4, EmitIs

(* What a step of the caller does to the connection: a new call, the end of *)
(* one, or nothing but that its deadline counts as passed.                  *)
Issued == \E by, method, cancelled : Issue(by, method, cancelled)
Waits == queue' = queue /\ DOMAIN call' = DOMAIN call /\ call'.id = call.id /\ call'.reply = call.reply
CallStep == Issued \/ HangUp \/ Waits
CallerFrame ==
  /\ UNCHANGED <<toChrome, fromChrome, broken, journal, effects>>
  /\ CallStep
  /\ DOMAIN worker' = DOMAIN worker /\ worker'.request = worker.request
  /\ worker'.at = worker.at \/ worker'.at = "initialize"
  /\ page' = page \/ page' = [page EXCEPT !.text = "previous"]

(* A step of the caller issues a call, ends one or leaves it.               *)
LEMMA Called ==
  /\ \A o, m : GoOn(o, m) => CallStep
  /\ \A result : Finish(result) => CallStep
  /\ Fail => CallStep
  /\ \A verdict, seen : CleanUp(verdict, seen) => CallStep
  /\ \A seen : Judge(seen) => CallStep
  /\ HangUp => CallStep
  /\ UNCHANGED <<call, queue>> => CallStep
<1>1. \A o, m : GoOn(o, m) => CallStep
  BY DEF GoOn, CallStep, Issued
<1>2. \A result : Finish(result) => CallStep
  BY DEF Finish, CallStep
<1>3. \A verdict, seen : CleanUp(verdict, seen) => CallStep
  BY <1>1 DEF CleanUp
<1> QED
  BY <1>1, <1>2, <1>3 DEF Fail, Judge, CallStep, Waits

CallerSteps ==
  \/ Navigate \/ Cancel
  \/ \E kind \in Captures : Capture(kind)
  \/ \E kind \in Operations : Perform(kind)
  \/ CommitAnswered \/ DocumentAnswered \/ WidthAnswered
  \/ CaptureAnswered \/ CleanupAnswered \/ WithheldAnswered
  \/ InputAnswered \/ SettleInput \/ AwaitLoading \/ ConnectClient \/ SetupAnswered
LifeSteps ==
  Prepare \/ Spawn \/ AwaitReady \/ TryWait \/ Signal \/ AwaitExit \/ RemoveProfile \/ UNCHANGED vars

(* The caller leaves what is on the socket, what was received, and the page *)
(* alone, but for the text an input is prepared from.                       *)
LEMMA CallerFrames ==
  ASSUME ChannelTypes, CallerSteps \/ LifeSteps
  PROVE  CallerFrame
<1> USE DEF Caller, chrome, CallerFrame
<1>1. CASE Navigate
  BY <1>1, Called DEF Navigate
<1>2. CASE Cancel
  BY <1>2 DEF Cancel, CallStep, Waits, ChannelTypes, NoCall
<1>3. CASE \E kind \in Captures : Capture(kind)
  BY <1>3, Called DEF Capture
<1>4. CASE \E kind \in Operations : Perform(kind)
  BY <1>4, Called DEF Perform
<1>5. CASE CommitAnswered
  BY <1>5, Called DEF CommitAnswered
<1>6. CASE DocumentAnswered
  BY <1>6, Called DEF DocumentAnswered
<1>7. CASE WidthAnswered
  BY <1>7, Called DEF WidthAnswered
<1>8. CASE CaptureAnswered
  BY <1>8, Called DEF CaptureAnswered
<1>9. CASE CleanupAnswered
  BY <1>9, Called DEF CleanupAnswered
<1>10. CASE WithheldAnswered
  BY <1>10, Called DEF WithheldAnswered
<1>11. CASE InputAnswered
  BY <1>11, Called DEF InputAnswered
<1>12. CASE SettleInput
  BY <1>12, Called DEF SettleInput
<1>13. CASE AwaitLoading
  BY <1>13, Called DEF AwaitLoading
<1>14. CASE ConnectClient
  BY <1>14, Called DEF ConnectClient, ChannelTypes, Idle, CallStep, Issued
<1>15. CASE SetupAnswered
  BY <1>15, Called DEF SetupAnswered
<1>16. CASE LifeSteps
  BY <1>16, Called DEF LifeSteps, Prepare, Spawn, AwaitReady, TryWait, Signal, AwaitExit, RemoveProfile, Still, transport, vars
<1> QED
  BY <1>1, <1>2, <1>3, <1>4, <1>5, <1>6, <1>7, <1>8, <1>9, <1>10, <1>11, <1>12, <1>13, <1>14, <1>15, <1>16
  DEF CallerSteps

ConnInv == ChannelTypes /\ ChannelInv

(* The outcomes are different ones.                                         *)
LEMMA OutcomesDiffer ==
  /\ None.outcome = "none" /\ NotSent.outcome = "not_sent" /\ Unknown.outcome = "unknown"
  /\ None # NotSent /\ Unknown # NotSent /\ Unknown # None
BY DEF None, NotSent, Unknown, Outcome

(* A new call: nothing answers it yet, and it comes after all others.       *)
LEMMA IssuedKeeps ==
  ASSUME ConnInv, NEW by, NEW method, NEW cancelled, Issue(by, method, cancelled),
         UNCHANGED <<toChrome, fromChrome>>, DOMAIN worker' = DOMAIN worker, worker'.request = worker.request,
         worker'.at = worker.at \/ worker'.at = "initialize"
  PROVE  /\ ConnInv'
         /\ call'.id = call.id + 1 /\ Arriving' = {call'.reply} /\ call'.reply \in {None, NotSent}
         /\ \A r \in InFlight' : r \in InFlight \/ (r.id = call'.id /\ r.by = by /\ r.method = method /\ call'.reply = None)
<1> DEFINE r == [id |-> call.id + 1, by |-> by, method |-> method]
<1> USE DEF ConnInv
<1>1. /\ DOMAIN call' = DOMAIN NoCall /\ call'.id = call.id + 1 /\ call.id \in Nat
      /\ \/ queue' = queue /\ call'.reply = NotSent
         \/ queue' = Append(queue, r) /\ call'.reply = None
  BY DEF Issue, ChannelTypes, NoCall
<1>2. r.id = call.id + 1 /\ r.by = by /\ r.method = method
  OBVIOUS
<1> HIDE DEF r
<1>3. /\ IsSeq(queue')
      /\ \A i \in DOMAIN queue : i \in DOMAIN queue' /\ queue'[i] = queue[i]
      /\ \A i \in DOMAIN queue' : i \in DOMAIN queue \/ (queue'[i] = r /\ i = Len(queue) + 1 /\ call'.reply = None)
  <2>1. IsSeq(queue)
    BY DEF ChannelTypes
  <2>2. CASE queue' = Append(queue, r) /\ call'.reply = None
    BY <2>1, <2>2, Appended, SequenceIs
  <2>3. CASE queue' = queue
    BY <2>1, <2>3
  <2> QED
    BY <1>1, <2>2, <2>3
<1>4. \A x \in InFlight' : x \in InFlight \/ (x = r /\ call'.reply = None)
  BY <1>3 DEF InFlight
<1>5. \A i \in DOMAIN fromChrome : fromChrome[i].id \in Nat /\ fromChrome[i].id <= call.id
  BY DEF ChannelTypes, ChannelInv
<1>6. Arriving' = {call'.reply}
  BY <1>1, <1>5 DEF Arriving
<1>7. ChannelTypes'
  <2>1. \A i \in DOMAIN queue' : queue'[i].id \in Nat
    BY <1>1, <1>2, <1>3 DEF ChannelTypes
  <2> QED
    BY <1>1, <1>3, <2>1 DEF ChannelTypes
<1>8. ChannelInv'
  <2>0. IsSeq(queue) /\ Len(queue) \in Nat /\ DOMAIN queue = 1..Len(queue)
    BY SequenceIs DEF ChannelTypes
  <2>1. \A i \in DOMAIN queue : queue[i].id \in Nat /\ queue[i].id <= call.id
    BY <1>1 DEF ChannelInv, ChannelTypes, InFlight
  <2>2. \A i, j \in DOMAIN queue' : i < j => queue'[i].id < queue'[j].id
    <3> TAKE i, j \in DOMAIN queue'
    <3>1. CASE j \in DOMAIN queue
      <4>1. i < j => i \in DOMAIN queue
        BY <1>3, <2>0, <3>1
      <4> QED
        BY <1>3, <3>1, <4>1 DEF ChannelInv
    <3>2. CASE j \notin DOMAIN queue
      <4>1. i < j => i \in DOMAIN queue
        BY <1>3, <2>0, <3>2
      <4> QED
        BY <1>1, <1>2, <1>3, <2>1, <3>2, <4>1
    <3> QED
      BY <3>1, <3>2
  <2>3. \A i \in DOMAIN toChrome : toChrome[i].id \in Nat /\ toChrome[i].id <= call.id
    BY <1>1 DEF ChannelInv, ChannelTypes, InFlight
  <2>4. \A i \in DOMAIN toChrome, j \in DOMAIN queue' : toChrome[i].id < queue'[j].id
    <3> TAKE i \in DOMAIN toChrome, j \in DOMAIN queue'
    <3>1. CASE j \in DOMAIN queue
      BY <1>3, <3>1 DEF ChannelInv
    <3>2. CASE j \notin DOMAIN queue
      BY <1>1, <1>2, <1>3, <2>3, <3>2
    <3> QED
      BY <3>1, <3>2
  <2>5. \A x \in InFlight' : x.id \in 1..call'.id /\ (call'.reply = NotSent => x.id # call'.id)
    BY <1>1, <1>2, <1>4, OutcomesDiffer DEF ChannelInv
  <2>6. ~ChromeAnswered'
    BY <1>1, <1>6, OutcomesDiffer DEF ChromeAnswered
  <2>7. \A i \in DOMAIN fromChrome :
          /\ fromChrome[i].id <= call'.id /\ fromChrome[i].answer.outcome \in {"none", "confirmed", "rejected"}
          /\ fromChrome[i].id = 0 \/ fromChrome[i].kind = "response"
    BY <1>1, <1>5 DEF ChannelInv
  <2>8. worker'.request.id <= call'.id /\ (worker'.at = "awaiting" => worker'.request.id # 0)
    BY <1>1 DEF ChannelInv, ChannelTypes
  <2> QED
    BY <2>2, <2>4, <2>5, <2>6, <2>7, <2>8 DEF ChannelInv
<1> QED
  BY <1>1, <1>2, <1>4, <1>6, <1>7, <1>8

(* The call stays what it is: nothing new is in flight for it, and what     *)
(* arrives is what Chrome answered, or that there is no such answer.        *)
Moving ==
  /\ call'.id = call.id
  /\ InFlight' \subseteq InFlight
  /\ \A a \in Arriving' :
       \/ a \in Arriving \/ a.outcome \in {"none", "unknown"}
       \/ a = NotSent /\ \E r \in InFlight : r.id = call.id

(* A step that moves no request keeps the order of the channels.            *)
LEMMA MovingKeeps ==
  ASSUME ConnInv, Moving, ChannelTypes',
         \A i, j \in DOMAIN queue' : i < j => queue'[i].id < queue'[j].id,
         \A i, j \in DOMAIN toChrome' : i < j => toChrome'[i].id < toChrome'[j].id,
         \A i \in DOMAIN toChrome', j \in DOMAIN queue' : toChrome'[i].id < queue'[j].id,
         \A i \in DOMAIN fromChrome' :
           /\ fromChrome'[i].id <= call.id /\ fromChrome'[i].answer.outcome \in {"none", "confirmed", "rejected"}
           /\ fromChrome'[i].id = 0 \/ fromChrome'[i].kind = "response",
         worker'.request.id <= call.id, worker'.at = "awaiting" => worker'.request.id # 0,
         call'.reply = NotSent => call.reply = NotSent \/ \A r \in InFlight' : r.id # call.id
  PROVE  ChannelInv'
<1>1. ChromeAnswered' => InFlight' = {}
  <2> SUFFICES ASSUME ChromeAnswered' PROVE InFlight' = {}
    OBVIOUS
  <2>1. PICK a \in Arriving' : a.outcome \in {"confirmed", "rejected"}
    BY DEF ChromeAnswered
  <2>2. a \in Arriving
    BY <2>1, OutcomesDiffer DEF Moving
  <2> QED
    BY <2>1, <2>2 DEF ChromeAnswered, ConnInv, ChannelInv, Moving
<1>2. \A r \in InFlight' : r.id \in 1..call'.id
  BY DEF ConnInv, ChannelInv, Moving
<1>3. call'.reply = NotSent => \A r \in InFlight' : r.id # call'.id
  BY DEF ConnInv, ChannelInv, Moving
<1>4. call'.id = call.id
  BY DEF Moving
<1> QED
  BY <1>1, <1>2, <1>3, <1>4 DEF ChannelInv

(* The end of a call, and what leaves the call as it is.                    *)
LEMMA WaitingKeeps ==
  ASSUME ConnInv, HangUp \/ Waits, UNCHANGED <<toChrome, fromChrome>>,
         DOMAIN worker' = DOMAIN worker, worker'.request = worker.request,
         worker'.at = worker.at \/ worker'.at = "initialize"
  PROVE  ConnInv' /\ Moving
<1>1. /\ DOMAIN call' = DOMAIN call /\ call'.id = call.id /\ queue' = queue
      /\ call'.reply = call.reply \/ call'.reply = None
  BY DEF HangUp, Waits, ConnInv, ChannelTypes, NoCall
<1>2. InFlight' = InFlight /\ \A a \in Arriving' : a \in Arriving \/ a = None
  BY <1>1 DEF InFlight, Arriving
<1>3. Moving
  BY <1>1, <1>2, OutcomesDiffer DEF Moving
<1>4. ChannelTypes'
  BY <1>1 DEF ConnInv, ChannelTypes
<1>5. ChannelInv'
  BY <1>1, <1>3, <1>4, OutcomesDiffer, MovingKeeps DEF ConnInv, ChannelInv
<1> QED
  BY <1>3, <1>4, <1>5 DEF ConnInv

(* A reply is kept only by the caller that waits for it.                    *)
LEMMA ReplyIs ==
  ASSUME ChannelTypes, NEW r, NEW answer, Reply(r, answer)
  PROVE  /\ DOMAIN call' = DOMAIN call /\ call'.id = call.id
         /\ call'.reply = call.reply \/ (call'.reply = answer /\ r.id = call.id)
BY DEF Reply, ChannelTypes, NoCall

(* The worker takes a request: it is refused, sent, or lost on the way.     *)
LEMMA TakeKeeps ==
  ASSUME ConnInv, Take
  PROVE  ConnInv' /\ Moving
<1> DEFINE r == Head(queue)
<1> USE DEF ConnInv
<1>1. /\ queue # <<>> /\ queue' = Tail(queue) /\ fromChrome' = fromChrome
      /\ IsSeq(queue) /\ IsSeq(toChrome)
      /\ \/ Reply(r, NotSent) /\ UNCHANGED <<worker, toChrome>>
         \/ UNCHANGED call /\ toChrome' = Sent(r) /\ worker' = [at |-> "awaiting", request |-> r]
         \/ Reply(r, Unknown) /\ worker' = worker /\ toChrome' \in {toChrome, Sent(r)}
  BY DEF Take, ChannelTypes
<1>2. /\ r = queue[1] /\ 1 \in DOMAIN queue /\ r \in InFlight
      /\ \A i \in DOMAIN queue' : i + 1 \in DOMAIN queue /\ queue'[i] = queue[i + 1]
      /\ IsSeq(queue') /\ Len(queue) \in Nat /\ DOMAIN queue = 1..Len(queue)
      /\ Len(queue') = Len(queue) - 1 /\ DOMAIN queue' = 1..Len(queue')
  BY <1>1, TailOf, SequenceIs DEF InFlight
<1> HIDE DEF r
<1>3. toChrome' = toChrome \/ toChrome' = Append(toChrome, r)
  BY <1>1 DEF Sent
<1>4. /\ IsSeq(toChrome')
      /\ \A i \in DOMAIN toChrome' :
           \/ i \in DOMAIN toChrome /\ toChrome'[i] = toChrome[i]
           \/ i = Len(toChrome) + 1 /\ i \notin DOMAIN toChrome /\ toChrome'[i] = r
      /\ Len(toChrome) \in Nat /\ DOMAIN toChrome = 1..Len(toChrome)
  <2>1. CASE toChrome' = toChrome
    BY <1>1, <2>1, SequenceIs
  <2>2. CASE toChrome' = Append(toChrome, r)
    <3>1. IsSeq(toChrome') /\ Len(toChrome') = Len(toChrome) + 1 /\ toChrome'[Len(toChrome) + 1] = r
          /\ \A i \in DOMAIN toChrome : toChrome'[i] = toChrome[i]
      BY <1>1, <2>2, Appended
    <3> QED
      BY <1>1, <3>1, SequenceIs
  <2> QED
    BY <1>3, <2>1, <2>2
<1>5. \A j \in DOMAIN queue' : queue'[j].id \in Nat /\ r.id < queue'[j].id /\ r.id \in Nat
  <2> TAKE j \in DOMAIN queue'
  <2>1. j + 1 \in DOMAIN queue /\ queue'[j] = queue[j + 1] /\ 1 < j + 1
    BY <1>2
  <2> QED
    BY <1>2, <2>1 DEF ChannelInv, ChannelTypes
<1>6. r.id \in Nat /\ \A i \in DOMAIN toChrome : toChrome[i].id < r.id /\ toChrome[i].id \in Nat
  BY <1>2 DEF ChannelInv, ChannelTypes
<1>7. InFlight' \subseteq InFlight
  BY <1>2, <1>4 DEF InFlight
<1>8. \A i, j \in DOMAIN queue' : i < j => queue'[i].id < queue'[j].id
  <2> TAKE i, j \in DOMAIN queue'
  <2>1. i + 1 \in DOMAIN queue /\ j + 1 \in DOMAIN queue /\ (i < j => i + 1 < j + 1)
    BY <1>2
  <2> QED
    BY <1>2, <2>1 DEF ChannelInv
<1>9. \A i, j \in DOMAIN toChrome' : i < j => toChrome'[i].id < toChrome'[j].id
  <2> TAKE i, j \in DOMAIN toChrome'
  <2> SUFFICES ASSUME i < j PROVE toChrome'[i].id < toChrome'[j].id
    OBVIOUS
  <2>1. i \in DOMAIN toChrome
    BY <1>4
  <2> QED
    BY <1>4, <1>6, <2>1 DEF ChannelInv
<1>10. \A i \in DOMAIN toChrome', j \in DOMAIN queue' : toChrome'[i].id < queue'[j].id
  <2> TAKE i \in DOMAIN toChrome', j \in DOMAIN queue'
  <2>1. toChrome'[i].id \in Nat /\ toChrome'[i].id <= r.id
    BY <1>4, <1>6
  <2> QED
    BY <1>5, <1>6, <2>1
<1>11. \A x \in InFlight' : x.id = r.id => toChrome' # toChrome
  <2> SUFFICES ASSUME NEW x \in InFlight', x.id = r.id, toChrome' = toChrome PROVE FALSE
    OBVIOUS
  <2>1. (\E i \in DOMAIN toChrome : x = toChrome[i]) \/ (\E i \in DOMAIN queue' : x = queue'[i])
    BY DEF InFlight
  <2> QED
    BY <1>5, <1>6, <2>1
<1>12. /\ DOMAIN call' = DOMAIN call /\ call'.id = call.id
       /\ \/ call'.reply = call.reply
          \/ call'.reply = NotSent /\ r.id = call.id /\ toChrome' = toChrome
          \/ call'.reply = Unknown
  BY <1>1, ReplyIs DEF r
<1>13. \A a \in Arriving' : a \in Arriving \/ a = Unknown \/ (a = NotSent /\ r.id = call.id)
  BY <1>1, <1>12 DEF Arriving
<1>14. Moving
  BY <1>2, <1>7, <1>12, <1>13, OutcomesDiffer DEF Moving
<1>15. /\ worker'.request.id \in Nat /\ worker'.request.id <= call.id /\ DOMAIN worker' = DOMAIN Idle
       /\ worker'.at = "awaiting" => worker'.request.id # 0
  <2>1. CASE worker' = worker
    BY <2>1 DEF ChannelInv, ChannelTypes
  <2>2. CASE worker' = [at |-> "awaiting", request |-> r]
    BY <1>2, <1>6, <2>2 DEF Idle, ChannelInv
  <2> QED
    BY <1>1, <2>1, <2>2 DEF r
<1>16. ChannelTypes'
  BY <1>1, <1>2, <1>4, <1>5, <1>6, <1>12, <1>15 DEF ChannelTypes
<1>17. call'.reply = NotSent => call.reply = NotSent \/ \A x \in InFlight' : x.id # call.id
  BY <1>11, <1>12, OutcomesDiffer
<1>18. \A i \in DOMAIN fromChrome' :
         /\ fromChrome'[i].id <= call.id /\ fromChrome'[i].answer.outcome \in {"none", "confirmed", "rejected"}
         /\ fromChrome'[i].id = 0 \/ fromChrome'[i].kind = "response"
  BY <1>1 DEF ChannelInv
<1>19. ChannelInv'
  BY <1>8, <1>9, <1>10, <1>14, <1>15, <1>16, <1>17, <1>18, MovingKeeps
<1> QED
  BY <1>14, <1>16, <1>19

(* No request moves; some may be lost, and what Chrome says is received,    *)
(* lost, or joined by an event.                                             *)
LEMMA QuietKeeps ==
  ASSUME ConnInv, queue' = queue, toChrome' \in {toChrome, <<>>}, IsSeq(fromChrome'),
         \A i \in DOMAIN fromChrome' :
           \/ \E j \in DOMAIN fromChrome : fromChrome'[i] = fromChrome[j]
           \/ fromChrome'[i].id = 0 /\ fromChrome'[i].kind \in Kinds /\ fromChrome'[i].answer = None,
         DOMAIN call' = DOMAIN call, call'.id = call.id,
         \/ call'.reply = call.reply \/ call'.reply = Unknown
         \/ \E j \in DOMAIN fromChrome : fromChrome[j].id = call.id /\ call'.reply = fromChrome[j].answer,
         DOMAIN worker' = DOMAIN Idle, worker'.request = worker.request \/ worker'.request.id = 0,
         worker'.at = "awaiting" => worker' = worker
  PROVE  ConnInv' /\ Moving
<1> USE DEF ConnInv
<1>1. IsSeq(toChrome') /\ \A i \in DOMAIN toChrome' : i \in DOMAIN toChrome /\ toChrome'[i] = toChrome[i]
  BY Singles DEF ChannelTypes
<1>2. InFlight' \subseteq InFlight
  BY <1>1 DEF InFlight
<1>3. \A i \in DOMAIN fromChrome' :
        /\ fromChrome'[i].id \in Nat /\ fromChrome'[i].kind \in Kinds /\ fromChrome'[i].id <= call.id
        /\ fromChrome'[i].answer.outcome \in {"none", "confirmed", "rejected"}
        /\ fromChrome'[i].id = 0 \/ fromChrome'[i].kind = "response"
  <2> TAKE i \in DOMAIN fromChrome'
  <2>1. CASE \E j \in DOMAIN fromChrome : fromChrome'[i] = fromChrome[j]
    BY <2>1 DEF ChannelTypes, ChannelInv
  <2>2. CASE fromChrome'[i].id = 0 /\ fromChrome'[i].kind \in Kinds /\ fromChrome'[i].answer = None
    BY <2>2, OutcomesDiffer DEF ChannelTypes
  <2> QED
    BY <2>1, <2>2
<1>4. \A a \in Arriving' : a \in Arriving \/ a = None \/ a = Unknown
  <2> TAKE a \in Arriving'
  <2>1. CASE a = call'.reply
    BY <2>1 DEF Arriving
  <2>2. CASE \E i \in DOMAIN fromChrome' : fromChrome'[i].id = call.id /\ a = fromChrome'[i].answer
    BY <2>2 DEF Arriving
  <2> QED
    BY <2>1, <2>2 DEF Arriving
<1>5. Moving
  BY <1>2, <1>4, OutcomesDiffer DEF Moving
<1>6. worker'.request.id \in Nat /\ worker'.request.id <= call.id /\ (worker'.at = "awaiting" => worker'.request.id # 0)
  BY DEF ChannelTypes, ChannelInv
<1>7. ChannelTypes'
  BY <1>1, <1>3, <1>6 DEF ChannelTypes
<1>8. call'.reply = NotSent => call.reply = NotSent
  BY OutcomesDiffer DEF ChannelInv
<1>9. /\ \A i, j \in DOMAIN queue' : i < j => queue'[i].id < queue'[j].id
      /\ \A i, j \in DOMAIN toChrome' : i < j => toChrome'[i].id < toChrome'[j].id
      /\ \A i \in DOMAIN toChrome', j \in DOMAIN queue' : toChrome'[i].id < queue'[j].id
  BY <1>1 DEF ChannelInv
<1>10. ChannelInv'
  BY <1>3, <1>5, <1>6, <1>7, <1>8, <1>9, MovingKeeps
<1> QED
  BY <1>5, <1>7, <1>10

(* What the page does by itself, as far as the connection can tell.         *)
LEMMA MovesAre ==
  ASSUME DomChanges \/ Repaints \/ OpensPopup \/ StartsLoading \/ FinishesLoading
  PROVE  /\ UNCHANGED <<call, queue, worker, toChrome, broken, journal, effects, proc>>
         /\ \E events : IsSeq(events) /\ Emit(events)
              /\ \A j \in DOMAIN events : \E kind \in Kinds : events[j] = Event(kind)
<1>1. \A p, events : Moves(p, events) \/ PageMoves(p, events) =>
        UNCHANGED <<call, queue, worker, toChrome, broken, journal, effects, proc>> /\ Emit(events)
  BY DEF Moves, PageMoves
<1> DEFINE Fine(events) == IsSeq(events) /\ \A j \in DOMAIN events : \E kind \in Kinds : events[j] = Event(kind)
<1>2. Fine(<<>>) /\ \A kind \in Kinds : Fine(<<Event(kind)>>)
  <2>1. Fine(<<>>)
    BY Singles
  <2>2. ASSUME NEW kind \in Kinds PROVE Fine(<<Event(kind)>>)
    <3> DEFINE e == Event(kind)
    <3>1. e = Event(kind)
      OBVIOUS
    <3> HIDE DEF e
    <3>2. IsSeq(<<e>>) /\ DOMAIN <<e>> = {1} /\ <<e>>[1] = e
      BY Singles
    <3> QED
      BY <3>1, <3>2
  <2> QED
    BY <2>1, <2>2
<1>3. Fine(<<Event("navigated"), Event("stopped")>>)
  <2> DEFINE e == Event("navigated")
             f == Event("stopped")
  <2>1. (\E kind \in Kinds : e = Event(kind)) /\ \E kind \in Kinds : f = Event(kind)
    BY DEF Kinds
  <2> HIDE DEF e, f
  <2>2. IsSeq(<<e, f>>) /\ DOMAIN <<e, f>> = {1, 2} /\ <<e, f>>[1] = e /\ <<e, f>>[2] = f
    BY Singles
  <2>3. Fine(<<e, f>>)
    BY <2>1, <2>2
  <2> QED
    BY <2>3 DEF e, f
<1>4. Fine(Mutation("changed"))
  BY <1>2 DEF Mutation, Kinds
<1>5. {"popup", "started", "changed"} \subseteq Kinds
  BY DEF Kinds
<1> HIDE DEF Fine
<1>6. \E events : Fine(events) /\ \E p : Moves(p, events) \/ PageMoves(p, events)
  BY <1>2, <1>3, <1>4, <1>5 DEF DomChanges, Repaints, OpensPopup, StartsLoading, FinishesLoading
<1> QED
  BY <1>1, <1>6 DEF Fine

Drift == DomChanges \/ Repaints \/ OpensPopup \/ StartsLoading \/ FinishesLoading
Fails == Breaks \/ Hangs \/ Exits \/ Kill
Serves == Initialize \/ AwaitResponse \/ AbandonResponse \/ PollIncoming \/ Disconnect \/ Expire

(* So do the page by itself, and what fails.                                *)
LEMMA DriftKeeps ==
  ASSUME ConnInv, Drift \/ Fails
  PROVE  ConnInv' /\ Moving
<1>0. ChannelTypes /\ IsSeq(fromChrome) /\ DOMAIN worker = DOMAIN Idle
  BY DEF ConnInv, ChannelTypes
<1>1. CASE Drift
  <2>1. UNCHANGED <<call, queue, worker, toChrome>>
    BY <1>1, MovesAre DEF Drift
  <2>2. PICK events : IsSeq(events) /\ Emit(events) /\ \A j \in DOMAIN events : \E kind \in Kinds : events[j] = Event(kind)
    BY <1>1, MovesAre DEF Drift
  <2>3. \A kind : Event(kind).id = 0 /\ Event(kind).kind = kind /\ Event(kind).answer = None
    BY DEF Event
  <2>4. /\ IsSeq(fromChrome')
        /\ \A i \in DOMAIN fromChrome' :
             \/ \E j \in DOMAIN fromChrome : fromChrome'[i] = fromChrome[j]
             \/ fromChrome'[i].id = 0 /\ fromChrome'[i].kind \in Kinds /\ fromChrome'[i].answer = None
    BY <1>0, <2>2, <2>3, EmitIs
  <2> QED
    BY <1>0, <2>1, <2>4, QuietKeeps
<1>2. CASE Fails
  <2>1. /\ UNCHANGED <<call, queue, worker>> /\ toChrome' \in {toChrome, <<>>}
        /\ fromChrome' \in {fromChrome, <<>>}
    BY <1>2 DEF Fails, Breaks, Hangs, Exits, Kill
  <2>2. IsSeq(fromChrome') /\ \A i \in DOMAIN fromChrome' : \E j \in DOMAIN fromChrome : fromChrome'[i] = fromChrome[j]
    BY <1>0, <2>1, Singles
  <2> QED
    BY <1>0, <2>1, <2>2, QuietKeeps
<1> QED
  BY <1>1, <1>2

(* What the worker receives.                                                *)
Receives ==
  /\ fromChrome # <<>> /\ fromChrome' = Tail(fromChrome)
  /\ \/ journal' \in Recorded(Head(fromChrome).kind)
     \/ journal' = journal /\ Head(fromChrome).id # 0
  /\ \/ call' = call
     \/ /\ call'.reply = Head(fromChrome).answer /\ Head(fromChrome).id = call.id /\ journal' = journal
        /\ call'.id = call.id /\ DOMAIN call' = DOMAIN call

(* What the worker and a passing deadline do beside the taking of a         *)
(* request.                                                                 *)
LEMMA ServesIs ==
  ASSUME ConnInv, Serves
  PROVE  /\ UNCHANGED <<queue, toChrome, broken>>
         /\ \/ Receives
            \/ /\ UNCHANGED <<fromChrome, journal>> /\ call'.id = call.id /\ DOMAIN call' = DOMAIN call
               /\ call'.reply = call.reply \/ call'.reply = Unknown
         /\ DOMAIN worker' = DOMAIN Idle /\ (worker'.request = worker.request \/ worker'.request.id = 0)
         /\ worker'.at = "awaiting" => worker' = worker
<1>0. ChannelTypes /\ DOMAIN worker = DOMAIN Idle /\ (worker.at = "awaiting" => worker.request.id # 0)
  BY DEF ConnInv, ChannelTypes, ChannelInv
<1>1. Idle.request.id = 0 /\ Idle.at = "idle" /\ DOMAIN [Idle EXCEPT !.at = "stopped"] = DOMAIN Idle
      /\ [Idle EXCEPT !.at = "stopped"].request = Idle.request /\ [Idle EXCEPT !.at = "stopped"].at = "stopped"
  BY DEF Idle
<1>2. CASE Initialize
  BY <1>0, <1>1, <1>2 DEF Initialize
<1>3. CASE AwaitResponse
  <2> DEFINE m == Head(fromChrome)
  <2>1. /\ worker.at = "awaiting" /\ fromChrome # <<>> /\ fromChrome' = Tail(fromChrome)
        /\ UNCHANGED <<queue, toChrome, broken>>
        /\ \/ m.id = worker.request.id /\ Reply(worker.request, m.answer) /\ worker' = Idle /\ journal' = journal
           \/ m.id = 0 /\ journal' \in Recorded(m.kind) /\ UNCHANGED <<call, worker>>
           \/ m.id # 0 /\ UNCHANGED <<call, worker, journal>>
    BY <1>3 DEF AwaitResponse
  <2>2. Receives
    <3>1. CASE m.id = worker.request.id /\ Reply(worker.request, m.answer) /\ worker' = Idle /\ journal' = journal
      BY <1>0, <2>1, <3>1 DEF Reply, Receives, ChannelTypes, NoCall
    <3>2. CASE ~(m.id = worker.request.id /\ Reply(worker.request, m.answer) /\ worker' = Idle /\ journal' = journal)
      BY <2>1, <3>2 DEF Receives
    <3> QED
      BY <3>1, <3>2
  <2> QED
    BY <1>0, <1>1, <2>1, <2>2
<1>4. CASE AbandonResponse
  BY <1>0, <1>1, <1>4, ReplyIs DEF AbandonResponse
<1>5. CASE PollIncoming
  BY <1>0, <1>5 DEF PollIncoming, Receives
<1>6. CASE Disconnect
  BY <1>0, <1>1, <1>6 DEF Disconnect
<1>7. CASE Expire
  BY <1>0, <1>7 DEF Expire, ChannelTypes, NoCall
<1> QED
  BY <1>2, <1>3, <1>4, <1>5, <1>6, <1>7 DEF Serves

(* The worker keeps the order of the channels.                              *)
LEMMA ServesKeeps ==
  ASSUME ConnInv, Serves
  PROVE  ConnInv' /\ Moving
<1>0. ChannelTypes /\ IsSeq(fromChrome)
  BY DEF ConnInv, ChannelTypes
<1>1. CASE Receives
  <2>1. /\ IsSeq(fromChrome') /\ 1 \in DOMAIN fromChrome /\ Head(fromChrome) = fromChrome[1]
        /\ \A i \in DOMAIN fromChrome' : \E j \in DOMAIN fromChrome : fromChrome'[i] = fromChrome[j]
    BY <1>0, <1>1, TailOf DEF Receives
  <2>2. /\ DOMAIN call' = DOMAIN call /\ call'.id = call.id
        /\ \/ call'.reply = call.reply
           \/ \E j \in DOMAIN fromChrome : fromChrome[j].id = call.id /\ call'.reply = fromChrome[j].answer
    BY <1>1, <2>1 DEF Receives
  <2> QED
    BY <1>0, <2>1, <2>2, ServesIs, QuietKeeps
<1>2. CASE UNCHANGED <<fromChrome, journal>> /\ call'.id = call.id /\ DOMAIN call' = DOMAIN call
           /\ (call'.reply = call.reply \/ call'.reply = Unknown)
  BY <1>0, <1>2, ServesIs, QuietKeeps
<1> QED
  BY <1>1, <1>2, ServesIs

(* Chrome takes the first request it has, and only that.  Once it answered  *)
(* the latest, nothing is on its way to it any more.                        *)
LEMMA HandlesKeeps ==
  ASSUME ConnInv, PageTypes, ChromeHandles
  PROVE  LET r == Head(toChrome) IN
         /\ ConnInv'
         /\ r \in InFlight /\ InFlight' = InFlight \ {r}
         /\ \A x \in InFlight' : x.id # r.id
         /\ call' = call
         /\ \A i \in DOMAIN fromChrome : i \in DOMAIN fromChrome' /\ fromChrome'[i] = fromChrome[i]
         /\ r.id # call.id => \A a \in Arriving' : a \in Arriving \/ a.outcome = "none"
         /\ ~ChromeAnswered
<1> DEFINE r == Head(toChrome)
<1> USE DEF ConnInv
<1>1. /\ toChrome # <<>> /\ toChrome' = Tail(toChrome) /\ Answering(r)
      /\ UNCHANGED <<call, queue, worker, broken, journal, proc>>
  BY HandlesIs
<1>2. /\ IsSeq(toChrome) /\ IsSeq(toChrome') /\ r = toChrome[1] /\ 1 \in DOMAIN toChrome
      /\ DOMAIN toChrome = 1..Len(toChrome) /\ Len(toChrome) \in Nat /\ DOMAIN toChrome' = 1..(Len(toChrome) - 1)
      /\ \A i \in DOMAIN toChrome' : i + 1 \in DOMAIN toChrome /\ toChrome'[i] = toChrome[i + 1]
      /\ \A i \in DOMAIN toChrome : i = 1 \/ (i - 1 \in DOMAIN toChrome' /\ toChrome'[i - 1] = toChrome[i])
  BY <1>1, TailOf, SequenceIs DEF ChannelTypes
<1> HIDE DEF r
<1>3. r \in InFlight /\ r.id \in Nat /\ r.id \in 1..call.id
  BY <1>2 DEF InFlight, ChannelTypes, ChannelInv
<1>4. \A i \in DOMAIN toChrome' : toChrome'[i].id \in Nat /\ r.id < toChrome'[i].id
  <2> TAKE i \in DOMAIN toChrome'
  <2>1. i + 1 \in DOMAIN toChrome /\ toChrome'[i] = toChrome[i + 1] /\ 1 < i + 1
    BY <1>2
  <2> QED
    BY <1>2, <2>1 DEF ChannelTypes, ChannelInv
<1>5. \A i \in DOMAIN queue : queue[i].id \in Nat /\ r.id < queue[i].id
  BY <1>2 DEF ChannelTypes, ChannelInv
<1>6. \A x \in InFlight' : x.id \in Nat /\ r.id < x.id
  BY <1>1, <1>4, <1>5 DEF InFlight
<1>7. InFlight' = InFlight \ {r}
  <2>1. \A x \in InFlight' : x \in InFlight /\ x # r
    BY <1>1, <1>2, <1>3, <1>6 DEF InFlight
  <2>2. \A x \in InFlight : x = r \/ x \in InFlight'
    BY <1>1, <1>2 DEF InFlight
  <2> QED
    BY <2>1, <2>2
<1>8. /\ IsSeq(fromChrome')
      /\ \A i \in DOMAIN fromChrome : i \in DOMAIN fromChrome' /\ fromChrome'[i] = fromChrome[i]
      /\ \A i \in DOMAIN fromChrome' : i \notin DOMAIN fromChrome =>
              \/ fromChrome'[i].id = 0 /\ fromChrome'[i].kind \in {"started", "mask", "changed"}
                   /\ fromChrome'[i].answer = None
              \/ fromChrome'[i].id = r.id /\ fromChrome'[i].kind = "response"
                   /\ fromChrome'[i].answer.outcome \in {"confirmed", "rejected"}
  BY <1>1, AnsweringIs DEF ChannelTypes
<1>9. \A i \in DOMAIN fromChrome' :
        /\ fromChrome'[i].id \in Nat /\ fromChrome'[i].kind \in Kinds
        /\ fromChrome'[i].id <= call.id /\ fromChrome'[i].answer.outcome \in {"none", "confirmed", "rejected"}
        /\ fromChrome'[i].id = 0 \/ fromChrome'[i].kind = "response"
  <2> TAKE i \in DOMAIN fromChrome'
  <2>1. CASE i \in DOMAIN fromChrome
    BY <1>8, <2>1 DEF ChannelTypes, ChannelInv
  <2>2. CASE i \notin DOMAIN fromChrome
    <3>1. {"started", "mask", "changed", "response"} \subseteq Kinds
      BY DEF Kinds
    <3> QED
      BY <1>3, <1>8, <2>2, <3>1, OutcomesDiffer DEF ChannelTypes
  <2> QED
    BY <2>1, <2>2
<1>10. ChannelTypes'
  BY <1>1, <1>2, <1>4, <1>8, <1>9 DEF ChannelTypes
<1>11. r.id # call.id => \A a \in Arriving' : a \in Arriving \/ a.outcome = "none"
  <2> SUFFICES ASSUME r.id # call.id, NEW a \in Arriving' PROVE a \in Arriving \/ a.outcome = "none"
    OBVIOUS
  <2>1. CASE a = call.reply
    BY <2>1 DEF Arriving
  <2>2. CASE \E i \in DOMAIN fromChrome' : fromChrome'[i].id = call.id /\ a = fromChrome'[i].answer
    <3>1. PICK i \in DOMAIN fromChrome' : fromChrome'[i].id = call.id /\ a = fromChrome'[i].answer
      BY <2>2
    <3>2. CASE i \in DOMAIN fromChrome
      BY <1>8, <3>1, <3>2 DEF Arriving
    <3>3. CASE i \notin DOMAIN fromChrome
      BY <1>8, <3>1, <3>3, OutcomesDiffer
    <3> QED
      BY <3>2, <3>3
  <2> QED
    BY <1>1, <2>1, <2>2 DEF Arriving
<1>12. r.id = call.id => InFlight' = {}
  BY <1>1, <1>6, <1>7, <1>3 DEF ChannelInv
<1>13. ~ChromeAnswered
  BY <1>3 DEF ChannelInv
<1>14. ChromeAnswered' => InFlight' = {}
  BY <1>11, <1>12, <1>13 DEF ChromeAnswered
<1>15. ChannelInv'
  <2>1. \A i, j \in DOMAIN toChrome' : i < j => toChrome'[i].id < toChrome'[j].id
    <3> TAKE i, j \in DOMAIN toChrome'
    <3>1. i + 1 \in DOMAIN toChrome /\ j + 1 \in DOMAIN toChrome /\ (i < j => i + 1 < j + 1)
      BY <1>2
    <3> QED
      BY <1>2, <3>1 DEF ChannelInv
  <2>2. \A i \in DOMAIN toChrome', j \in DOMAIN queue' : toChrome'[i].id < queue'[j].id
    BY <1>1, <1>2 DEF ChannelInv
  <2>3. \A x \in InFlight' : x.id \in 1..call'.id /\ (call'.reply = NotSent => x.id # call'.id)
    BY <1>1, <1>7 DEF ChannelInv
  <2> QED
    BY <1>1, <1>9, <1>14, <2>1, <2>2, <2>3 DEF ChannelInv
<1> QED
  BY <1>1, <1>3, <1>6, <1>7, <1>8, <1>10, <1>11, <1>13, <1>15 DEF r

BaseInv == ConnInv /\ PageTypes /\ JournalTypes /\ JournalInv /\ OpTypes

Bystanding == UNCHANGED <<op, results, captured>> /\ life'.at = life.at
Elsewhere ==
  /\ Bystanding
  /\ Drift \/ Fails \/ ChromeHandles \/ ((Take \/ Serves) /\ UNCHANGED <<page, effects>>)

(* Every step is the caller's, one of the browser's life, its closing, or   *)
(* none of the thread's.                                                    *)
LEMMA NextIs ==
  ASSUME [Next]_vars
  PROVE  CallerSteps \/ LifeSteps \/ Close \/ Elsewhere
<1> USE DEF Elsewhere, Bystanding
<1>1. CASE Thread
  <2>1. CASE Kill
    BY <2>1 DEF Kill, Step, Fails
  <2> QED
    BY <1>1, <2>1 DEF Thread, CallerSteps, LifeSteps
<1>2. CASE Requests
  BY <1>2 DEF Requests, CallerSteps
<1>3. CASE (Worker \/ Expire) /\ UNCHANGED chrome /\ Session
  <2>1. CASE Take
    BY <2>1, <1>3 DEF Session, chrome
  <2>2. CASE ~Take
    BY <2>2, <1>3 DEF Worker, Serves, Session, chrome
  <2> QED
    BY <2>1, <2>2
<1>4. CASE Chrome /\ Session
  BY <1>4 DEF Chrome, Drift, Fails, Session
<1>5. CASE Exits /\ UNCHANGED <<life, profile, cleanup, op, results, captured>>
  BY <1>5 DEF Fails
<1>6. CASE UNCHANGED vars
  BY <1>6 DEF LifeSteps
<1> QED
  BY <1>1, <1>2, <1>3, <1>4, <1>5, <1>6 DEF Next

(* The steps of the browser's life are about its process and profile.       *)
LEMMA LifeStepsAre ==
  ASSUME LifeSteps
  PROVE  UNCHANGED <<transport, page, effects, op, results, captured>>
BY DEF LifeSteps, Prepare, Spawn, AwaitReady, TryWait, Signal, AwaitExit, RemoveProfile, Still, vars, chrome

(* The operation of a step that goes on with it, and its place.            *)
LEMMA OperationIs ==
  ASSUME JournalTypes
  PROVE  /\ DOMAIN NoOp = DOMAIN NoOp /\ NoOp.at = 0 /\ NoOp.fence = 0 /\ NoOp.cursor = 0
         /\ NoOp.kind = "none" /\ NoOp.phase = "none" /\ ~NoOp.renewed
         /\ \A kind, phase :
              LET o == Operation(kind, phase) IN
              /\ DOMAIN o = DOMAIN NoOp /\ o.kind = kind /\ o.phase = phase /\ o.at = 1
              /\ o.fence = journal.cursor /\ o.cursor = journal.cursor
BY DEF NoOp, Operation, JournalTypes

Op(o) == DOMAIN o = DOMAIN NoOp /\ o.at \in Nat /\ o.fence \in Nat /\ o.cursor \in Nat

(* What an operation is after it went on or ended.                          *)
LEMMA OpsAre ==
  ASSUME OpTypes, JournalTypes
  PROVE  /\ \A o, m : Op(o) /\ GoOn(o, m) => OpTypes'
         /\ \A result : Finish(result) => OpTypes'
         /\ Fail => OpTypes'
<1>1. Op(NoOp)
  BY OperationIs DEF Op
<1>2. \A o, m : Op(o) /\ GoOn(o, m) => OpTypes'
  BY DEF Op, GoOn, OpTypes
<1>3. \A result : Finish(result) => OpTypes'
  <2> SUFFICES ASSUME NEW result, Finish(result) PROVE OpTypes'
    OBVIOUS
  <2>1. IsSeq(results')
    BY Appended DEF OpTypes, Finish
  <2> QED
    BY <1>1, <2>1 DEF OpTypes, Op, Finish
<1> QED
  BY <1>2, <1>3 DEF Fail

(* An operation stays one.                                                  *)
LEMMA CallerOps ==
  ASSUME OpTypes, JournalTypes, CallerSteps
  PROVE  OpTypes'
<1>0. journal.cursor \in Nat /\ Op(op) /\ Op(NoOp) /\ \A kind, phase : Op(Operation(kind, phase))
  BY OperationIs DEF JournalTypes, OpTypes, Op
<1>1. CASE Navigate
  BY <1>0, <1>1, OpsAre DEF Navigate
<1>2. CASE Cancel
  BY <1>2 DEF Cancel, OpTypes, NoOp
<1>3. CASE \E kind \in Captures : Capture(kind)
  BY <1>0, <1>3, OpsAre DEF Capture
<1>4. CASE \E kind \in Operations : Perform(kind)
  BY <1>0, <1>4, OpsAre DEF Perform
<1>5. CASE CommitAnswered
  <2>1. Op([op EXCEPT !.phase = "document"])
    BY <1>0 DEF Op, NoOp
  <2> QED
    BY <1>5, <2>1, OpsAre DEF CommitAnswered
<1>6. CASE DocumentAnswered
  <2>1. Op([op EXCEPT !.phase = "width"])
    BY <1>0 DEF Op, NoOp
  <2>2. \A quiet : Op([op EXCEPT !.quiet = quiet, !.cursor = journal.cursor, !.polls = @ + 1])
    BY <1>0 DEF Op, NoOp
  <2> QED
    BY <1>6, <2>1, <2>2, OpsAre DEF DocumentAnswered
<1>7. CASE WidthAnswered
  BY <1>7, OpsAre DEF WidthAnswered
<1>8. ASSUME NEW verdict, NEW seen PROVE CleanUp(verdict, seen) => OpTypes'
  <2>1. \A at \in {1, 2} : Op([op EXCEPT !.phase = "cleanup", !.at = at, !.verdict = verdict, !.seen = seen])
    BY <1>0 DEF Op, NoOp
  <2> QED
    BY <2>1, OpsAre DEF CleanUp
<1>9. CASE CaptureAnswered
  <2>1. \A b : Op([[op EXCEPT !.at = @ + 1] EXCEPT !.fence = journal.cursor, !.renewed = b])
    BY <1>0 DEF Op, NoOp
  <2>2. Op([op EXCEPT !.at = @ + 1])
    BY <1>0 DEF Op, NoOp
  <2>3. \A seen : Op([[op EXCEPT !.at = @ + 1] EXCEPT !.seen = seen])
    BY <1>0 DEF Op, NoOp
  <2> QED
    BY <1>8, <1>9, <2>1, <2>2, <2>3, OpsAre DEF CaptureAnswered, Judge
<1>10. CASE CleanupAnswered
  <2>1. Op([op EXCEPT !.at = @ + 1]) /\ Op([op EXCEPT !.phase = "withheld"])
    BY <1>0 DEF Op, NoOp
  <2>2. \A attempt : Op([Operation(op.kind, "capture") EXCEPT !.attempt = attempt])
    BY <1>0 DEF Op, NoOp
  <2>3. ASSUME NEW x, results' = Append(results, x), op' = NoOp PROVE OpTypes'
    <3>1. IsSeq(results')
      BY <2>3, Appended DEF OpTypes
    <3> QED
      BY <1>0, <2>3, <3>1 DEF Op, OpTypes
  <2> QED
    BY <1>10, <2>1, <2>2, <2>3, OpsAre DEF CleanupAnswered
<1>11. CASE WithheldAnswered
  BY <1>11, OpsAre DEF WithheldAnswered
<1>12. CASE InputAnswered
  <2>1. Op([op EXCEPT !.at = @ + 1]) /\ Op([op EXCEPT !.phase = "settle"])
    BY <1>0 DEF Op, NoOp
  <2>2. op' = [op EXCEPT !.phase = "settle"] /\ results' = results => OpTypes'
    BY <2>1 DEF Op, OpTypes
  <2> QED
    BY <1>12, <2>1, <2>2, OpsAre DEF InputAnswered
<1>13. CASE SettleInput
  <2>1. op' = [op EXCEPT !.phase = "loading"] /\ results' = results => OpTypes'
    BY <1>0 DEF Op, OpTypes, NoOp
  <2> QED
    BY <1>13, <2>1, OpsAre DEF SettleInput
<1>14. CASE AwaitLoading
  <2>1. Op([op EXCEPT !.phase = "document", !.cursor = op.fence, !.cancelled = FALSE])
    BY <1>0 DEF Op, NoOp
  <2> QED
    BY <1>14, <2>1, OpsAre DEF AwaitLoading
<1>15. CASE ConnectClient
  <2>1. results' = results /\ (op' = op \/ op' = Operation("launch", "setup"))
    BY <1>15 DEF ConnectClient
  <2>2. Op(op')
    BY <1>0, <2>1
  <2> QED
    BY <2>1, <2>2 DEF Op, OpTypes
<1>16. CASE SetupAnswered
  <2>1. Op([op EXCEPT !.at = @ + 1])
    BY <1>0 DEF Op, NoOp
  <2>2. op' = NoOp /\ results' = results => OpTypes'
    BY <1>0 DEF Op, OpTypes
  <2> QED
    BY <1>16, <2>1, <2>2, OpsAre DEF SetupAnswered
<1> QED
  BY <1>1, <1>2, <1>3, <1>4, <1>5, <1>6, <1>7, <1>9, <1>10, <1>11, <1>12, <1>13, <1>14, <1>15, <1>16
  DEF CallerSteps

(* The page stays one.                                                      *)
LEMMA PageKept ==
  ASSUME BaseInv, CallerSteps \/ LifeSteps \/ Close \/ Elsewhere
  PROVE  PageTypes'
<1> USE DEF BaseInv
<1>1. CASE CallerSteps \/ LifeSteps
  <2>1. effects' = effects /\ (page' = page \/ page' = [page EXCEPT !.text = "previous"])
    BY <1>1, CallerFrames DEF CallerFrame, ConnInv
  <2> QED
    BY <2>1 DEF PageTypes, NewPage
<1>2. CASE Close
  BY <1>2 DEF Close, PageTypes, chrome
<1>3. CASE Elsewhere
  <2>1. CASE Drift
    <3>1. effects' = effects
      BY <2>1, MovesAre DEF Drift
    <3>2. DOMAIN page' = DOMAIN page /\ page'.version \in {page.version, page.version + 1}
          /\ page'.paint \in {page.paint, page.paint + 1}
      <4>1. CASE DomChanges
        BY <4>1 DEF DomChanges, Moves, PageMoves, PageTypes, NewPage
      <4>2. CASE Repaints
        BY <4>2 DEF Repaints, Moves, PageMoves, PageTypes, NewPage
      <4>3. CASE OpensPopup
        BY <4>3 DEF OpensPopup, Moves, PageMoves, PageTypes, NewPage
      <4>4. CASE StartsLoading
        BY <4>4 DEF StartsLoading, Moves, PageMoves, PageTypes, NewPage
      <4>5. CASE FinishesLoading
        BY <4>5 DEF FinishesLoading, PageMoves, PageTypes, NewPage
      <4> QED
        BY <2>1, <4>1, <4>2, <4>3, <4>4, <4>5 DEF Drift
    <3> QED
      BY <3>1, <3>2 DEF PageTypes
  <2>2. CASE Fails
    BY <2>2 DEF Fails, Breaks, Hangs, Exits, Kill, PageTypes, chrome
  <2>3. CASE ChromeHandles
    BY <2>3, HandlesIs DEF ConnInv
  <2>4. CASE UNCHANGED <<page, effects>>
    BY <2>4 DEF PageTypes
  <2> QED
    BY <1>3, <2>1, <2>2, <2>3, <2>4 DEF Elsewhere
<1> QED
  BY <1>1, <1>2, <1>3

(* A connection that is discarded leaves nothing behind.                    *)
LEMMA ClosedIs ==
  ASSUME BaseInv, Close
  PROVE  /\ ConnInv' /\ JournalTypes' /\ JournalInv' /\ InFlight' = {} /\ Arriving' = {None}
         /\ UNCHANGED <<page, effects, op, results, captured>> /\ op = NoOp /\ life'.at = "closing"
         /\ fromChrome' = <<>>
<1>1. /\ call' = NoCall /\ queue' = <<>> /\ worker' = Unconnected /\ toChrome' = <<>> /\ fromChrome' = <<>>
      /\ journal' = NewJournal /\ UNCHANGED <<page, effects, op, results, captured>> /\ op = NoOp
      /\ life'.at = "closing"
  BY DEF Close, Discard, chrome, Free, Terminating
<1>2. /\ DOMAIN call' = DOMAIN NoCall /\ call'.id = 0 /\ call'.reply = None
      /\ DOMAIN worker' = DOMAIN Idle /\ worker'.request.id = 0 /\ worker'.at = "unconnected"
  BY <1>1 DEF NoCall, Unconnected, Idle
<1>3. IsSeq(queue') /\ IsSeq(toChrome') /\ IsSeq(fromChrome')
      /\ DOMAIN queue' = {} /\ DOMAIN toChrome' = {} /\ DOMAIN fromChrome' = {}
  BY <1>1, Singles
<1>4. InFlight' = {} /\ Arriving' = {None}
  BY <1>2, <1>3 DEF InFlight, Arriving
<1>5. ConnInv'
  BY <1>2, <1>3, <1>4, OutcomesDiffer DEF ConnInv, ChannelTypes, ChannelInv, ChromeAnswered
<1>6. /\ journal'.cursor = 0 /\ journal'.dropped = 0 /\ journal'.events = <<>>
      /\ journal'.arrived = [k \in Kinds |-> 0]
  BY <1>1 DEF NewJournal
<1>7. IsSeq(journal'.events) /\ DOMAIN journal'.events = {} /\ Len(journal'.events) = 0
  BY <1>6, Singles
<1>8. JournalTypes' /\ JournalInv'
  BY <1>6, <1>7 DEF JournalTypes, JournalInv
<1> QED
  BY <1>1, <1>4, <1>5, <1>8

(* What steps elsewhere do to the connection.                               *)
LEMMA ElsewhereIs ==
  ASSUME BaseInv, Elsewhere
  PROVE  /\ ConnInv' /\ JournalTypes' /\ JournalInv'
         /\ ChromeHandles \/ Moving
<1> USE DEF BaseInv
<1>1. CASE Serves
  <2>1. ConnInv' /\ Moving
    BY <1>1, ServesKeeps
  <2>2. JournalTypes' /\ JournalInv'
    <3>1. CASE journal' = journal
      BY <3>1 DEF JournalTypes, JournalInv
    <3>2. CASE journal' \in Recorded(Head(fromChrome).kind) /\ fromChrome # <<>>
      <4>1. Head(fromChrome).kind \in Kinds
        BY <3>2, TailOf DEF ConnInv, ChannelTypes
      <4>2. journal' \in Recorded(Head(fromChrome).kind)
        BY <3>2
      <4> DEFINE j == journal'
      <4>3. /\ j.cursor = journal.cursor + 1 /\ j.dropped \in Nat /\ IsSeq(j.events)
            /\ \A i \in DOMAIN j.events : j.events[i].kind \in Kinds
            /\ j.arrived \in [Kinds -> Nat]
            /\ \A k \in Kinds : j.arrived[k] = IF k = Head(fromChrome).kind THEN journal.cursor + 1 ELSE journal.arrived[k]
            /\ j.cursor = j.dropped + Len(j.events)
            /\ \A i \in DOMAIN j.events :
                 /\ j.events[i].cursor = j.dropped + i
                 /\ j.events[i].cursor <= j.arrived[j.events[i].kind]
            /\ \A k \in Kinds : j.arrived[k] > j.dropped => j.events[j.arrived[k] - j.dropped].kind = k
        BY <4>1, <4>2, RecordedIs
      <4>4. journal.cursor \in Nat /\ \A k \in Kinds : journal.arrived[k] \in Nat /\ journal.arrived[k] <= journal.cursor
        BY DEF JournalTypes, JournalInv
      <4>5. \A k \in Kinds : j.arrived[k] <= j.cursor
        BY <4>3, <4>4
      <4>6. JournalTypes'
        BY <4>3, <4>4 DEF JournalTypes
      <4> QED
        BY <4>3, <4>5, <4>6 DEF JournalInv
    <3> QED
      BY <1>1, <3>1, <3>2, ServesIs DEF Receives
  <2> QED
    BY <2>1, <2>2
<1>2. CASE Drift \/ Fails
  <2>1. journal' = journal
    BY <1>2, MovesAre DEF Drift, Fails, Breaks, Hangs, Exits, Kill
  <2> QED
    BY <1>2, <2>1, DriftKeeps DEF JournalTypes, JournalInv
<1>3. CASE ChromeHandles
  BY <1>3, HandlesKeeps, HandlesIs DEF JournalTypes, JournalInv, ConnInv
<1>4. CASE Take
  BY <1>4, TakeKeeps DEF Take, JournalTypes, JournalInv
<1> QED
  BY <1>1, <1>2, <1>3, <1>4 DEF Elsewhere

(* The caller keeps the connection and the journal right.                   *)
LEMMA CallerKeeps ==
  ASSUME BaseInv, CallerSteps \/ LifeSteps
  PROVE  ConnInv' /\ JournalTypes' /\ JournalInv'
<1>1. CallerFrame
  BY CallerFrames DEF BaseInv, ConnInv
<1>2. ConnInv'
  <2>1. CASE Issued
    BY <1>1, <2>1, IssuedKeeps DEF CallerFrame, Issued, BaseInv
  <2>2. CASE HangUp \/ Waits
    BY <1>1, <2>2, WaitingKeeps DEF CallerFrame, BaseInv
  <2> QED
    BY <1>1, <2>1, <2>2 DEF CallerFrame, CallStep
<1>3. journal' = journal
  BY <1>1 DEF CallerFrame
<1> QED
  BY <1>2, <1>3 DEF BaseInv, JournalTypes, JournalInv

(* Types, journal and channels are right after every step.                  *)
LEMMA BaseInductive == BaseInv /\ [Next]_vars => BaseInv'
<1> SUFFICES ASSUME BaseInv, [Next]_vars PROVE BaseInv'
  OBVIOUS
<1>1. CallerSteps \/ LifeSteps \/ Close \/ Elsewhere
  BY NextIs
<1>2. PageTypes'
  BY <1>1, PageKept
<1>3. ConnInv' /\ JournalTypes' /\ JournalInv'
  BY <1>1, CallerKeeps, ClosedIs, ElsewhereIs
<1>4. OpTypes'
  BY <1>1, CallerOps, LifeStepsAre, ClosedIs DEF BaseInv, Elsewhere, Bystanding, OpTypes
<1> QED
  BY <1>2, <1>3, <1>4 DEF BaseInv

(* And they are so at first.                                                *)
LEMMA BaseInitially == Init => BaseInv
<1> SUFFICES ASSUME Init PROVE BaseInv
  OBVIOUS
<1>1. /\ call = NoCall /\ queue = <<>> /\ worker = Unconnected /\ toChrome = <<>> /\ fromChrome = <<>>
      /\ journal = NewJournal /\ page = NewPage /\ effects = <<>> /\ op = NoOp /\ results = <<>>
  BY DEF Init, InitTransport, InitChrome
<1>2. /\ DOMAIN call = DOMAIN NoCall /\ call.id = 0 /\ call.reply = None
      /\ DOMAIN worker = DOMAIN Idle /\ worker.request.id = 0 /\ worker.at = "unconnected"
  BY <1>1 DEF NoCall, Unconnected, Idle
<1>3. IsSeq(queue) /\ IsSeq(toChrome) /\ IsSeq(fromChrome)
      /\ DOMAIN queue = {} /\ DOMAIN toChrome = {} /\ DOMAIN fromChrome = {}
  BY <1>1, Singles
<1>4. InFlight = {} /\ Arriving = {None}
  BY <1>2, <1>3 DEF InFlight, Arriving
<1>5. ConnInv
  BY <1>2, <1>3, <1>4, OutcomesDiffer DEF ConnInv, ChannelTypes, ChannelInv, ChromeAnswered
<1>6. /\ journal.cursor = 0 /\ journal.dropped = 0 /\ journal.events = <<>>
      /\ journal.arrived = [k \in Kinds |-> 0]
  BY <1>1 DEF NewJournal
<1>7. IsSeq(journal.events) /\ DOMAIN journal.events = {} /\ Len(journal.events) = 0
  BY <1>6, Singles
<1>8. JournalTypes /\ JournalInv
  BY <1>6, <1>7 DEF JournalTypes, JournalInv
<1>9. PageTypes
  BY <1>1, Singles DEF PageTypes, NewPage
<1>10. OpTypes
  BY <1>1, Singles DEF OpTypes, NoOp
<1> QED
  BY <1>5, <1>8, <1>9, <1>10 DEF BaseInv

-----------------------------------------------------------------------------

(* The waits after input.                                                   *)

(* A result is appended, or there is none.                                  *)
LEMMA ResultIs ==
  ASSUME OpTypes
  PROVE  /\ \A result : Finish(result) => results'[Number].result = result /\ op' = NoOp
         /\ Fail => results'[Number].result \in {"uncertain", "error"} /\ op' = NoOp
         /\ \A o, m : GoOn(o, m) => results' = results /\ op' = o
<1>1. \A result : Finish(result) => results'[Number].result = result /\ op' = NoOp
  <2> SUFFICES ASSUME NEW result, Finish(result) PROVE results'[Number].result = result /\ op' = NoOp
    OBVIOUS
  <2>1. results' = Append(results, [kind |-> op.kind, result |-> result]) /\ op' = NoOp
    BY DEF Finish
  <2> DEFINE e == [kind |-> op.kind, result |-> result]
  <2>2. e.result = result
    OBVIOUS
  <2>3. results' = Append(results, e)
    BY <2>1
  <2> HIDE DEF e
  <2>4. results'[Number] = e
    BY <2>3, Appended DEF OpTypes, Number
  <2> QED
    BY <2>1, <2>2, <2>4
<1> QED
  BY <1>1 DEF Fail, GoOn

(* The result is given when no navigation was signalled since the fence:    *)
(* what the journal dropped is known to be lost, so nothing it holds no     *)
(* more can be missed.                                                      *)
LEMMA SettleStep ==
  ASSUME BaseInv, SettleInput, results' # results, results'[Number].result = "performed"
  PROVE  journal.arrived["started"] <= op.fence /\ journal.arrived["navigated"] <= op.fence
<1>1. ~LostEventsSince(op.fence) /\ KindsSince(op.fence) \cap {"started", "navigated"} = {}
  BY ResultIs DEF SettleInput, BaseInv
<1>2. "started" \in Kinds /\ "navigated" \in Kinds /\ op.fence \in Nat
  BY DEF Kinds, BaseInv, OpTypes
<1> QED
  BY <1>1, <1>2, NothingMissed DEF BaseInv

(* Loading is over when nothing that started since the fence goes on.       *)
LEMMA LoadingStep ==
  ASSUME BaseInv, AwaitLoading, op'.phase = "document"
  PROVE  journal.arrived["started"] <= op.fence \/ journal.arrived["started"] < journal.arrived["stopped"]
<1>1. ~LostEventsSince(op.fence) /\ ~LoadingSince(op.fence)
  BY ResultIs, OperationIs DEF AwaitLoading, BaseInv
<1>2. op.fence \in Nat
  BY DEF BaseInv, OpTypes
<1> QED
  BY <1>1, <1>2, LoadingSeen DEF BaseInv

(* A document is quiet when nothing relevant was signalled since the last   *)
(* poll.                                                                    *)
LEMMA DocumentStep ==
  ASSUME BaseInv, DocumentAnswered,
         op'.phase = "width" \/ (results' # results /\ results'[Number].result = "performed")
  PROVE  \A kind \in Relevant : journal.arrived[kind] <= op.cursor
<1>1. ~LostEventsSince(op.cursor) /\ KindsSince(op.cursor) \cap Relevant = {}
  <2>1. op.phase = "document" /\ DOMAIN op = DOMAIN NoOp /\ "phase" \in DOMAIN NoOp
    BY DEF DocumentAnswered, BaseInv, OpTypes, NoOp
  <2>3. NoOp.phase = "none"
    BY DEF NoOp
  <2>4. PICK a \in Answers :
          IF ~Confirmed(a) \/ LostEventsSince(op.cursor) THEN Fail
          ELSE LET quiet == KindsSince(op.cursor) \cap Relevant = {} /\ (op.quiet \/ a.value = "complete") IN
            \/ /\ quiet /\ op.quiet
               /\ IF op.kind \in InputKinds THEN Finish("performed")
                  ELSE GoOn([op EXCEPT !.phase = "width"], "measure")
            \/ Fail
            \/ /\ op.polls < MaxPolls
               /\ GoOn([op EXCEPT !.quiet = quiet, !.cursor = journal.cursor, !.polls = @ + 1],
                       "ready_state")
    BY DEF DocumentAnswered
  <2> DEFINE quiet == KindsSince(op.cursor) \cap Relevant = {} /\ (op.quiet \/ a.value = "complete")
             o == [op EXCEPT !.quiet = quiet, !.cursor = journal.cursor, !.polls = @ + 1]
  <2>5. o.phase = "document"
    BY <2>1
  <2>6. ~Fail
    BY <2>3, ResultIs DEF BaseInv
  <2> HIDE DEF o
  <2>7. ~GoOn(o, "ready_state")
    BY <2>5, ResultIs DEF BaseInv
  <2>8. ~LostEventsSince(op.cursor) /\ (quiet \/ (op.polls < MaxPolls /\ GoOn(o, "ready_state")))
    BY <2>4, <2>6 DEF o
  <2> QED
    BY <2>7, <2>8
<1>2. Relevant \subseteq Kinds /\ op.cursor \in Nat
  BY DEF Kinds, Relevant, BaseInv, OpTypes
<1> QED
  BY <1>1, <1>2, NothingMissed DEF BaseInv

(* Each step waits for what was signalled.                                  *)
LEMMA StepsSettle ==
  ASSUME BaseInv, [Next]_vars
  PROVE  [Settles]_vars
<1> SUFFICES ASSUME CallerSteps PROVE Settles
  <2>1. CASE LifeSteps \/ Close \/ Elsewhere
    <3>1. op' = op /\ results' = results
      BY <2>1, LifeStepsAre, ClosedIs DEF Elsewhere, Bystanding
    <3> QED
      BY <3>1 DEF Settles
  <2> QED
    BY <2>1, NextIs
<1>1. NoOp.phase = "none" /\ Operation("launch", "setup").phase = "setup"
  BY OperationIs DEF BaseInv
<1>2. ASSUME op.phase = "settle", results' # results, results'[Number].result = "performed"
      PROVE  SettleInput
  BY <1>1, <1>2 DEF CallerSteps, Navigate, Cancel, Capture, Perform, CommitAnswered, DocumentAnswered, WidthAnswered,
     CaptureAnswered, CleanupAnswered, WithheldAnswered, InputAnswered, AwaitLoading, ConnectClient, SetupAnswered,
     More, Free
<1>3. ASSUME op.phase = "loading", op'.phase = "document"
      PROVE  AwaitLoading
  BY <1>1, <1>3 DEF CallerSteps, Navigate, Cancel, Capture, Perform, CommitAnswered, DocumentAnswered, WidthAnswered,
     CaptureAnswered, CleanupAnswered, WithheldAnswered, InputAnswered, SettleInput, ConnectClient, SetupAnswered,
     More, Free
<1>4. ASSUME op.phase = "document", op'.phase = "width" \/ (results' # results /\ results'[Number].result = "performed")
      PROVE  DocumentAnswered
  BY <1>1, <1>4 DEF CallerSteps, Navigate, Cancel, Capture, Perform, CommitAnswered, WidthAnswered,
     CaptureAnswered, CleanupAnswered, WithheldAnswered, InputAnswered, SettleInput, AwaitLoading, ConnectClient,
     SetupAnswered, More, Free
<1> QED
  BY <1>2, <1>3, <1>4, SettleStep, LoadingStep, DocumentStep DEF Settles

(* SettledAfterInput: after a click or a key, no navigation that was        *)
(* signalled is missed, and none is left while it loads, although the       *)
(* journal forgets (settle_input_navigation, wait_for_document).            *)
THEOREM NoNavigationIsMissed == Spec => SettledAfterInput
<1>1. BaseInv /\ [Next]_vars => [Settles]_vars
  BY StepsSettle
<1> QED
  BY <1>1, BaseInitially, BaseInductive, PTL DEF Spec, SettledAfterInput

-----------------------------------------------------------------------------

(* The stages of an operation.                                              *)
PhaseInv ==
  /\ op.phase = "none" => op = NoOp
  /\ op.phase \notin {"none", "setup"} => life.at = "running"
  /\ op.phase = "setup" => op.kind = "launch"
  /\ op.phase = "commit" => op.kind = "navigate"
  /\ op.phase = "input" => op.kind \in InputKinds /\ op.at \in DOMAIN Suboperations[op.kind]
  /\ op.phase \in {"capture", "cleanup", "withheld"} => op.kind \in Captures
  /\ op.phase = "capture" => op.at \in 1..5 /\ (op.at = 5 => op.kind = "capture_matching")
  /\ op.fence <= journal.cursor /\ op.cursor <= journal.cursor
  /\ life.at \notin {"setup", "running"} => op = NoOp

(* The latest call's request is that of the operation's stage, and behind   *)
(* the fence of a capture nothing older is in flight: the watch was         *)
(* answered before it.                                                      *)
CurrentInv ==
  /\ \A r \in InFlight : r.id = call.id =>
       /\ op.phase = "input" => r.method = Suboperations[op.kind][op.at].method /\ r.by = Place(Number, op.at)
       /\ op.phase = "capture" => r.method = CaptureSteps[op.at]
  /\ op.phase = "capture" /\ op.at >= 2 => \A r \in InFlight : r.id = call.id
StageInv == PhaseInv /\ CurrentInv

(* The steps of entering text, by place.                                    *)
LEMMA TypeTextSteps ==
  /\ DOMAIN TypeText = 1..8 /\ Len(TypeText) = 8
  /\ TypeText[1] = Command("revalidate") /\ TypeText[2] = Command("focus")
  /\ TypeText[3] = After("insert") /\ TypeText[4] = After("read_text")
  /\ TypeText[5] = Command("revalidate") /\ TypeText[6] = After("insert")
  /\ TypeText[7] = After("dispatch") /\ TypeText[8] = After("read_text")
<1>1. DOMAIN TypeText = 1..8 /\ Len(TypeText) = 8
  BY DEF TypeText, PerKeyText
<1>2. TypeText[1] = Command("revalidate") /\ TypeText[2] = Command("focus")
  BY DEF TypeText, PerKeyText
<1>3. TypeText[3] = After("insert") /\ TypeText[4] = After("read_text")
  BY DEF TypeText, PerKeyText
<1>4. TypeText[5] = Command("revalidate") /\ TypeText[6] = After("insert")
  BY DEF TypeText, PerKeyText
<1>5. TypeText[7] = After("dispatch") /\ TypeText[8] = After("read_text")
  BY DEF TypeText, PerKeyText
<1> QED
  BY <1>1, <1>2, <1>3, <1>4, <1>5

(* The kinds of input.                                                      *)
LEMMA InputKindsAre ==
  InputKinds = {"click", "press_key", "hover", "type_text", "select", "set_value", "scroll", "scroll_region"}
BY DEF InputKinds, Suboperations

(* The table of input has steps for each kind, each of a known method.      *)
LEMMA StepsAre ==
  ASSUME NEW kind \in InputKinds
  PROVE  /\ Len(Suboperations[kind]) \in Nat \ {0}
         /\ DOMAIN Suboperations[kind] = 1..Len(Suboperations[kind])
         /\ \A at \in DOMAIN Suboperations[kind] :
              Suboperations[kind][at].method
                \in {"revalidate", "focus", "dispatch", "insert", "set", "read_text", "measure"}
<1>1. CASE kind = "type_text"
  <2>1. Suboperations[kind] = TypeText
    BY <1>1 DEF Suboperations
  <2>2. \A at \in 1..8 : at = 1 \/ at = 2 \/ at = 3 \/ at = 4 \/ at = 5 \/ at = 6 \/ at = 7 \/ at = 8
    OBVIOUS
  <2>3. /\ TypeText[1].method = "revalidate" /\ TypeText[2].method = "focus"
        /\ TypeText[3].method = "insert" /\ TypeText[4].method = "read_text"
        /\ TypeText[5].method = "revalidate" /\ TypeText[6].method = "insert"
        /\ TypeText[7].method = "dispatch" /\ TypeText[8].method = "read_text"
    BY TypeTextSteps DEF Command, After
  <2> QED
    BY <2>1, <2>2, <2>3, TypeTextSteps
<1>2. CASE kind = "click"
  BY <1>2 DEF Suboperations, Click, Command, After
<1>3. CASE kind = "press_key"
  BY <1>3 DEF Suboperations, PressKey, Command, After
<1>4. CASE kind = "hover"
  BY <1>4 DEF Suboperations, Hover, Command, After
<1>5. CASE kind \in {"select", "set_value"}
  BY <1>5 DEF Suboperations, Select, SetValue, Command, After
<1>6. CASE kind = "scroll"
  BY <1>6 DEF Suboperations, Scroll, Command, After
<1>7. CASE kind = "scroll_region"
  BY <1>7 DEF Suboperations, ScrollRegion, Command, After
<1> QED
  BY <1>1, <1>2, <1>3, <1>4, <1>5, <1>6, <1>7, InputKindsAre

(* What comes after a step that is input: whatever fails there is           *)
(* uncertain, but for the second attempt at a text; and no text is entered  *)
(* again, but there.                                                        *)
LEMMA StepOrder ==
  ASSUME NEW kind \in InputKinds, NEW at \in DOMAIN Suboperations[kind], NEW earlier \in InputsOf(kind), earlier < at
  PROVE  /\ ~Suboperations[kind][at].after => kind = "type_text" /\ at = 5
         /\ Suboperations[kind][at].method \in Inputs => Suboperations[kind][at].method = "dispatch" \/ (kind = "type_text" /\ at = 6)
         /\ Suboperations[kind][at].method = "read_text" => kind = "type_text" /\ at \in {4, 8}
<1>1. CASE kind = "type_text"
  BY <1>1, TypeTextSteps DEF Suboperations, InputsOf, Inputs, Command, After
<1>2. CASE kind = "click"
  BY <1>2 DEF Suboperations, Click, InputsOf, Inputs, Command, After
<1>3. CASE kind = "press_key"
  BY <1>3 DEF Suboperations, PressKey, InputsOf, Inputs, Command, After
<1>4. CASE kind = "hover"
  BY <1>4 DEF Suboperations, Hover, InputsOf, Inputs, Command, After
<1>5. CASE kind \in {"select", "set_value"}
  BY <1>5 DEF Suboperations, Select, SetValue, InputsOf, Inputs, Command, After
<1>6. CASE kind = "scroll"
  BY <1>6 DEF Suboperations, Scroll, InputsOf, Inputs, Command, After
<1>7. CASE kind = "scroll_region"
  BY <1>7 DEF Suboperations, ScrollRegion, InputsOf, Inputs, Command, After
<1> QED
  BY <1>1, <1>2, <1>3, <1>4, <1>5, <1>6, <1>7, InputKindsAre

(* Where the entering of text acts on the page.                             *)
LEMMA TypeTextInputs ==
  /\ InputsOf("type_text") = {3, 6, 7}
BY TypeTextSteps DEF Suboperations, InputsOf, Inputs, Command, After

(* A life that is not running or being set up does not get there by itself. *)
LEMMA LifeMoves ==
  ASSUME LifeSteps
  PROVE  life'.at = life.at \/ (life.at \notin {"setup", "running"} /\ life'.at \notin {"setup", "running"})
<1>1. CASE Prepare \/ Spawn \/ AwaitReady
  BY <1>1 DEF Prepare, Spawn, AwaitReady, Life, Terminating
<1>2. CASE TryWait \/ Signal \/ AwaitExit
  <2>1. \A to : Step(to) => life'.at = life.at
    BY DEF Step
  <2> QED
    BY <1>2, <2>1 DEF TryWait, Signal, AwaitExit
<1>3. CASE RemoveProfile
  BY <1>3 DEF RemoveProfile, Life
<1>4. CASE UNCHANGED vars
  BY <1>4 DEF vars
<1> QED
  BY <1>1, <1>2, <1>3, <1>4 DEF LifeSteps

(* A command that is issued: nothing has arrived for it, and its request is *)
(* the only new one.                                                        *)
LEMMA GoingOn ==
  ASSUME BaseInv, CallerFrame, NEW o, NEW m, GoOn(o, m)
  PROVE  /\ op' = o /\ results' = results /\ captured' = captured /\ Number' = Number
         /\ Arriving' = {call'.reply} /\ call'.reply \in {None, NotSent}
         /\ \A r \in InFlight' : r.id = call'.id => r.method = m /\ r.by = Place(Number, o.at)
         /\ \A r \in InFlight' : r \in InFlight \/ (r.id = call'.id /\ r.method = m /\ r.by = Place(Number, o.at) /\ call'.reply = None)
         /\ \A r \in InFlight : r.id # call'.id
         /\ InFlight = {} => \A r \in InFlight' : r.id = call'.id
         /\ call'.id = call.id + 1
<1>1. Issue(Place(Number, o.at), m, o.cancelled) /\ op' = o /\ results' = results /\ captured' = captured
  BY DEF GoOn
<1>2. /\ call'.id = call.id + 1 /\ Arriving' = {call'.reply} /\ call'.reply \in {None, NotSent}
      /\ \A r \in InFlight' : r \in InFlight \/ (r.id = call'.id /\ r.by = Place(Number, o.at) /\ r.method = m /\ call'.reply = None)
  BY <1>1, IssuedKeeps DEF BaseInv, CallerFrame
<1>3. \A r \in InFlight : r.id # call.id + 1
  BY DEF BaseInv, ConnInv, ChannelInv, ChannelTypes
<1> QED
  BY <1>1, <1>2, <1>3 DEF Number

(* An answer Chrome gave is the reply, and with it nothing is in flight any *)
(* more.                                                                    *)
LEMMA AnswersAre ==
  ASSUME ConnInv, NEW a \in Answers, Confirmed(a) \/ a.outcome = "rejected"
  PROVE  a = call.reply /\ a \in Arriving /\ InFlight = {}
<1>1. a = call.reply
  BY OutcomesDiffer DEF Answers, Confirmed
<1> QED
  BY <1>1 DEF Arriving, ChromeAnswered, ConnInv, ChannelInv, Confirmed

(* What an operation is, in its phase.                                      *)
OpPhase(o) ==
  /\ o.phase = "none" => o = NoOp
  /\ o.phase = "setup" => o.kind = "launch"
  /\ o.phase = "commit" => o.kind = "navigate"
  /\ o.phase = "input" => o.kind \in InputKinds /\ o.at \in DOMAIN Suboperations[o.kind]
  /\ o.phase \in {"capture", "cleanup", "withheld"} => o.kind \in Captures
  /\ o.phase = "capture" => o.at \in 1..5 /\ (o.at = 5 => o.kind = "capture_matching")
  /\ o.fence <= journal.cursor /\ o.cursor <= journal.cursor

Staged ==
  /\ OpPhase(op')
  /\ op'.phase \notin {"none", "setup"} => life'.at = "running"
  /\ op' = NoOp \/ life'.at \in {"setup", "running"}

(* An operation is at a stage that exists, and only in a browser that runs. *)
LEMMA CallerPhase ==
  ASSUME BaseInv, PhaseInv, CallerSteps
  PROVE  Staged
<1>0. /\ DOMAIN op = DOMAIN NoOp /\ op.at \in Nat /\ op.fence \in Nat /\ op.cursor \in Nat /\ journal.cursor \in Nat
      /\ OpPhase(op) /\ OpPhase(NoOp) /\ NoOp.phase = "none"
      /\ op.phase \notin {"none", "setup"} => life.at = "running"
      /\ op # NoOp => life.at \in {"setup", "running"}
  BY OperationIs DEF BaseInv, OpTypes, JournalTypes, PhaseInv, OpPhase
<1>a. \A kind, phase : LET o == Operation(kind, phase) IN
        /\ o.kind = kind /\ o.phase = phase /\ o.at = 1 /\ o.fence = journal.cursor /\ o.cursor = journal.cursor
  BY OperationIs DEF BaseInv
<1>b. "at" \in DOMAIN op /\ "phase" \in DOMAIN op /\ "fence" \in DOMAIN op /\ "cursor" \in DOMAIN op /\ "kind" \in DOMAIN op
  BY <1>0 DEF NoOp
<1>c. \A result : Finish(result) => op' = NoOp
  BY DEF Finish
<1>d. Fail => op' = NoOp
  BY <1>c DEF Fail
<1>e. op' = NoOp => Staged
  BY <1>0 DEF Staged
<1>f. \A o, m : GoOn(o, m) => op' = o
  BY DEF GoOn
<1>1. CASE Navigate
  BY <1>0, <1>1, <1>a, <1>f DEF Navigate, Free, OpPhase, Caller, Staged
<1>2. CASE Cancel
  <2>1. op' = [op EXCEPT !.cancelled = TRUE] /\ op.phase = "input" /\ life' = life
    BY <1>2 DEF Cancel
  <2> QED
    BY <1>0, <1>b, <2>1 DEF OpPhase, Staged
<1>3. CASE \E kind \in Captures : Capture(kind)
  BY <1>0, <1>3, <1>a, <1>f DEF Capture, More, Free, OpPhase, Caller, Staged
<1>4. CASE \E kind \in Operations : Perform(kind)
  <2>1. PICK kind \in Operations : Perform(kind)
    BY <1>4
  <2>2. kind \in InputKinds /\ 1 \in DOMAIN Suboperations[kind]
    BY StepsAre, OperationsAssumption
  <2> QED
    BY <1>0, <1>a, <1>f, <2>1, <2>2 DEF Perform, More, Free, OpPhase, Staged
<1>5. CASE CommitAnswered
  <2>1. /\ life' = life /\ op.phase = "commit"
        /\ op' = [op EXCEPT !.phase = "document"] \/ op' = NoOp
    BY <1>5, <1>d, <1>f DEF CommitAnswered, Caller
  <2> QED
    BY <1>0, <1>b, <1>e, <2>1 DEF OpPhase, Staged
<1>6. CASE DocumentAnswered
  <2>0. life' = life /\ op.phase = "document"
    BY <1>6 DEF DocumentAnswered, Caller
  <2>1. /\ \/ op' = [op EXCEPT !.phase = "width"] \/ op' = NoOp
           \/ \E quiet : op' = [op EXCEPT !.quiet = quiet, !.cursor = journal.cursor, !.polls = @ + 1]
    BY <1>6, <1>c, <1>d, <1>f DEF DocumentAnswered, Caller
  <2>2. ASSUME NEW quiet, op' = [op EXCEPT !.quiet = quiet, !.cursor = journal.cursor, !.polls = @ + 1]
        PROVE  Staged
    <3>1. op'.phase = "document" /\ op'.kind = op.kind /\ op'.fence = op.fence /\ op'.cursor = journal.cursor
      BY <1>b, <2>0, <2>2
    <3> QED
      BY <1>0, <2>0, <3>1 DEF OpPhase, Staged
  <2> QED
    BY <1>0, <1>b, <1>e, <2>0, <2>1, <2>2 DEF OpPhase, Staged
<1>7. CASE WidthAnswered \/ WithheldAnswered
  BY <1>7, <1>c, <1>d, <1>e DEF WidthAnswered, WithheldAnswered
<1>8. CASE CaptureAnswered
  <2>0. life' = life /\ op.phase = "capture"
    BY <1>8 DEF CaptureAnswered, Caller
  <2>1. ASSUME NEW verdict, NEW seen, CleanUp(verdict, seen) PROVE Staged
    BY <1>0, <1>b, <1>f, <2>0, <2>1 DEF CleanUp, OpPhase, Staged
  <2> DEFINE on == [op EXCEPT !.at = @ + 1]
  <2>a. /\ DOMAIN on = DOMAIN op /\ on.at = op.at + 1 /\ on.phase = op.phase /\ on.kind = op.kind
        /\ on.fence = op.fence /\ on.cursor = op.cursor
    BY <1>b
  <2> HIDE DEF on
  <2>b. ASSUME op.at \in 1..3 \/ (op.at = 4 /\ op.kind = "capture_matching"), DOMAIN op' = DOMAIN op,
               op'.at = op.at + 1, op'.phase = op.phase, op'.kind = op.kind, op'.fence \in {op.fence, journal.cursor},
               op'.cursor = op.cursor
        PROVE Staged
    BY <1>0, <1>b, <2>0, <2>b DEF OpPhase, Staged
  <2>2. ASSUME NEW b, NEW seen, \/ op' = [on EXCEPT !.fence = journal.cursor, !.renewed = b]
                                \/ op' = on \/ op' = [on EXCEPT !.seen = seen],
               op.at = 1 \/ op.at = 2 \/ op.at = 3 \/ (op.at = 4 /\ op.kind = "capture_matching")
        PROVE Staged
    <3>1. CASE op' = [on EXCEPT !.fence = journal.cursor, !.renewed = b]
      BY <1>b, <2>a, <2>b, <2>2, <3>1
    <3>2. CASE op' = on
      BY <1>b, <2>a, <2>b, <2>2, <3>2
    <3>3. CASE op' = [on EXCEPT !.seen = seen]
      BY <1>b, <2>a, <2>b, <2>2, <3>3
    <3> QED
      BY <2>2, <3>1, <3>2, <3>3
  <2>3. PICK a \in Answers :
       LET step == CaptureSteps[op.at]
           seen == Append(op.seen, a.value)
       IN  IF ~Confirmed(a) THEN CleanUp("error", <<>>)
           ELSE CASE step = "watch" ->
                       GoOn([on EXCEPT !.fence = journal.cursor, !.renewed = Overtaken],
                            "mask")
                  [] step = "mask" ->
                       IF a.value = "verified" THEN GoOn(on, "observe") ELSE CleanUp("unverifiable", <<>>)
                  [] step = "observe" /\ op.at = 3 ->
                       GoOn([on EXCEPT !.seen = <<a.value, HasReceived("popup")>>], "screenshot")
                  [] step = "screenshot" ->
                       IF op.kind = "capture" THEN Judge(seen) ELSE GoOn([on EXCEPT !.seen = seen], "observe")
                  [] OTHER ->
                       IF a.value.paint = op.seen[1].paint THEN Judge(op.seen) ELSE CleanUp("changed", <<>>)
    BY <1>8 DEF CaptureAnswered, on
  <2>4. op.at \in 1..5 /\ op.kind \in Captures
    BY <1>0, <2>0 DEF OpPhase, Staged
  <2>5. CaptureSteps[1] = "watch" /\ CaptureSteps[2] = "mask" /\ CaptureSteps[3] = "observe"
        /\ CaptureSteps[4] = "screenshot" /\ CaptureSteps[5] = "observe"
    BY DEF CaptureSteps
  <2>6. \A seen : Judge(seen) => Staged
    BY <2>1 DEF Judge
  <2>7. CASE op.at = 1
    <3>1. \/ \E b : op' = [on EXCEPT !.fence = journal.cursor, !.renewed = b]
          \/ \E verdict, seen : CleanUp(verdict, seen)
      BY <1>f, <2>3, <2>5, <2>7
    <3> QED
      BY <2>1, <2>2, <2>7, <3>1
  <2>8. CASE op.at = 2
    <3>1. op' = on \/ \E verdict, seen : CleanUp(verdict, seen)
      BY <1>f, <2>3, <2>5, <2>8
    <3> QED
      BY <2>1, <2>2, <2>8, <3>1
  <2>9. CASE op.at = 3
    <3>1. \/ \E seen : op' = [on EXCEPT !.seen = seen]
          \/ \E verdict, seen : CleanUp(verdict, seen)
      BY <1>f, <2>3, <2>5, <2>9
    <3> QED
      BY <2>1, <2>2, <2>9, <3>1
  <2>10. CASE op.at = 4
    BY <1>f, <2>1, <2>2, <2>3, <2>4, <2>5, <2>6, <2>10 DEF Captures
  <2>11. CASE op.at = 5
    BY <1>f, <2>1, <2>3, <2>5, <2>6, <2>11
  <2> QED
    BY <2>4, <2>7, <2>8, <2>9, <2>10, <2>11
<1>9. CASE CleanupAnswered
  <2>1. /\ life' = life /\ op.phase = "cleanup"
        /\ \/ op' = [op EXCEPT !.at = @ + 1] \/ op' = NoOp \/ op' = [op EXCEPT !.phase = "withheld"]
           \/ op' = [Operation(op.kind, "capture") EXCEPT !.attempt = op.attempt + 1]
    BY <1>9, <1>d, <1>f DEF CleanupAnswered, Caller
  <2>2. CASE op' = [Operation(op.kind, "capture") EXCEPT !.attempt = op.attempt + 1]
    <3> DEFINE o == Operation(op.kind, "capture")
    <3>1. DOMAIN o = DOMAIN NoOp /\ o.kind = op.kind /\ o.phase = "capture" /\ o.at = 1
          /\ o.fence = journal.cursor /\ o.cursor = journal.cursor
      BY OperationIs DEF BaseInv
    <3> HIDE DEF o
    <3>2. op' = [o EXCEPT !.attempt = op.attempt + 1]
      BY <2>2 DEF o
    <3>3. op'.kind = op.kind /\ op'.phase = "capture" /\ op'.at = 1 /\ op'.fence = journal.cursor /\ op'.cursor = journal.cursor
      BY <3>1, <3>2 DEF NoOp
    <3> QED
      BY <1>0, <2>1, <3>3 DEF OpPhase, Staged
  <2> QED
    BY <1>0, <1>b, <1>e, <2>1, <2>2 DEF OpPhase, Staged
<1>10. CASE InputAnswered
  <2>0. life' = life /\ op.phase = "input" /\ op.kind \in InputKinds /\ op.at \in DOMAIN Suboperations[op.kind]
    BY <1>0, <1>10 DEF InputAnswered, Caller, OpPhase
  <2>1. \/ op' = [op EXCEPT !.at = @ + 1] /\ op.at # Len(Suboperations[op.kind])
        \/ op' = NoOp \/ op' = [op EXCEPT !.phase = "settle"]
    BY <1>10, <1>c, <1>f DEF InputAnswered, InputDone
  <2>2. op.at # Len(Suboperations[op.kind]) => op.at + 1 \in DOMAIN Suboperations[op.kind]
    BY <2>0, StepsAre
  <2> QED
    BY <1>0, <1>b, <1>e, <2>0, <2>1, <2>2 DEF OpPhase, Staged
<1>11. CASE SettleInput
  <2>1. life' = life /\ op.phase = "settle" /\ (op' = [op EXCEPT !.phase = "loading"] \/ op' = NoOp)
    BY <1>11, <1>c, <1>d DEF SettleInput, Caller
  <2> QED
    BY <1>0, <1>b, <1>e, <2>1 DEF OpPhase, Staged
<1>12. CASE AwaitLoading
  <2>1. /\ life' = life /\ op.phase = "loading"
        /\ op' = [op EXCEPT !.phase = "document", !.cursor = op.fence, !.cancelled = FALSE] \/ op' = NoOp
    BY <1>12, <1>d, <1>f DEF AwaitLoading, Caller
  <2> QED
    BY <1>0, <1>b, <1>e, <2>1 DEF OpPhase, Staged
<1>13. CASE ConnectClient
  <2>1. /\ life.at = "connect"
        /\ \/ op' = op
           \/ life'.at = "setup" /\ op' = Operation("launch", "setup")
    <3>1. \A at : Life(at) => life'.at = at
      BY DEF Life
    <3> QED
      BY <1>13, <3>1 DEF ConnectClient
  <2>2. op = NoOp
    BY <1>0, <2>1
  <2> QED
    BY <1>0, <1>a, <1>e, <2>1, <2>2 DEF OpPhase, Staged
<1>14. CASE SetupAnswered
  <2>1. op.phase = "setup" /\ (op' = NoOp \/ (life' = life /\ op' = [op EXCEPT !.at = @ + 1]))
    BY <1>14, <1>f DEF SetupAnswered
  <2> QED
    BY <1>0, <1>b, <1>e, <2>1 DEF OpPhase, Staged
<1> QED
  BY <1>1, <1>2, <1>3, <1>4, <1>5, <1>6, <1>7, <1>8, <1>9, <1>10, <1>11, <1>12, <1>13, <1>14 DEF CallerSteps

(* The steps of a capture: it is given up, or goes on after an answer.      *)
LEMMA CaptureGoes ==
  ASSUME BaseInv, PhaseInv, CaptureAnswered
  PROVE  /\ op.phase = "capture" /\ op.at \in 1..5 /\ op.kind \in Captures
         /\ \/ \E verdict \in {"error", "unverifiable", "changed"} : CleanUp(verdict, <<>>)
            \/ /\ Confirmed(call.reply) /\ call.reply \in Arriving /\ InFlight = {}
               /\ \/ /\ op.at = 1
                     /\ GoOn([[op EXCEPT !.at = @ + 1] EXCEPT !.fence = journal.cursor,
                                !.renewed = Overtaken], "mask")
                  \/ /\ op.at = 2 /\ call.reply.value = "verified"
                     /\ GoOn([op EXCEPT !.at = @ + 1], "observe")
                  \/ /\ op.at = 3
                     /\ GoOn([[op EXCEPT !.at = @ + 1] EXCEPT !.seen = <<call.reply.value, HasReceived("popup")>>], "screenshot")
                  \/ /\ op.at = 4 /\ op.kind = "capture"
                     /\ ~PageChangedSince(op.fence) /\ CleanUp("stable", Append(op.seen, call.reply.value))
                  \/ /\ op.at = 4 /\ op.kind = "capture_matching"
                     /\ GoOn([[op EXCEPT !.at = @ + 1] EXCEPT !.seen = Append(op.seen, call.reply.value)], "observe")
                  \/ /\ op.at = 5 /\ op.kind = "capture_matching"
                     /\ call.reply.value.paint = op.seen[1].paint
                     /\ ~PageChangedSince(op.fence) /\ CleanUp("stable", op.seen)
<1>1. op.phase = "capture" /\ op.at \in 1..5 /\ op.kind \in Captures /\ (op.at = 5 => op.kind = "capture_matching")
  BY DEF CaptureAnswered, PhaseInv
<1> DEFINE on == [op EXCEPT !.at = @ + 1]
<1>2. PICK a \in Answers :
       LET step == CaptureSteps[op.at]
           seen == Append(op.seen, a.value)
       IN  IF ~Confirmed(a) THEN CleanUp("error", <<>>)
           ELSE CASE step = "watch" ->
                       GoOn([on EXCEPT !.fence = journal.cursor, !.renewed = Overtaken],
                            "mask")
                  [] step = "mask" ->
                       IF a.value = "verified" THEN GoOn(on, "observe") ELSE CleanUp("unverifiable", <<>>)
                  [] step = "observe" /\ op.at = 3 ->
                       GoOn([on EXCEPT !.seen = <<a.value, HasReceived("popup")>>], "screenshot")
                  [] step = "screenshot" ->
                       IF op.kind = "capture" THEN Judge(seen) ELSE GoOn([on EXCEPT !.seen = seen], "observe")
                  [] OTHER ->
                       IF a.value.paint = op.seen[1].paint THEN Judge(op.seen) ELSE CleanUp("changed", <<>>)
  BY DEF CaptureAnswered
<1> HIDE DEF on
<1>3. CaptureSteps[1] = "watch" /\ CaptureSteps[2] = "mask" /\ CaptureSteps[3] = "observe"
      /\ CaptureSteps[4] = "screenshot" /\ CaptureSteps[5] = "observe"
  BY DEF CaptureSteps
<1>4. CASE ~Confirmed(a)
  BY <1>1, <1>2, <1>4
<1>5. CASE Confirmed(a)
  <2>0. a = call.reply /\ call.reply \in Arriving /\ InFlight = {}
    BY <1>5, AnswersAre DEF BaseInv
  <2>1. CASE op.at = 1
    <3>1. GoOn([on EXCEPT !.fence = journal.cursor, !.renewed = Overtaken], "mask")
      BY <1>2, <1>3, <1>5, <2>1
    <3> QED
      BY <1>1, <1>5, <2>0, <2>1, <3>1 DEF on
  <2>2. CASE op.at = 2
    <3>1. IF a.value = "verified" THEN GoOn(on, "observe") ELSE CleanUp("unverifiable", <<>>)
      BY <1>2, <1>3, <1>5, <2>2
    <3> QED
      BY <1>1, <1>5, <2>0, <2>2, <3>1 DEF on
  <2>3. CASE op.at = 3
    <3>1. GoOn([on EXCEPT !.seen = <<a.value, HasReceived("popup")>>], "screenshot")
      BY <1>2, <1>3, <1>5, <2>3
    <3> QED
      BY <1>1, <1>5, <2>0, <2>3, <3>1 DEF on
  <2>4. CASE op.at = 4
    <3>1. IF op.kind = "capture" THEN Judge(Append(op.seen, a.value))
          ELSE GoOn([on EXCEPT !.seen = Append(op.seen, a.value)], "observe")
      BY <1>2, <1>3, <1>5, <2>4
    <3> QED
      BY <1>1, <1>5, <2>0, <2>4, <3>1 DEF on, Judge, Captures
  <2>5. CASE op.at = 5
    <3>1. IF a.value.paint = op.seen[1].paint THEN Judge(op.seen) ELSE CleanUp("changed", <<>>)
      BY <1>2, <1>3, <1>5, <2>5
    <3> QED
      BY <1>1, <1>5, <2>0, <2>5, <3>1 DEF Judge
  <2> QED
    BY <1>1, <2>1, <2>2, <2>3, <2>4, <2>5
<1> QED
  BY <1>4, <1>5

(* An operation that went on with the command its phase and place call for. *)
LEMMA GoingIsCurrent ==
  ASSUME BaseInv, CallerFrame, NEW o, NEW m, GoOn(o, m),
         o.phase = "input" => m = Suboperations[o.kind][o.at].method,
         o.phase = "capture" => m = CaptureSteps[o.at] /\ (o.at >= 2 => InFlight = {})
  PROVE  CurrentInv'
<1>1. /\ op' = o /\ Number' = Number
      /\ \A r \in InFlight' : r.id = call'.id => r.method = m /\ r.by = Place(Number, o.at)
      /\ InFlight = {} => \A r \in InFlight' : r.id = call'.id
  BY GoingOn
<1> QED
  BY <1>1 DEF CurrentInv

(* The request in flight for the latest call is the one the operation waits *)
(* for.                                                                     *)
LEMMA CallerCurrent ==
  ASSUME BaseInv, StageInv, CallerSteps
  PROVE  CurrentInv'
<1>0. CallerFrame /\ DOMAIN op = DOMAIN NoOp /\ op.at \in Nat
  BY CallerFrames DEF BaseInv, ConnInv, OpTypes
<1>a. \A kind, phase : Operation(kind, phase).phase = phase /\ Operation(kind, phase).at = 1 /\ Operation(kind, phase).kind = kind
  BY OperationIs DEF BaseInv
<1>b. "at" \in DOMAIN op /\ "phase" \in DOMAIN op /\ "kind" \in DOMAIN op
  BY <1>0 DEF NoOp
<1>c. NoOp.phase = "none"
  BY OperationIs DEF BaseInv
<1>d. ASSUME op'.phase \notin {"input", "capture"} PROVE CurrentInv'
  BY <1>d DEF CurrentInv
<1>e. \A result : Finish(result) => op' = NoOp
  BY DEF Finish
<1>f. Fail => op' = NoOp
  BY <1>e DEF Fail
<1>g. \A o, m : GoOn(o, m) => op' = o
  BY DEF GoOn
<1>h. ASSUME NEW verdict, NEW seen, CleanUp(verdict, seen) PROVE op'.phase = "cleanup"
  BY <1>b, <1>g, <1>h DEF CleanUp
<1>1. CASE Navigate
  BY <1>1, <1>a, <1>d, <1>g DEF Navigate
<1>2. CASE Cancel
  <2>1. /\ op'.phase = op.phase /\ op'.kind = op.kind /\ op'.at = op.at /\ results' = results /\ op.phase = "input"
        /\ queue' = queue /\ toChrome' = toChrome /\ call'.id = call.id
    BY <1>2, <1>b DEF Cancel, BaseInv, ConnInv, ChannelTypes, NoCall
  <2> QED
    BY <2>1 DEF CurrentInv, StageInv, InFlight, Number
<1>3. CASE \E kind \in Captures : Capture(kind)
  <2>1. PICK kind : GoOn(Operation(kind, "capture"), "watch")
    BY <1>3 DEF Capture
  <2>2. CaptureSteps[1] = "watch"
    BY DEF CaptureSteps
  <2> QED
    BY <1>0, <1>a, <2>1, <2>2, GoingIsCurrent
<1>4. CASE \E kind \in Operations : Perform(kind)
  <2>1. PICK kind : GoOn(Operation(kind, "input"), Suboperations[kind][1].method)
    BY <1>4 DEF Perform
  <2> QED
    BY <1>0, <1>a, <2>1, GoingIsCurrent
<1>5. CASE CommitAnswered
  <2>1. op' = [op EXCEPT !.phase = "document"] \/ op' = NoOp
    BY <1>5, <1>f, <1>g DEF CommitAnswered
  <2> QED
    BY <1>b, <1>c, <1>d, <2>1
<1>6. CASE DocumentAnswered
  <2>1. \/ op' = [op EXCEPT !.phase = "width"] \/ op' = NoOp
        \/ \E quiet : op' = [op EXCEPT !.quiet = quiet, !.cursor = journal.cursor, !.polls = @ + 1]
    BY <1>6, <1>e, <1>f, <1>g DEF DocumentAnswered
  <2>2. op.phase = "document"
    BY <1>6 DEF DocumentAnswered
  <2>3. ASSUME NEW quiet, op' = [op EXCEPT !.quiet = quiet, !.cursor = journal.cursor, !.polls = @ + 1]
        PROVE  op'.phase = "document"
    BY <1>b, <2>2, <2>3
  <2> QED
    BY <1>b, <1>c, <1>d, <2>1, <2>3
<1>7. CASE WidthAnswered \/ WithheldAnswered
  BY <1>7, <1>c, <1>d, <1>e, <1>f DEF WidthAnswered, WithheldAnswered
<1>8. CASE CaptureAnswered
  <2> DEFINE on == [op EXCEPT !.at = @ + 1]
  <2>1. on.at = op.at + 1 /\ on.phase = op.phase /\ DOMAIN on = DOMAIN op
    BY <1>b
  <2> HIDE DEF on
  <2>2. op.phase = "capture" /\ op.at \in 1..5
    BY <1>8, CaptureGoes DEF StageInv
  <2>3. CaptureSteps[2] = "mask" /\ CaptureSteps[3] = "observe" /\ CaptureSteps[4] = "screenshot" /\ CaptureSteps[5] = "observe"
    BY DEF CaptureSteps
  <2>4. \/ \E verdict, seen : CleanUp(verdict, seen)
        \/ /\ InFlight = {}
           /\ \/ op.at = 1 /\ \E b : GoOn([on EXCEPT !.fence = journal.cursor, !.renewed = b], "mask")
              \/ op.at = 2 /\ GoOn(on, "observe")
              \/ op.at = 3 /\ \E seen : GoOn([on EXCEPT !.seen = seen], "screenshot")
              \/ op.at = 4 /\ \E seen : GoOn([on EXCEPT !.seen = seen], "observe")
    <3>1. \/ \E verdict \in {"error", "unverifiable", "changed"} : CleanUp(verdict, <<>>)
          \/ /\ InFlight = {}
             /\ \/ /\ op.at = 1
                   /\ GoOn([on EXCEPT !.fence = journal.cursor,
                                !.renewed = Overtaken], "mask")
                \/ /\ op.at = 2 /\ GoOn(on, "observe")
                \/ /\ op.at = 3
                   /\ GoOn([on EXCEPT !.seen = <<call.reply.value, HasReceived("popup")>>], "screenshot")
                \/ CleanUp("stable", Append(op.seen, call.reply.value))
                \/ op.at = 4 /\ GoOn([on EXCEPT !.seen = Append(op.seen, call.reply.value)], "observe")
                \/ CleanUp("stable", op.seen)
      BY <1>8, CaptureGoes DEF StageInv, on
    <3> QED
      BY <3>1
  <2>5. ASSUME NEW o, NEW m, GoOn(o, m), o.phase = "capture", m = CaptureSteps[o.at], InFlight = {} PROVE CurrentInv'
    BY <1>0, <2>5, GoingIsCurrent
  <2>6. ASSUME NEW seen
        PROVE  [on EXCEPT !.seen = seen].phase = "capture" /\ [on EXCEPT !.seen = seen].at = op.at + 1
    BY <1>b, <2>1, <2>2
  <2>7. ASSUME NEW b
        PROVE  [on EXCEPT !.fence = journal.cursor, !.renewed = b].phase = "capture"
               /\ [on EXCEPT !.fence = journal.cursor, !.renewed = b].at = op.at + 1
    BY <1>b, <2>1, <2>2
  <2>8. CASE \E verdict, seen : CleanUp(verdict, seen)
    BY <1>d, <1>h, <2>8
  <2>9. CASE op.at = 1 /\ InFlight = {} /\ \E b : GoOn([on EXCEPT !.fence = journal.cursor, !.renewed = b], "mask")
    <3>1. PICK b : GoOn([on EXCEPT !.fence = journal.cursor, !.renewed = b], "mask")
      BY <2>9
    <3> DEFINE o == [on EXCEPT !.fence = journal.cursor, !.renewed = b]
    <3>2. GoOn(o, "mask") /\ o.phase = "capture" /\ o.at = 2
      BY <2>7, <2>9, <3>1
    <3> HIDE DEF o
    <3> QED
      BY <2>3, <2>5, <2>9, <3>2
  <2>10. CASE op.at = 2 /\ InFlight = {} /\ GoOn(on, "observe")
    BY <2>1, <2>2, <2>3, <2>5, <2>10
  <2>11. CASE op.at = 3 /\ InFlight = {} /\ \E seen : GoOn([on EXCEPT !.seen = seen], "screenshot")
    <3>1. PICK seen : GoOn([on EXCEPT !.seen = seen], "screenshot")
      BY <2>11
    <3> DEFINE o == [on EXCEPT !.seen = seen]
    <3>2. GoOn(o, "screenshot") /\ o.phase = "capture" /\ o.at = 4
      BY <2>6, <2>11, <3>1
    <3> HIDE DEF o
    <3> QED
      BY <2>3, <2>5, <2>11, <3>2
  <2>12. CASE op.at = 4 /\ InFlight = {} /\ \E seen : GoOn([on EXCEPT !.seen = seen], "observe")
    <3>1. PICK seen : GoOn([on EXCEPT !.seen = seen], "observe")
      BY <2>12
    <3> DEFINE o == [on EXCEPT !.seen = seen]
    <3>2. GoOn(o, "observe") /\ o.phase = "capture" /\ o.at = 5
      BY <2>6, <2>12, <3>1
    <3> HIDE DEF o
    <3> QED
      BY <2>3, <2>5, <2>12, <3>2
  <2> QED
    BY <2>4, <2>8, <2>9, <2>10, <2>11, <2>12
<1>9. CASE CleanupAnswered
  <2>1. /\ op.phase = "cleanup"
        /\ \/ op' = [op EXCEPT !.at = @ + 1] \/ op' = NoOp \/ op' = [op EXCEPT !.phase = "withheld"]
           \/ GoOn([Operation(op.kind, "capture") EXCEPT !.attempt = op.attempt + 1], "watch")
    BY <1>9, <1>f, <1>g DEF CleanupAnswered
  <2>2. CASE GoOn([Operation(op.kind, "capture") EXCEPT !.attempt = op.attempt + 1], "watch")
    <3> DEFINE o == Operation(op.kind, "capture")
               p == [o EXCEPT !.attempt = op.attempt + 1]
    <3>1. DOMAIN o = DOMAIN NoOp /\ o.phase = "capture" /\ o.at = 1
      BY OperationIs DEF BaseInv
    <3>2. GoOn(p, "watch")
      BY <2>2
    <3> HIDE DEF o
    <3>3. p.phase = "capture" /\ p.at = 1
      BY <3>1 DEF NoOp
    <3>4. CaptureSteps[1] = "watch"
      BY DEF CaptureSteps
    <3> HIDE DEF p
    <3> QED
      BY <1>0, <3>2, <3>3, <3>4, GoingIsCurrent
  <2> QED
    BY <1>b, <1>c, <1>d, <2>1, <2>2
<1>10. CASE InputAnswered
  <2> DEFINE o == [op EXCEPT !.at = @ + 1]
  <2>1. \/ op' = NoOp \/ op' = [op EXCEPT !.phase = "settle"]
        \/ GoOn(o, Suboperations[op.kind][op.at + 1].method)
    BY <1>10, <1>e DEF InputAnswered
  <2>2. op.phase = "input" /\ o.phase = op.phase /\ o.kind = op.kind /\ o.at = op.at + 1
    BY <1>10, <1>b DEF InputAnswered
  <2> HIDE DEF o
  <2>3. CASE GoOn(o, Suboperations[op.kind][op.at + 1].method)
    BY <1>0, <2>2, <2>3, GoingIsCurrent
  <2> QED
    BY <1>b, <1>c, <1>d, <2>1, <2>3
<1>11. CASE SettleInput
  <2>1. op' = [op EXCEPT !.phase = "loading"] \/ op' = NoOp
    BY <1>11, <1>e, <1>f DEF SettleInput
  <2> QED
    BY <1>b, <1>c, <1>d, <2>1
<1>12. CASE AwaitLoading
  <2>1. op' = [op EXCEPT !.phase = "document", !.cursor = op.fence, !.cancelled = FALSE] \/ op' = NoOp
    BY <1>12, <1>f, <1>g DEF AwaitLoading
  <2> QED
    BY <1>b, <1>c, <1>d, <2>1
<1>13. CASE ConnectClient
  <2>1. op = NoOp
    BY <1>13 DEF ConnectClient, StageInv, PhaseInv
  <2>2. op' = op \/ op' = Operation("launch", "setup")
    BY <1>13 DEF ConnectClient
  <2> QED
    BY <1>a, <1>c, <1>d, <2>1, <2>2
<1>14. CASE SetupAnswered
  <2>1. op.phase = "setup" /\ (op' = NoOp \/ op' = [op EXCEPT !.at = @ + 1])
    BY <1>14, <1>g DEF SetupAnswered
  <2> QED
    BY <1>b, <1>c, <1>d, <2>1
<1> QED
  BY <1>1, <1>2, <1>3, <1>4, <1>5, <1>6, <1>7, <1>8, <1>9, <1>10, <1>11, <1>12, <1>13, <1>14 DEF CallerSteps

(* Operations stay at their stages, and wait for what they issued.          *)
LEMMA StageInductive ==
  ASSUME BaseInv, StageInv, [Next]_vars
  PROVE  StageInv'
<1>0. CallerSteps \/ LifeSteps \/ Close \/ Elsewhere
  BY NextIs
<1>1. CASE CallerSteps
  <2>1. CallerFrame
    BY <1>1, CallerFrames DEF BaseInv, ConnInv
  <2>2. PhaseInv'
    BY <1>1, <2>1, CallerPhase DEF StageInv, Staged, OpPhase, PhaseInv, CallerFrame
  <2> QED
    BY <1>1, <2>2, CallerCurrent DEF StageInv
<1>2. CASE LifeSteps
  <2>1. UNCHANGED <<call, queue, toChrome, journal, op, results>>
    BY <1>2, LifeStepsAre DEF transport
  <2> QED
    BY <1>2, <2>1, LifeMoves DEF StageInv, PhaseInv, CurrentInv, InFlight, Number
<1>3. CASE Close
  <2>1. InFlight' = {} /\ op' = NoOp /\ journal' = NewJournal /\ life'.at = "closing"
    BY <1>3, ClosedIs DEF Close, Discard
  <2>2. NewJournal.cursor = 0
    BY DEF NewJournal
  <2> QED
    BY <2>1, <2>2, OperationIs DEF StageInv, PhaseInv, CurrentInv, BaseInv
<1>4. CASE Elsewhere
  <2>1. op' = op /\ results' = results /\ life'.at = life.at
    BY <1>4 DEF Elsewhere, Bystanding
  <2>2. call'.id = call.id /\ InFlight' \subseteq InFlight
    <3>1. CASE ChromeHandles
      BY <3>1, HandlesKeeps DEF BaseInv
    <3>2. CASE Moving
      BY <3>2 DEF Moving
    <3> QED
      BY <1>4, <3>1, <3>2, ElsewhereIs
  <2>3. op.fence \in Nat /\ op.cursor \in Nat /\ journal.cursor \in Nat /\ journal'.cursor \in Nat
        /\ journal'.cursor >= journal.cursor
    <3>1. journal' = journal \/ journal'.cursor = journal.cursor + 1
      <4>1. CASE Serves
        <5>1. journal' = journal \/ (fromChrome # <<>> /\ journal' \in Recorded(Head(fromChrome).kind))
          BY <4>1, ServesIs DEF BaseInv, Receives
        <5>2. fromChrome # <<>> => Head(fromChrome).kind \in Kinds
          BY TailOf DEF BaseInv, ConnInv, ChannelTypes
        <5> QED
          BY <5>1, <5>2, RecordedIs DEF BaseInv
      <4>2. CASE Drift
        BY <4>2, MovesAre DEF Drift
      <4>3. CASE Fails \/ Take
        BY <4>3 DEF Fails, Breaks, Hangs, Exits, Kill, Take
      <4>4. CASE ChromeHandles
        BY <4>4 DEF ChromeHandles
      <4> QED
        BY <1>4, <4>1, <4>2, <4>3, <4>4 DEF Elsewhere
    <3> QED
      BY <3>1 DEF BaseInv, OpTypes, JournalTypes
  <2>4. PhaseInv'
    BY <2>1, <2>3 DEF StageInv, PhaseInv
  <2>5. CurrentInv'
    BY <2>1, <2>2 DEF StageInv, CurrentInv, Number
  <2> QED
    BY <2>4, <2>5 DEF StageInv
<1> QED
  BY <1>0, <1>1, <1>2, <1>3, <1>4

-----------------------------------------------------------------------------

(* What of the types the arguments above do not need: flags are flags, the  *)
(* worker is in a state that exists, the journal is bounded, and no command *)
(* is open where nothing is waited for but time.                            *)
WorkerStates == {"unconnected", "initialize", "idle", "awaiting", "stopped"}
Waitless == {"none", "settle", "loading"}
CallTypes == call.open \in BOOLEAN /\ call.dead \in BOOLEAN
WireInv ==
  /\ CallTypes /\ worker.at \in WorkerStates
  /\ Len(journal.events) <= MAX_EVENTS
  /\ op.phase \in Waitless => ~call.open

(* How a step of the caller leaves the call.                                *)
Going == \E o, m : GoOn(o, m) /\ o.phase \notin Waitless
Holding == UNCHANGED call /\ op.phase \in Waitless /\ op'.phase \in Waitless
Connecting ==
  /\ ConnectClient
  /\ \/ Issue(Place(Number, 1), LaunchSteps[1], FALSE) /\ op'.phase = "setup"
     \/ UNCHANGED <<call, op>>
Cancelling == Cancel /\ op'.phase = "input"
Calls == Going \/ HangUp \/ Holding \/ Connecting \/ Cancelling

(* A step of the caller goes on with a command, leaves it, or awaits no     *)
(* command.                                                                 *)
LEMMA CallerCalls ==
  ASSUME OpTypes, JournalTypes, CallerSteps
  PROVE  Calls
<1>0. DOMAIN op = DOMAIN NoOp /\ "phase" \in DOMAIN op
  BY DEF OpTypes, NoOp
<1>a. \A kind, phase : Operation(kind, phase).phase = phase /\ "phase" \in DOMAIN Operation(kind, phase)
  BY PhaseOfOperation
<1>b. \A o, m : GoOn(o, m) /\ o.phase \notin Waitless => Calls
  BY DEF Calls, Going
<1>c. HangUp => Calls
  BY DEF Calls
<1>d. (\A result : Finish(result) => Calls) /\ (Fail => Calls)
  BY DEF Finish, Fail, Calls
<1>1. CASE Navigate \/ \E kind \in Captures : Capture(kind)
  BY <1>1, <1>a, <1>b DEF Navigate, Capture, Waitless
<1>2. CASE \E kind \in Operations : Perform(kind)
  BY <1>2, <1>a, <1>b DEF Perform, Waitless
<1>3. CASE Cancel
  <2>1. op' = [op EXCEPT !.cancelled = TRUE] /\ op.phase = "input"
    BY <1>3 DEF Cancel
  <2> QED
    BY <1>0, <1>3, <2>1 DEF Calls, Cancelling
<1>4. CASE CommitAnswered
  <2>1. [op EXCEPT !.phase = "document"].phase = "document"
    BY <1>0
  <2> QED
    BY <1>4, <1>b, <1>d, <2>1 DEF CommitAnswered, Waitless
<1>5. CASE DocumentAnswered
  <2>0. op.phase = "document"
    BY <1>5 DEF DocumentAnswered
  <2>1. [op EXCEPT !.phase = "width"].phase = "width"
    BY <1>0
  <2>2. \A quiet : [op EXCEPT !.quiet = quiet, !.cursor = journal.cursor, !.polls = @ + 1].phase = "document"
    BY <1>0, <2>0
  <2> QED
    BY <1>5, <1>b, <1>d, <2>1, <2>2 DEF DocumentAnswered, Waitless
<1>6. CASE WidthAnswered \/ WithheldAnswered
  BY <1>6, <1>d DEF WidthAnswered, WithheldAnswered
<1>7. CASE CaptureAnswered
  <2>0. op.phase = "capture"
    BY <1>7 DEF CaptureAnswered
  <2>1. ASSUME NEW verdict, NEW seen, CleanUp(verdict, seen) PROVE Calls
    <3>1. \A at : [op EXCEPT !.phase = "cleanup", !.at = at, !.verdict = verdict, !.seen = seen].phase = "cleanup"
      BY <1>0
    <3> QED
      BY <1>b, <2>1, <3>1 DEF CleanUp, Waitless
  <2>2. ASSUME NEW seen, Judge(seen) PROVE Calls
    BY <2>1, <2>2 DEF Judge
  <2> DEFINE on == [op EXCEPT !.at = @ + 1]
  <2>3. on.phase = "capture" /\ "phase" \in DOMAIN on
    BY <1>0, <2>0
  <2> HIDE DEF on
  <2>4. \A b : [on EXCEPT !.fence = journal.cursor, !.renewed = b].phase = "capture"
    BY <2>3
  <2>5. \A seen : [on EXCEPT !.seen = seen].phase = "capture"
    BY <2>3
  <2>6. \E verdict, seen : \/ CleanUp(verdict, seen) \/ Judge(seen)
                           \/ \E m : \/ GoOn([on EXCEPT !.fence = journal.cursor,
                                                        !.renewed = Overtaken], m)
                                     \/ GoOn(on, m) \/ GoOn([on EXCEPT !.seen = seen], m)
    BY <1>7 DEF CaptureAnswered, on
  <2> QED
    BY <1>b, <2>1, <2>2, <2>3, <2>4, <2>5, <2>6 DEF Waitless
<1>8. CASE CleanupAnswered
  <2>0. op.phase = "cleanup"
    BY <1>8 DEF CleanupAnswered
  <2>1. [op EXCEPT !.at = @ + 1].phase = "cleanup" /\ [op EXCEPT !.phase = "withheld"].phase = "withheld"
    BY <1>0, <2>0
  <2>2. \A attempt : [Operation(op.kind, "capture") EXCEPT !.attempt = attempt].phase = "capture"
    <3> DEFINE o == Operation(op.kind, "capture")
    <3>1. o.phase = "capture" /\ "phase" \in DOMAIN o
      BY <1>a
    <3> HIDE DEF o
    <3>2. \A attempt : [o EXCEPT !.attempt = attempt].phase = "capture"
      BY <3>1
    <3> QED
      BY <3>2 DEF o
  <2> QED
    BY <1>8, <1>b, <1>c, <1>d, <2>1, <2>2 DEF CleanupAnswered, Waitless
<1>9. CASE InputAnswered
  <2>0. op.phase = "input"
    BY <1>9 DEF InputAnswered
  <2>1. [op EXCEPT !.at = @ + 1].phase = "input"
    BY <1>0, <2>0
  <2> QED
    BY <1>9, <1>b, <1>c, <1>d, <2>1 DEF InputAnswered, Waitless
<1>10. CASE SettleInput
  <2>1. op.phase = "settle" /\ [op EXCEPT !.phase = "loading"].phase = "loading"
    BY <1>0, <1>10 DEF SettleInput
  <2> QED
    BY <1>10, <1>d, <2>1 DEF SettleInput, Calls, Holding, Waitless
<1>11. CASE AwaitLoading
  <2>1. [op EXCEPT !.phase = "document", !.cursor = op.fence, !.cancelled = FALSE].phase = "document"
    BY <1>0
  <2> QED
    BY <1>11, <1>b, <1>d, <2>1 DEF AwaitLoading, Waitless
<1>12. CASE ConnectClient
  <2>1. \/ Issue(Place(Number, 1), LaunchSteps[1], FALSE) /\ op' = Operation("launch", "setup")
        \/ UNCHANGED <<call, op>>
    BY <1>12 DEF ConnectClient
  <2> QED
    BY <1>12, <1>a, <2>1 DEF Calls, Connecting
<1>13. CASE SetupAnswered
  <2>0. op.phase = "setup"
    BY <1>13 DEF SetupAnswered
  <2>1. [op EXCEPT !.at = @ + 1].phase = "setup"
    BY <1>0, <2>0
  <2> QED
    BY <1>13, <1>b, <1>c, <2>1 DEF SetupAnswered, Waitless
<1> QED
  BY <1>1, <1>2, <1>3, <1>4, <1>5, <1>6, <1>7, <1>8, <1>9, <1>10, <1>11, <1>12, <1>13 DEF CallerSteps

(* A call that is issued or hung up has its flags, and so has one that is   *)
(* changed elsewhere in its reply or its death.                             *)
LEMMA FlagsKept ==
  ASSUME DOMAIN call = DOMAIN NoCall, CallTypes
  PROVE  /\ \A by, method, cancelled : Issue(by, method, cancelled) => CallTypes'
         /\ HangUp => CallTypes' /\ ~call'.open
         /\ \A a : call' = [call EXCEPT !.reply = a] => CallTypes' /\ call'.open = call.open
         /\ \A b \in BOOLEAN : call' = [call EXCEPT !.dead = b] => CallTypes' /\ call'.open = call.open
         /\ \A r, a : Reply(r, a) => CallTypes' /\ call'.open = call.open
         /\ call' = call => CallTypes' /\ call'.open = call.open
<1>0. "open" \in DOMAIN call /\ "dead" \in DOMAIN call
  BY DEF NoCall
<1>1. ASSUME NEW by, NEW method, NEW cancelled, Issue(by, method, cancelled) PROVE CallTypes'
  <2>1. call'.open = TRUE /\ call'.dead = FALSE
    BY <1>1 DEF Issue
  <2> QED
    BY <2>1, Zenon DEF CallTypes
<1>2. ASSUME HangUp PROVE CallTypes' /\ ~call'.open
  <2>1. call'.open = FALSE /\ call'.dead = FALSE
    BY <1>0, <1>2 DEF HangUp
  <2> QED
    BY <2>1, Zenon DEF CallTypes
<1>3. ASSUME NEW a, call' = [call EXCEPT !.reply = a] PROVE CallTypes' /\ call'.open = call.open
  <2>1. call'.open = call.open /\ call'.dead = call.dead
    BY <1>0, <1>3
  <2> QED
    BY <2>1, Zenon DEF CallTypes
<1>4. ASSUME NEW b \in BOOLEAN, call' = [call EXCEPT !.dead = b] PROVE CallTypes' /\ call'.open = call.open
  <2>1. call'.open = call.open /\ call'.dead = b
    BY <1>0, <1>4
  <2> QED
    BY <2>1, Zenon DEF CallTypes
<1>5. call' = call => CallTypes' /\ call'.open = call.open
  BY Zenon DEF CallTypes
<1>6. ASSUME NEW r, NEW a, Reply(r, a) PROVE CallTypes' /\ call'.open = call.open
  <2>1. call' = [call EXCEPT !.reply = a] \/ call' = call
    BY <1>6 DEF Reply
  <2> QED
    BY <1>3, <1>5, <2>1
<1> QED
  BY <1>1, <1>2, <1>3, <1>4, <1>5, <1>6

(* The caller keeps the flags, and leaves no command open behind it.        *)
LEMMA CallsKeep ==
  ASSUME DOMAIN call = DOMAIN NoCall, CallTypes, op.phase \in Waitless => ~call.open, Calls
  PROVE  CallTypes' /\ (op'.phase \in Waitless => ~call'.open)
<1>1. CASE Going
  <2>1. PICK o, m : GoOn(o, m) /\ o.phase \notin Waitless
    BY <1>1 DEF Going
  <2> QED
    BY <2>1, FlagsKept DEF GoOn
<1>2. CASE HangUp
  BY <1>2, FlagsKept
<1>3. CASE Holding
  BY <1>3, FlagsKept DEF Holding
<1>4. CASE Connecting
  <2>1. CASE Issue(Place(Number, 1), LaunchSteps[1], FALSE) /\ op'.phase = "setup"
    BY <2>1, FlagsKept DEF Waitless
  <2>2. CASE UNCHANGED <<call, op>>
    BY <2>2, FlagsKept
  <2> QED
    BY <1>4, <2>1, <2>2 DEF Connecting
<1>5. CASE Cancelling
  <2> DEFINE b == call.reply # NotSent
  <2>1. op'.phase = "input" /\ call' = [call EXCEPT !.dead = b]
    BY <1>5 DEF Cancelling, Cancel
  <2>2. b \in BOOLEAN
    BY Zenon
  <2> HIDE DEF b
  <2> QED
    BY <2>1, <2>2, FlagsKept DEF Waitless
<1> QED
  BY <1>1, <1>2, <1>3, <1>4, <1>5 DEF Calls

(* The worker's states are the five.                                        *)
LEMMA WorkerMoves ==
  ASSUME DOMAIN worker = DOMAIN Idle, worker.at \in WorkerStates, Take \/ Serves
  PROVE  worker'.at \in WorkerStates
<1>1. Idle.at = "idle" /\ [Idle EXCEPT !.at = "stopped"].at = "stopped"
  BY DEF Idle
<1>2. worker' = worker \/ worker' = Idle \/ worker' = [Idle EXCEPT !.at = "stopped"] \/ \E r : worker' = [at |-> "awaiting", request |-> r]
  <2>1. CASE Take
    BY <2>1 DEF Take
  <2>2. CASE Initialize \/ AwaitResponse \/ AbandonResponse
    BY <2>2 DEF Initialize, AwaitResponse, AbandonResponse
  <2>3. CASE PollIncoming \/ Disconnect \/ Expire
    BY <2>3 DEF PollIncoming, Disconnect, Expire
  <2> QED
    BY <2>1, <2>2, <2>3 DEF Serves
<1>3. \A r : [at |-> "awaiting", request |-> r].at = "awaiting"
  OBVIOUS
<1>4. worker'.at \in {worker.at, "idle", "stopped", "awaiting"}
  BY <1>1, <1>2, <1>3, Zenon
<1> QED
  BY <1>4 DEF WorkerStates

(* A step of the worker, or a deadline, keeps the call's flags.             *)
LEMMA WorkerFlags ==
  ASSUME DOMAIN call = DOMAIN NoCall, CallTypes, Take \/ Serves
  PROVE  CallTypes' /\ call'.open = call.open
<1>1. \/ call' = call \/ \E r, a : Reply(r, a)
      \/ call' = [call EXCEPT !.dead = TRUE]
  BY DEF Take, Serves, Initialize, AwaitResponse, AbandonResponse, PollIncoming, Disconnect, Expire
<1> QED
  BY <1>1, FlagsKept

(* What is recorded stays within the bound.                                 *)
LEMMA JournalBounded ==
  ASSUME BaseInv, Len(journal.events) <= MAX_EVENTS, Take \/ Serves
  PROVE  Len(journal'.events) <= MAX_EVENTS
<1>1. \A i \in DOMAIN fromChrome : fromChrome[i].kind \in Kinds
  BY DEF BaseInv, ConnInv, ChannelTypes
<1>2. fromChrome # <<>> => Head(fromChrome) = fromChrome[1] /\ 1 \in DOMAIN fromChrome
  BY TailOf DEF BaseInv, ConnInv, ChannelTypes
<1>3. journal' = journal \/ (fromChrome # <<>> /\ journal' \in Recorded(Head(fromChrome).kind))
  BY DEF Take, Serves, Initialize, AwaitResponse, AbandonResponse, PollIncoming, Disconnect, Expire
<1> QED
  BY <1>1, <1>2, <1>3, RecordedIs DEF BaseInv

(* The flags, the worker's state, the bound and the closed calls are kept.  *)
LEMMA WireInductive == BaseInv /\ WireInv /\ [Next]_vars => WireInv'
<1> SUFFICES ASSUME BaseInv, WireInv, [Next]_vars PROVE WireInv'
  OBVIOUS
<1>0. /\ DOMAIN call = DOMAIN NoCall /\ DOMAIN worker = DOMAIN Idle /\ ChannelTypes /\ OpTypes /\ JournalTypes
      /\ CallTypes /\ worker.at \in WorkerStates /\ Len(journal.events) <= MAX_EVENTS
      /\ (op.phase \in Waitless => ~call.open)
  BY DEF BaseInv, ConnInv, ChannelTypes, WireInv
<1>1. CASE CallerSteps
  <2>1. CallTypes' /\ (op'.phase \in Waitless => ~call'.open)
    BY <1>0, <1>1, CallerCalls, CallsKeep
  <2>2. journal' = journal
    BY <1>0, <1>1, CallerFrames DEF CallerFrame
  <2>3. worker'.at \in WorkerStates
    <3>1. CASE ConnectClient
      <4>1. worker' = worker \/ worker' = [worker EXCEPT !.at = "initialize"]
        BY <3>1 DEF ConnectClient
      <4>2. "at" \in DOMAIN worker
        BY <1>0 DEF Idle
      <4> QED
        BY <1>0, <4>1, <4>2 DEF WorkerStates
    <3>2. CASE ~ConnectClient
      <4>1. worker' = worker
        BY <1>1, <3>2
        DEF CallerSteps, Caller, Navigate, Cancel, Capture, Perform, CommitAnswered, DocumentAnswered, WidthAnswered,
            CaptureAnswered, CleanupAnswered, WithheldAnswered, InputAnswered, SettleInput, AwaitLoading, SetupAnswered
      <4> QED
        BY <1>0, <4>1
    <3> QED
      BY <3>1, <3>2
  <2> QED
    BY <1>0, <2>1, <2>2, <2>3 DEF WireInv
<1>2. CASE LifeSteps
  <2>1. call' = call /\ op' = op /\ worker' = worker /\ journal' = journal
    BY <1>2, LifeStepsAre DEF transport
  <2> QED
    BY <1>0, <2>1, FlagsKept DEF WireInv
<1>3. CASE Close
  <2>1. call' = NoCall /\ worker' = Unconnected /\ journal' = NewJournal
    BY <1>3 DEF Close, Discard
  <2>2. call'.open = FALSE /\ call'.dead = FALSE
    BY <2>1 DEF NoCall
  <2>3. CallTypes' /\ ~call'.open
    BY <2>2, Zenon DEF CallTypes
  <2>4. worker'.at \in WorkerStates /\ Len(journal'.events) <= MAX_EVENTS
    BY <2>1, WindowAssumption DEF Unconnected, Idle, WorkerStates, NewJournal
  <2> QED
    BY <2>3, <2>4 DEF WireInv
<1>4. CASE Elsewhere
  <2>0. op' = op
    BY <1>4 DEF Elsewhere, Bystanding
  <2>1. CASE Drift \/ Fails \/ ChromeHandles
    <3>1. UNCHANGED <<call, worker, journal>>
      BY <2>1 DEF Drift, Fails, ChromeHandles, DomChanges, Repaints, OpensPopup, StartsLoading, FinishesLoading,
                  Moves, PageMoves, Breaks, Hangs, Exits, Kill
    <3> QED
      BY <1>0, <2>0, <3>1, FlagsKept DEF WireInv
  <2>2. CASE Take \/ Serves
    BY <1>0, <2>0, <2>2, WorkerMoves, WorkerFlags, JournalBounded DEF WireInv
  <2> QED
    BY <1>4, <2>1, <2>2 DEF Elsewhere
<1> QED
  BY <1>1, <1>2, <1>3, <1>4, NextIs

(* A new session has no call, no connection and no events.                  *)
LEMMA WireInitially == Init => WireInv
<1> SUFFICES ASSUME Init PROVE WireInv
  OBVIOUS
<1>1. call = NoCall /\ worker = Unconnected /\ journal = NewJournal
  BY DEF Init, InitTransport
<1>2. call.open = FALSE /\ call.dead = FALSE
  BY <1>1 DEF NoCall
<1>3. CallTypes /\ ~call.open
  BY <1>2, Zenon DEF CallTypes
<1>4. worker.at \in WorkerStates /\ Len(journal.events) <= MAX_EVENTS
  BY <1>1, WindowAssumption DEF Unconnected, Idle, WorkerStates, NewJournal
<1> QED
  BY <1>3, <1>4 DEF WireInv

(* TypeOK: the parts of a session are what they are taken for, no request   *)
(* is newer than the latest call, the journal is bounded and loses nothing  *)
(* it does not count, and no command is open where none is waited for       *)
(* (CdpClient, EventJournal).                                               *)
THEOREM SessionsAreTyped == Spec => []TypeOK
<1>1. BaseInv /\ BrowserInv /\ WireInv => TypeOK
  <2> SUFFICES ASSUME BaseInv, BrowserInv, WireInv PROVE TypeOK
    OBVIOUS
  <2>1. \A n \in Requested \cup {worker.request.id} : n <= call.id
    <3>1. \A r \in InFlight : r.id \in 1..call.id
      BY DEF BaseInv, ConnInv, ChannelInv
    <3>2. \A n \in Requested : \E r \in InFlight : n = r.id
      BY DEF Requested, InFlight
    <3>3. call.id \in Nat /\ worker.request.id <= call.id
      BY DEF BaseInv, ConnInv, ChannelInv, ChannelTypes
    <3> QED
      BY <3>1, <3>2, <3>3
  <2>2. proc \in {"none", "running", "hung", "exited", "reaped"}
    BY DEF BrowserInv, Unreaped
  <2>3. call.id \in Nat /\ journal.cursor = journal.dropped + Len(journal.events)
    BY DEF BaseInv, ConnInv, ChannelTypes, JournalInv
  <2>4. call.open \in BOOLEAN /\ call.dead \in BOOLEAN
    BY Zenon DEF WireInv, CallTypes
  <2>5. /\ worker.at \in {"unconnected", "initialize", "idle", "awaiting", "stopped"}
        /\ Len(journal.events) <= MAX_EVENTS
        /\ op.phase = "none" => ~call.open
        /\ op.phase \in {"settle", "loading"} => ~call.open
    BY DEF WireInv, WorkerStates, Waitless
  <2> QED
    BY <2>1, <2>2, <2>3, <2>4, <2>5, Zenon DEF TypeOK
<1>2. Init => BrowserInv
  BY DEF Init, InitTransport, BrowserInv, LifeInv, SetupInv, NoOp, Lives, Terminations, Over
<1> QED
  BY <1>1, <1>2, BrowserInductive, BaseInitially, BaseInductive, WireInitially, WireInductive, PTL DEF Spec
=============================================================================
