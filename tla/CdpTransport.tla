---------------------------- MODULE CdpTransport ----------------------------
(***************************************************************************)
(* The connection to Chrome's debugging port: CdpClient, the worker thread *)
(* that owns its socket, and the bounded journal of received events.  One  *)
(* thread calls at a time.  A call may return before the worker is done    *)
(* with its request, which is then still queued or on the socket.          *)
(***************************************************************************)
EXTENDS Integers, Sequences

CONSTANTS
  MAX_EVENTS,  \* the journal's window
  Large,       \* kinds of events that may exceed MAX_EVENT_BYTES on their own
  MaxSurprises \* bound: failures of Chrome or its connection, cancellations, the page's own moves

ASSUME WindowAssumption == MAX_EVENTS \in Nat \ {0} /\ MaxSurprises \in Nat

VARIABLES
  call,        \* the latest command of the caller
  queue,       \* requests the worker has not taken
  worker,      \* the worker thread: what it does, and for which request
  toChrome, fromChrome,  \* the two directions of the socket
  broken,      \* the socket is closed
  journal,     \* the events received
  proc,        \* the browser's process
  surprises    \* what happened so far that no command asked for

transport == <<call, queue, worker, toChrome, fromChrome, broken, journal>>

Surprise == surprises < MaxSurprises /\ surprises' = surprises + 1

-----------------------------------------------------------------------------
(* The journal.  An event has its kind here; cursors count events from 1.   *)
(* arrived is the set of methods ever received, with the cursor of the      *)
(* latest of each, which only the properties read.                          *)
Kinds == {"changed", "mask", "navigated", "started", "stopped", "popup", "response"}
Relevant == {"changed", "mask", "navigated"}
NewJournal == [cursor |-> 0, dropped |-> 0, events |-> <<>>, arrived |-> [k \in Kinds |-> 0]]

(* Record and evict: what is kept is the newest MAX_EVENTS, and nothing     *)
(* after an event that is larger than the byte bound.                       *)
Recorded(kind) ==
  LET all == Append(journal.events, [cursor |-> journal.cursor + 1, kind |-> kind])
      most == IF Len(all) > MAX_EVENTS THEN MAX_EVENTS ELSE Len(all)
      Keeping(k) ==
        [cursor  |-> journal.cursor + 1,
         dropped |-> IF k < Len(all) THEN all[Len(all) - k].cursor ELSE journal.dropped,
         events  |-> SubSeq(all, Len(all) - k + 1, Len(all)),
         arrived |-> [journal.arrived EXCEPT ![kind] = journal.cursor + 1]]
  IN  {Keeping(most)} \cup (IF kind \in Large THEN {Keeping(0)} ELSE {})

Retained == {journal.events[i] : i \in DOMAIN journal.events}
Since(cursor) == {e \in Retained : e.cursor > cursor}
KindsSince(cursor) == {e.kind : e \in Since(cursor)}

(* Mutant of LostEventsSince: told from the oldest event that is kept.      *)
LostBeforeOldest(cursor) == journal.events # <<>> /\ cursor + 1 < journal.events[1].cursor

LostEventsSince(cursor) == cursor < journal.dropped

(* Mutant of HasReceived: looked up among the events that are kept.         *)
HasRetained(kind) == \E e \in Retained : e.kind = kind

HasReceived(kind) == journal.arrived[kind] # 0

-----------------------------------------------------------------------------
(* Calls.  An outcome is one of the four of CommandOutcome.  A request's    *)
(* caller has returned without an answer only after its deadline or its     *)
(* cancellation, so every request but the latest is dead.  by, which only   *)
(* histories keep, is the operation that a request belongs to and the place *)
(* of the request in it.                                                    *)
Outcome(o, value) == [outcome |-> o, value |-> value]
NotSent == Outcome("not_sent", "none")
Unknown == Outcome("unknown", "none")
None == Outcome("none", "none")

Dead(r) == r.id < call.id \/ call.dead

(* CdpClient::command: nothing is queued on a connection known to be closed *)
(* or under a cancellation.                                                 *)
Disconnected == worker.at = "stopped"
Issue(by, method, cancelled) ==
  LET r == [id |-> call.id + 1, by |-> by, method |-> method] IN
  IF Disconnected \/ cancelled
  THEN /\ call' = [id |-> r.id, open |-> TRUE, dead |-> FALSE, reply |-> NotSent]
       /\ queue' = queue
  ELSE /\ call' = [id |-> r.id, open |-> TRUE, dead |-> FALSE, reply |-> None]
       /\ queue' = Append(queue, r)

(* What the caller may return with: the worker's reply, and, once its       *)
(* deadline passed or it is cancelled, that the outcome is unknown, even    *)
(* when the reply arrives at that moment.                                   *)
Awaited == worker.at = "awaiting" /\ worker.request.id = call.id

(* Mutant of Answers: the caller waits for the worker's reply, however long.*)
AnswersInTime == {call.reply} \ {None}

Answers == ({call.reply} \ {None}) \cup (IF call.dead /\ ~Awaited THEN {Unknown} ELSE {})

HangUp == call' = [call EXCEPT !.open = FALSE, !.dead = FALSE, !.reply = None] /\ queue' = queue

(* The deadline passes: before an answer that is late, or because none can  *)
(* come any more.                                                           *)
Gone == broken \/ proc # "running"
Unanswerable == Disconnected \/ (proc # "running" /\ worker.at = "awaiting")
Expire ==
  /\ call.open /\ ~call.dead /\ call.reply # NotSent
  /\ Surprise \/ (Unanswerable /\ surprises' = surprises)
  /\ call' = [call EXCEPT !.dead = TRUE]
  /\ UNCHANGED <<queue, worker, toChrome, fromChrome, broken, journal, proc>>

-----------------------------------------------------------------------------
(* The worker.  Its reply to a caller that is gone is dropped.              *)
Reply(r, outcome) ==
  call' = IF call.open /\ r.id = call.id THEN [call EXCEPT !.reply = outcome] ELSE call
Place(operation, at) == [op |-> operation, at |-> at]
Idle == [at |-> "idle", request |-> [id |-> 0, by |-> Place(0, 0), method |-> "none"]]

(* The domains are enabled under deadlines of their own; a failure ends the *)
(* worker before it served a request.                                       *)
Initialize ==
  /\ worker.at = "initialize"
  /\ \/ ~broken /\ worker' = Idle /\ surprises' = surprises
     \/ worker' = [Idle EXCEPT !.at = "stopped"] /\ (Surprise \/ (Gone /\ surprises' = surprises))
  /\ UNCHANGED <<call, queue, toChrome, fromChrome, broken, journal>>

(* A request whose deadline has passed is not sent.  What is sent to a      *)
(* process that hangs or is gone is never handled.  The send that finds the *)
(* socket broken, or breaks it, may have delivered the request.             *)
Sent(r) == IF proc = "running" THEN Append(toChrome, r) ELSE toChrome
Take ==
  /\ worker.at = "idle" /\ queue # <<>>
  /\ queue' = Tail(queue)
  /\ LET r == Head(queue) IN
     IF Dead(r)
     THEN Reply(r, NotSent) /\ UNCHANGED <<worker, toChrome, broken, surprises>>
     ELSE \/ /\ ~broken /\ toChrome' = Sent(r)
             /\ worker' = [at |-> "awaiting", request |-> r]
             /\ UNCHANGED <<call, broken, surprises>>
          \/ /\ \/ broken /\ UNCHANGED <<toChrome, broken, surprises>>
                \/ ~broken /\ Surprise /\ broken' = TRUE /\ toChrome' \in {toChrome, Sent(r)}
             /\ Reply(r, Unknown) /\ worker' = worker
  /\ UNCHANGED <<fromChrome, journal>>

(* await_command_response: the response with the request's id, an event for *)
(* the journal, or a late response to an earlier request, which is ignored. *)
AwaitResponse ==
  /\ worker.at = "awaiting" /\ fromChrome # <<>>
  /\ fromChrome' = Tail(fromChrome)
  /\ LET m == Head(fromChrome) IN
     CASE m.id = worker.request.id ->
            Reply(worker.request, m.answer) /\ worker' = Idle /\ journal' = journal
       [] m.id = 0 -> journal' \in Recorded(m.kind) /\ UNCHANGED <<call, worker>>
       [] OTHER -> UNCHANGED <<call, worker, journal>>
  /\ UNCHANGED <<queue, toChrome, broken, surprises>>

AbandonResponse ==
  /\ worker.at = "awaiting"
  /\ Dead(worker.request) \/ (broken /\ fromChrome = <<>>)
  /\ Reply(worker.request, Unknown) /\ worker' = Idle
  /\ UNCHANGED <<queue, toChrome, fromChrome, broken, journal, surprises>>

(* Between requests everything that arrives is an event, late responses     *)
(* included.                                                                *)
PollIncoming ==
  /\ worker.at = "idle" /\ queue = <<>> /\ fromChrome # <<>>
  /\ fromChrome' = Tail(fromChrome)
  /\ journal' \in Recorded(Head(fromChrome).kind)
  /\ UNCHANGED <<call, queue, worker, toChrome, broken, surprises>>

Disconnect ==
  /\ worker.at = "idle" /\ queue = <<>> /\ fromChrome = <<>> /\ broken
  /\ worker' = [Idle EXCEPT !.at = "stopped"]
  /\ UNCHANGED <<call, queue, toChrome, fromChrome, broken, journal, surprises>>

Worker ==
  \/ Initialize \/ Take
  \/ AwaitResponse \/ AbandonResponse \/ PollIncoming \/ Disconnect

NoCall == [id |-> 0, open |-> FALSE, dead |-> FALSE, reply |-> None]
Unconnected == [Idle EXCEPT !.at = "unconnected"]
InitTransport ==
  /\ call = NoCall /\ queue = <<>> /\ worker = Unconnected
  /\ toChrome = <<>> /\ fromChrome = <<>> /\ broken = FALSE
  /\ journal = NewJournal
  /\ proc = "none" /\ surprises = 0

(* The connection is not used again.                                        *)
Discard ==
  /\ call' = NoCall /\ queue' = <<>> /\ worker' = Unconnected
  /\ toChrome' = <<>> /\ fromChrome' = <<>> /\ broken' = broken
  /\ journal' = NewJournal
=============================================================================
