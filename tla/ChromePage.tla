----------------------------- MODULE ChromePage -----------------------------
(***************************************************************************)
(* The page behind the connection, as the code of manuvra-chrome counts on *)
(* it: commands take effect one at a time in the order they were sent, and *)
(* an event is on the socket before the response to a later command.       *)
(* Chrome itself is no part of this repository.                            *)
(***************************************************************************)
EXTENDS CdpTransport

VARIABLES
  op,       \* the operation in progress on the client's side
  page,     \* the page's state
  effects   \* history: the input Chrome handled, in order

chrome == <<page, effects, proc>>

NewPage == [version |-> 0, paint |-> 0, text |-> "gone", watched |-> FALSE, masked |-> -1,
            loading |-> FALSE, popup |-> FALSE, live |-> FALSE]

Event(kind) == [id |-> 0, kind |-> kind, answer |-> None]
Response(r, outcome, value) == [id |-> r.id, kind |-> "response", answer |-> Outcome(outcome, value)]

(* Chrome reports a DOM mutation only while the document is requested.      *)
Mutation(kind) == IF page.watched THEN <<Event(kind)>> ELSE <<>>
Emit(events) == fromChrome' = IF broken THEN fromChrome ELSE fromChrome \o events

-----------------------------------------------------------------------------
(* Commands.  "dispatch" is input without text: a press, a release, a key,  *)
(* a move, a wheel; "insert" and "set" enter text, which the page may        *)
(* ignore or alter.                                                         *)
EnteredText == IF page.text = "gone" THEN {"gone"} ELSE {page.text, "wanted"}
Inputs == {"dispatch", "insert", "set"}
View == [version |-> page.version, paint |-> page.paint, masked |-> page.masked, popup |-> page.popup]

(* The text of the target is told relative to the observation the input was *)
(* prepared from; after a navigation there is no such target.               *)
(* The states a command may leave the page in, with the events before its   *)
(* response and the response's value.                                       *)
Handled(method) ==
  CASE method = "revalidate"  -> {<<page, <<>>, v>> : v \in {"no_target"} \cup (IF page.text = "gone" THEN {} ELSE {"target"})}
    [] method = "insert"      -> {<<[page EXCEPT !.text = t], <<>>, "done">> : t \in EnteredText}
    [] method = "set"         -> IF page.text = "gone" THEN {<<page, <<>>, "no_target">>}
                                 ELSE {<<[page EXCEPT !.text = t], <<>>, "done">> : t \in EnteredText}
    [] method = "read_text"   -> {<<page, <<>>, IF page.text = "gone" THEN "no_target" ELSE page.text>>}
    [] method = "navigate"    -> {<<[page EXCEPT !.loading = TRUE, !.live = TRUE], <<Event("started")>>, "done">>,
                                  <<page, <<>>, "error_text">>}
    [] method = "ready_state" -> {<<page, <<>>, IF page.loading THEN "loading" ELSE "complete">>}
    [] method = "watch"       -> {<<[page EXCEPT !.watched = TRUE], <<>>, "done">>}
    [] method = "unwatch"     -> {<<[page EXCEPT !.watched = FALSE], <<>>, "done">>}
    [] method = "mask"        -> {<<[page EXCEPT !.masked = page.version], Mutation("mask"), "verified">>,
                                  <<page, <<>>, "unverifiable">>}
    [] method = "unmask"      -> {<<[page EXCEPT !.masked = -1], Mutation("changed"), "done">>}
    [] method \in {"observe", "screenshot"} -> {<<page, <<>>, View>>}
    [] OTHER                  -> {<<page, <<>>, "done">>}

(* A command is handled, or rejected without an effect.                     *)
ChromeHandles ==
  /\ proc = "running" /\ toChrome # <<>>
  /\ toChrome' = Tail(toChrome)
  /\ LET r == Head(toChrome) IN
     \/ \E h \in Handled(r.method) :
          /\ page' = h[1] /\ surprises' = surprises
          /\ Emit(h[2] \o <<Response(r, "confirmed", h[3])>>)
          /\ effects' = IF r.method \in Inputs /\ h[3] = "done"
                        THEN Append(effects, [by |-> r.by, method |-> r.method, changed |-> page.text # h[1].text])
                        ELSE effects
     \/ Surprise /\ Emit(<<Response(r, "rejected", "none")>>) /\ UNCHANGED <<page, effects>>
  /\ UNCHANGED <<call, queue, worker, broken, journal, proc>>

(* What the page does by itself, once it is the application's.  It does so  *)
(* while Chrome is waited for, and while the client watches the page settle:*)
(* what happens between commands could as well have happened then.  Loads   *)
(* that have begun end; whatever else it does is one of the surprises.      *)
PageMoves(p, events) ==
  /\ proc = "running" /\ page.live
  /\ worker.at = "awaiting" \/ op.phase \in {"settle", "loading"}
  /\ page' = p /\ Emit(events)
  /\ UNCHANGED <<call, queue, worker, toChrome, broken, journal, effects, proc>>
Moves(p, events) == Surprise /\ PageMoves(p, events)

DomChanges == Moves([page EXCEPT !.version = @ + 1], Mutation("changed"))
Repaints == Moves([page EXCEPT !.paint = @ + 1], <<>>)
OpensPopup == ~page.popup /\ Moves([page EXCEPT !.popup = TRUE], <<Event("popup")>>)
StartsLoading == ~page.loading /\ Moves([page EXCEPT !.loading = TRUE], <<Event("started")>>)

(* The new document is committed and loaded; it has no watched nodes and no *)
(* masks.                                                                   *)
FinishesLoading ==
  /\ page.loading
  /\ PageMoves([page EXCEPT !.loading = FALSE, !.version = @ + 1, !.watched = FALSE, !.masked = -1,
                            !.text = "gone"],
               <<Event("navigated"), Event("stopped")>>)
  /\ surprises' = surprises

(* The socket breaks, with or without what was on its way to the client;    *)
(* the process hangs or exits by itself.  Each does so while it is waited   *)
(* for: between two commands it could as well have done so after the second *)
(* was sent.                                                                *)
Breaks ==
  /\ ~broken /\ worker.at = "awaiting" /\ Surprise
  /\ broken' = TRUE /\ fromChrome' \in {fromChrome, <<>>}
  /\ UNCHANGED <<call, queue, worker, toChrome, journal, chrome>>
Hangs ==
  /\ proc = "running" /\ toChrome # <<>> /\ Surprise
  /\ proc' = "hung" /\ toChrome' = <<>>
  /\ UNCHANGED <<call, queue, worker, fromChrome, broken, journal, page, effects>>
Exits ==
  /\ proc \in {"running", "hung"} /\ worker.at \in {"unconnected", "awaiting"} /\ Surprise
  /\ proc' = "exited" /\ broken' = TRUE /\ toChrome' = <<>>
  /\ UNCHANGED <<call, queue, worker, fromChrome, journal, page, effects>>

Chrome ==
  \/ ChromeHandles \/ DomChanges \/ Repaints \/ OpensPopup \/ StartsLoading \/ FinishesLoading
  \/ Breaks \/ Hangs

InitChrome == page = NewPage /\ effects = <<>>
=============================================================================
