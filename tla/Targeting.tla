------------------------------ MODULE Targeting ------------------------------
(***************************************************************************)
(* From what the provider answers about an observation to the input that   *)
(* is dispatched: which targets a question offers, which control, hidden   *)
(* control, scroll region or focus an answer stands for, which surfaces    *)
(* are not acted on, what a caller's candidate must still match, and what  *)
(* is prepared for the browser.                                            *)
(*                                                                         *)
(* A control is known by the document and its node; an index only counts   *)
(* the controls of one observation.                                        *)
(***************************************************************************)
EXTENDS PageFacts

CONSTANTS
  Values,       \* the caller's values that may be typed or selected
  NoneFits,     \* the answer that none of them belongs in the field
  Keys          \* the keys that may be pressed

ElementOperations == {"CLICK", "TYPE_TEXT", "SELECT"}
ScrollOperations == {"SCROLL_UP", "SCROLL_DOWN"}
Operations == ElementOperations \cup ScrollOperations \cup {"PRESS_KEY", "WAIT", "BLOCKED"}

(* The keys of a target question: a listed element, the n-th control that   *)
(* hovering over a region reveals, or none.                                 *)
ElementKey(e) == [kind |-> "element", index |-> e.index, offset |-> 0]
RevealKey(r, n) == [kind |-> "reveal", index |-> r.index, offset |-> n]
NoTarget == [kind |-> "none", index |-> 0, offset |-> 0]

-----------------------------------------------------------------------------
(* Scrolling: the window if it moves and nothing covers it, else the one    *)
(* outermost region that moves.                                             *)
Moves(item, operation) == IF operation = "SCROLL_UP" THEN item.up ELSE item.down

Movable(o, operation) ==
  {r \in o.scroll.regions : Fits(o.scroll.overlay, r.overlay) /\ Moves(r, operation)}

(* A malformed cycle of ancestors counts as one that moves.                 *)
HasMovableAncestor(o, r, movable) ==
  LET n == Cardinality(o.scroll.regions)
      up[k \in 0..n] ==
        IF k = 0 THEN r.parent
        ELSE UNION {q.parent : q \in {p \in o.scroll.regions : p.node \in up[k - 1]}}
  IN \/ \E k \in 0..(n - 1) : up[k] \cap {m.node : m \in movable} # {}
     \/ up[n] # {}

Outermost(o, operation) ==
  LET movable == Movable(o, operation) IN
  {r \in movable : ~HasMovableAncestor(o, r, movable)}

Route(o, operation) ==
  IF o.scroll.overlay = {} /\ Moves(o.scroll.window, operation) THEN "window"
  ELSE IF o.scroll.truncated THEN "tied"
  ELSE CASE Cardinality(Outermost(o, operation)) = 0 -> "none"
         [] Cardinality(Outermost(o, operation)) = 1 -> "region"
         [] OTHER -> "tied"

-----------------------------------------------------------------------------
(* The targets of the provider's questions.                                 *)
Supporting(o, operation) == {e \in o.elements : operation \in e.operations}

ContextualClick(e) == e.container # {} /\ "CLICK" \in e.operations

(* A sole click target may belong to another item than the one required.    *)
SingletonContext(o) ==
  /\ o.hover = {}
  /\ Cardinality(Supporting(o, "CLICK")) = 1
  /\ \A e \in Supporting(o, "CLICK") : ContextualClick(e)

(* Several controls of one name, or of one item, contend for a click.       *)
Contested(o) ==
  o.hover # {} \/ (\E e \in o.elements : e.sharesName) \/ SingletonContext(o)

Reveals(o) == UNION {{RevealKey(r, n) : n \in DOMAIN r.reveals} : r \in o.hover}

HasScrollRegions(o) == \E operation \in ScrollOperations : Route(o, operation) = "region"

TargetCriteria(o, operation) ==
  LET listed == {ElementKey(e) : e \in Supporting(o, operation)}
                \cup (IF operation = "CLICK" THEN Reveals(o) ELSE {})
      mayBeNone == \/ listed = {}
                   \/ operation = "CLICK" /\ (SingletonContext(o) \/ HasScrollRegions(o))
  IN IF mayBeNone THEN listed \cup {NoTarget} ELSE listed

(* The element or the hidden control that a key stands for.                 *)
Selected(o, key) ==
  {e \in o.elements : key.kind = "element" /\ e.index = key.index}

SelectedReveal(o, key) ==
  {r \in o.hover : /\ key.kind = "reveal" /\ r.index = key.index
                   /\ key.offset \in DOMAIN r.reveals}

-----------------------------------------------------------------------------
(* An answer: [operation, target, value, key, sure, targetSure].  Of the    *)
(* three target questions the one of the chosen operation is read; sure and *)
(* targetSure are the confidence in the operation, and in the target of a   *)
(* click or the key that is pressed.                                        *)

(* A click on a hidden control is dispatched as a hover over it.            *)
DispatchedOperation(o, answer) ==
  IF answer.operation = "CLICK" /\ SelectedReveal(o, answer.target) # {}
    THEN "HOVER" ELSE answer.operation

(* Surfaces that are stopped at instead of acted on.                        *)
GapSurfaces == {"cross_origin_frame", "closed_shadow_root", "canvas", "popup"}

FileInput(e) == e.input = {"file"}

KeySurface(o, key) ==
  \E anchor \in o.focus :
    \/ anchor.surface # {}
    \/ ~anchor.covered
    \/ key \in {"Enter", "Space"}
       /\ \E e \in o.elements : e.node = anchor.node /\ FileInput(e)

(* A target that was selected is on the observed surface, whatever gaps the *)
(* page has elsewhere.                                                      *)
UnsupportedSurface(o, answer) ==
  LET element == IF answer.operation \in ElementOperations
                   THEN Selected(o, answer.target) ELSE {}
      reveal == IF answer.operation = "CLICK" THEN SelectedReveal(o, answer.target) ELSE {}
  IN IF answer.operation = "PRESS_KEY" THEN KeySurface(o, answer.key)
     ELSE \/ \E e \in element : FileInput(e)
          \/ element = {} /\ reveal = {} /\ o.coverage.gaps \cap GapSurfaces # {}

(* A contested click needs a confident target, every operation a confident  *)
(* choice.                                                                  *)
TargetInDoubt(o, answer) ==
  DispatchedOperation(o, answer) = "CLICK" /\ Contested(o) /\ ~answer.targetSure

-----------------------------------------------------------------------------
(* Candidates: what a permit authorizes, and a caller is offered.           *)
Blank(o, operation) ==
  [operation |-> operation, document |-> o.document, index |-> 0, node |-> {}, name |-> {},
   role |-> {}, dialog |-> {}, container |-> {}, input |-> {}, value |-> {}, key |-> {},
   focus |-> {}, hover |-> {}]

ElementCandidates(o, answer) ==
  {[Blank(o, answer.operation) EXCEPT
      !.index = e.index, !.node = {e.node}, !.name = {e.name}, !.role = e.role,
      !.dialog = e.dialog, !.container = e.container, !.input = e.input,
      !.value = IF answer.operation = "CLICK" THEN {} ELSE {answer.value}] :
   e \in Selected(o, answer.target)}

KeyCandidates(o, answer) ==
  {[Blank(o, "PRESS_KEY") EXCEPT
      !.node = {anchor.node : anchor \in o.focus}, !.name = {anchor.name : anchor \in o.focus},
      !.key = {answer.key}, !.focus = o.focus]}

ScrollCandidates(o, operation) ==
  {[Blank(o, operation) EXCEPT
      !.node = IF Route(o, operation) = "region"
                 THEN {r.node : r \in Outermost(o, operation)} ELSE {}]}

HoverCandidates(o, key) ==
  {[Blank(o, "HOVER") EXCEPT
      !.node = {r.reveals[key.offset].node},
      !.hover = {[index |-> r.index, name |-> r.name, reveal |-> r.reveals[key.offset].name,
                  reveals |-> [n \in DOMAIN r.reveals |-> r.reveals[n].name]]}] :
   r \in SelectedReveal(o, key)}

Candidates(o, answer) ==
  CASE DispatchedOperation(o, answer) \in ElementOperations -> ElementCandidates(o, answer)
    [] DispatchedOperation(o, answer) = "PRESS_KEY" -> KeyCandidates(o, answer)
    [] DispatchedOperation(o, answer) = "HOVER" -> HoverCandidates(o, answer.target)
    [] OTHER -> ScrollCandidates(o, answer.operation)

(* A native select must offer the value as an enabled option.               *)
Options(e, values) == {x \in e.options : x.enabled /\ x.label \in values}

Offered(o, candidate) ==
  {e \in o.elements : e.index = candidate.index}

SelectValueOffered(o, candidate) ==
  candidate.operation = "SELECT" =>
    \E e \in Offered(o, candidate) : Options(e, candidate.value) # {}

(* Why an answer yields no candidate: "none" if it does.                    *)
Refusal(o, answer) ==
  LET operation == DispatchedOperation(o, answer) IN
  CASE operation \in ElementOperations /\ Selected(o, answer.target) = {} ->
         IF operation = "CLICK" THEN "click_target_unavailable"
         ELSE "provider_invalid_response"
    [] operation \in {"TYPE_TEXT", "SELECT"} /\ Selected(o, answer.target) # {}
       /\ answer.value = NoneFits -> "value_not_provided"
    [] operation \in ScrollOperations /\ Route(o, operation) = "none" -> "operation_blocked"
    [] operation \in ScrollOperations /\ Route(o, operation) = "tied" ->
         "scroll_region_ambiguous"
    [] OTHER -> "none"

-----------------------------------------------------------------------------
(* A caller's candidate must be found again on a fresh observation.         *)
RegionMatches(o, candidate) ==
  /\ o.document = candidate.document
  /\ \E r \in o.hover, wanted \in candidate.hover :
       /\ r.index = wanted.index /\ r.name = wanted.name
       /\ [n \in DOMAIN r.reveals |-> r.reveals[n].name] = wanted.reveals
       /\ r.node = r.reveals[1].node
       /\ \E n \in DOMAIN r.reveals :
            {r.reveals[n].node} = candidate.node /\ r.reveals[n].name = wanted.reveal

SemanticsMatch(e, candidate) ==
  /\ {e.name} = candidate.name /\ e.role = candidate.role /\ e.dialog = candidate.dialog
  /\ e.container = candidate.container /\ e.input = candidate.input

(* Mutant of ElementMatches: what looks the same is the same control.       *)
ElementLooksSame(o, candidate) ==
  \E e \in Offered(o, candidate) :
    SemanticsMatch(e, candidate) /\ candidate.operation \in e.operations

ElementMatches(o, candidate) ==
  \E e \in Offered(o, candidate) :
    /\ o.document = candidate.document /\ {e.node} = candidate.node
    /\ SemanticsMatch(e, candidate)
    /\ candidate.operation \in e.operations

Revalidated(o, candidate) ==
  CASE candidate.operation = "PRESS_KEY" ->
         o.document = candidate.document /\ o.focus = candidate.focus
    [] candidate.operation = "HOVER" -> RegionMatches(o, candidate)
    [] OTHER -> ElementMatches(o, candidate)

(* The input that is prepared from the observation it was authorized on: at *)
(* a node, at the focus, or at a scroll region.                             *)
PreparedNodes(o, candidate) ==
  CASE candidate.operation \in ElementOperations -> {e.node : e \in Offered(o, candidate)}
    [] candidate.operation = "HOVER" ->
         IF RegionMatches(o, candidate) THEN candidate.node ELSE {}
    [] OTHER -> candidate.node

Prepared(o, candidate) ==
  [operation |-> candidate.operation, document |-> o.document,
   node |-> PreparedNodes(o, candidate), value |-> candidate.value, key |-> candidate.key]
=============================================================================
