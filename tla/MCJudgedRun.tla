----------------------------- MODULE MCJudgedRun -----------------------------
(* A small shop: a form that is rendered anew, what it leads to, what a     *)
(* capture misses of it, and pages that must not be acted on.               *)
EXTENDS JudgedRun, TLC

Control(index, node, name, operations) ==
  [index |-> index, node |-> node, name |-> name, role |-> {"control"}, value |-> {},
   dialog |-> {}, container |-> {}, input |-> {}, operations |-> operations, options |-> {},
   sharesName |-> FALSE]

Full == [viewport |-> TRUE, traversed |-> TRUE, gaps |-> {}]
Cut(gap) == [viewport |-> FALSE, traversed |-> TRUE, gaps |-> {gap}]
Still == [up |-> FALSE, down |-> FALSE]
NoScroll == [overlay |-> {}, window |-> Still, truncated |-> FALSE, regions |-> {}]

Inventory(scope, words) ==
  [scope |-> scope, accessible |-> words, hidden |-> {}, complete |-> TRUE]

Blankness ==
  [document |-> "d1", url |-> {"shop"}, lines |-> <<{"cart"}>>, dialogs |-> <<>>,
   painted |-> {Inventory({}, {"cart"})}, elements |-> {}, focus |-> {}, colors |-> {},
   colorsComplete |-> TRUE, scopes |-> {}, coverage |-> Full, hover |-> {}, scroll |-> NoScroll]

Focus(node, covered) ==
  [node |-> node, name |-> "plan", role |-> {"control"}, dialog |-> {}, covered |-> covered,
   surface |-> {}]

Plan == [Control(2, 9, "plan", {"TYPE_TEXT", "SELECT"}) EXCEPT
           !.options = {[enabled |-> TRUE, label |-> "Pro"]}]

(* The same button, which is another one once the list is rendered anew.    *)
Form(node) ==
  [Blankness EXCEPT
     !.elements = {[Control(1, node, "save", {"CLICK"}) EXCEPT !.sharesName = TRUE],
                   IF node = 7 THEN Plan ELSE [Plan EXCEPT !.options = {}]},
     !.focus = {Focus(9, node = 7)}]

Colored(node, text, level) ==
  [node |-> {node}, text |-> {text}, name |-> {}, role |-> {}, dialog |-> {30}, container |-> {},
   rgba |-> {[level |-> level, alpha |-> 1]}, complete |-> TRUE, channel |-> "accessible"]

(* A list that scrolls and shows its buttons when the pointer is over it.   *)
List ==
  [Blankness EXCEPT
     !.elements = {[Control(1, 7, "open", {"CLICK"}) EXCEPT !.container = {"row"}]},
     !.hover = {[index |-> 1, name |-> "row", node |-> 12,
                 reveals |-> <<[name |-> "delete", node |-> 12]>>]},
     !.scroll.regions = {[node |-> 13, parent |-> {}, up |-> FALSE, down |-> TRUE, overlay |-> {}],
                         [node |-> 14, parent |-> {13}, up |-> FALSE, down |-> TRUE,
                          overlay |-> {}]}]

Done(document, words, level, coverage) ==
  [Blankness EXCEPT
     !.document = document, !.lines = <<words>>,
     !.dialogs = <<[name |-> "receipt", text |-> {{"paid"}}]>>,
     !.painted = {Inventory({}, words), Inventory({"receipt"}, {"paid"})},
     !.colors = {Colored(20, "amount", level), Colored(21, "price", 9)},
     !.scopes = {[kind |-> "dialog", name |-> "receipt", node |-> 30, dialog |-> {}]},
     !.coverage = coverage, !.elements = {[Plan EXCEPT !.value = {"Pro"}]},
     !.focus = {Focus(9, TRUE)}]

(* The page also says "error", which a capture that cuts its text misses in *)
(* the accessible text and in its inventory of the painted text.            *)
Failed(o) ==
  [o EXCEPT !.lines = Append(@, {"error"}), !.coverage = Full,
            !.painted = {Inventory(i.scope, i.accessible \cup (IF i.scope = {} THEN {"error"} ELSE {})) :
                         i \in @}]
CutShort(o) ==
  [o EXCEPT !.coverage = Cut("visible_text_truncated"),
            !.painted = {[i EXCEPT !.complete = i.scope # {}] : i \in @}]

Shown(name, o) == [name |-> name, seen |-> o, whole |-> o]
Missing(name, o) == [name |-> name, seen |-> CutShort(o), whole |-> Failed(o)]

OldForm == Shown("form", Form(7))
NewForm == Shown("anew", Form(8))
Listed == Shown("list", List)
Green == Shown("green", Done("d1", {"ready", "12"}, 1, Full))
Red == Shown("red", Done("d1", {"ready", "12"}, 3, Full))
Reloaded == Shown("reloaded", Done("d2", {"ready", "12"}, 1, Full))
Unnumbered == Shown("unnumbered", Done("d1", {"ready"}, 1, Full))
Obscured == Missing("obscured", Done("d1", {"ready", "12"}, 1, Full))
Elsewhere == Shown("elsewhere", [Blankness EXCEPT !.url = {"elsewhere"}])

MCBecomes(p) ==
  CASE p.name = "form" -> {NewForm, Unnumbered}
    [] p.name = "anew" -> {OldForm, Green}
    [] p.name = "list" -> {OldForm, Elsewhere}
    [] p.name = "green" -> {Red, Reloaded}
    [] p.name \in {"red", "obscured", "unnumbered"} -> {Green}
    [] p.name = "reloaded" -> {Obscured}
    [] p.name = "elsewhere" -> {}
MCPages ==
  {OldForm, NewForm, Listed, Green, Red, Reloaded, Unnumbered, Obscured, Elsewhere}

Text(word, present, scope, painted) ==
  [kind |-> "text", present |-> present, text |-> word, scope |-> scope, painted |-> painted]
Target(text, dialog) ==
  [text |-> {text}, name |-> {}, role |-> {}, dialog |-> dialog, container |-> {}]
IsGreen ==
  [kind |-> "color", target |-> Target("amount", {"receipt"}), reference |-> {},
   comparator |-> "equals", equals |-> {[level |-> 1, alpha |-> 1]}, tolerance |-> 0]
IsMarked ==
  [IsGreen EXCEPT !.comparator = "different_from", !.reference = {Target("price", {})},
                  !.equals = {}]
Field == [kind |-> "field", name |-> "plan", role |-> {}, dialog |-> {}, equals |-> {"pro"}]
Focused == [kind |-> "focused", name |-> "plan", role |-> {"control"}, dialog |-> {}]
Closed == [kind |-> "dialog", open |-> FALSE, name |-> "confirm"]
AtShop == [kind |-> "url", text |-> "shop"]

Structured(id, assertions) ==
  [id |-> id, natural |-> FALSE, assertions |-> assertions, claim |-> Nothing, claimed |-> {},
   exact |-> <<>>]
Claim(id, numbers, exact) ==
  [id |-> id, natural |-> TRUE, assertions |-> {}, claim |-> "claim", claimed |-> numbers,
   exact |-> exact]

Address(origin) ==
  [web |-> TRUE, host |-> TRUE, suffix |-> FALSE, credentials |-> FALSE, origin |-> origin]

Bounds ==
  [lifetime |-> {}, active |-> {MaxTime}, pause |-> {}, actions |-> {2}, calls |-> {3},
   viewport |-> {[width |-> 1280, height |-> 720]}, origins |-> {}, redact |-> {<<"pro">>},
   stopAt |-> {}]

Asked(done, expectations) ==
  [target |-> [Address("shop") EXCEPT !.suffix = TRUE],
   context |-> [journey |-> "purchase", actor |-> "customer"],
   values |-> "pro" :> [description |-> "the plan", formats |-> {}],
   steps |-> <<[id |-> "pay", goal |-> "pay", natural |-> FALSE, condition |-> Nothing,
                assertions |-> done, requires |-> <<"pro">>, limit |-> 1]>>,
   expectations |-> expectations, options |-> Bounds]

Paying ==
  Asked({Text("ready", TRUE, {}, FALSE), Text("paid", TRUE, {"receipt"}, FALSE)},
        <<Structured("looks", {IsGreen, IsMarked}),
          Claim("sum", {"12"}, <<[literal |-> "12", within |-> {"ready"}]>>)>>)
Emptying ==
  [Asked({Text("cart", FALSE, {}, FALSE), Text("error", FALSE, {}, FALSE)},
         <<Structured("rest", {Text("error", FALSE, {}, TRUE), Text("paid", TRUE, {"receipt"}, TRUE),
                               Field, Focused, Closed, AtShop})>>)
     EXCEPT !.options.origins = {<<Address("shop")>>}]

(* Jobs that must never run: each differs from one that runs in one place.  *)
Defective ==
  <<[Paying EXCEPT !.context.actor = Nothing],
    [Paying EXCEPT !.target.web = FALSE],
    [Paying EXCEPT !.steps = <<>>],
    [Paying EXCEPT !.steps = @ \o @],
    [Paying EXCEPT !.steps[1].limit = 9],
    [Paying EXCEPT !.steps[1].assertions = {}],
    [Paying EXCEPT !.steps[1].natural = TRUE, !.steps[1].assertions = {}],
    [Paying EXCEPT !.expectations[2].id = "looks"],
    [Paying EXCEPT !.expectations[2].exact = <<[literal |-> "12", within |-> {}]>> \o @],
    [Paying EXCEPT !.expectations[1].assertions = {[IsGreen EXCEPT !.equals = {}]}],
    [Paying EXCEPT !.values["pro"].description = Nothing],
    [Paying EXCEPT !.options.lifetime = {200000}],
    [Paying EXCEPT !.options.active = {0}],
    [Paying EXCEPT !.options.calls = {0}],
    [Paying EXCEPT !.options.viewport = {[width |-> 319, height |-> 720]}],
    [Paying EXCEPT !.options.redact = {<<"plan">>}],
    [Paying EXCEPT !.options.stopAt = {"leave"}],
    [Emptying EXCEPT !.options.origins = {<<>>}],
    [Emptying EXCEPT !.options.origins = {<<[Address("shop") EXCEPT !.suffix = TRUE]>>}]>>

(* What cannot be read as a job: two ways to look for one color, a condition *)
(* that is a text and assertions, a literal in two places.                  *)
Unreadable ==
  {[Paying EXCEPT !.expectations[1].assertions = {[IsGreen EXCEPT !.target.name = {"total"}]}],
   [Paying EXCEPT !.expectations[1].assertions = {[IsMarked EXCEPT !.comparator = "equals"]}],
   [Paying EXCEPT !.steps[1].natural = TRUE],
   [Paying EXCEPT !.expectations[2].exact = <<[literal |-> "12", within |-> {"ready", "sum"}]>>]}

(* Jobs that are valid and lack a value, and the place where it is missed.  *)
Lacking ==
  <<[Paying EXCEPT !.steps[1].requires = <<"pro", "card">>],
    [Emptying EXCEPT !.expectations[1].assertions = {[Field EXCEPT !.equals = {"card"}]}],
    [Emptying EXCEPT !.steps[1].assertions = {[Field EXCEPT !.equals = {"card"}]},
                     !.expectations[1].assertions = {[Field EXCEPT !.equals = {"card"}]}]>>
LackedAt == <<"pay", "rest", "pay">>

ASSUME ContractIsApplied ==
  /\ Executable(Paying) /\ Executable(Emptying)
  /\ Executable([Paying EXCEPT !.options.lifetime = {200000}, !.options.pause = {200000}])
  /\ \A j \in Unreadable : ~IsJob(j)
  /\ \A i \in DOMAIN Defective : ~Valid(Defective[i])
  /\ \A i \in DOMAIN Lacking :
       /\ Valid(Lacking[i])
       /\ FirstMissing(Lacking[i]) = {[at |-> LackedAt[i], value |-> "card"]}

(* A page whose text is too long: the capture of it ends within a number.   *)
CutNumber ==
  [name |-> "long", seen |-> CutShort([Blankness EXCEPT !.lines = <<{"ready", "12"}>>]),
   whole |-> [Blankness EXCEPT !.lines = <<{"ready", "124"}>>]]
CutPages == {CutNumber}
CutBecomes(p) == {}
Counting == Asked({Text("ready", TRUE, {}, FALSE)}, <<Claim("sum", {"12"}, <<>>)>>)
CutJobs == {Counting}

ASSUME OnlyTheLongPageCutsWords == CutNumber \in Pages \/ CutsBetweenWords

MCJobs == {Paying, Emptying} \cup {Defective[i] : i \in DOMAIN Defective}
                              \cup {Lacking[i] : i \in DOMAIN Lacking}

MCRenderings == "pro" :> {{"Pro"}, {"pro"}}
=============================================================================
