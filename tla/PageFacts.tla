------------------------------ MODULE PageFacts ------------------------------
(***************************************************************************)
(* What an observation says about the conditions of a job: structured      *)
(* assertions about text, dialogs, the address, fields, focus and colors,  *)
(* and natural claims with their numeric literals.  An observation may be  *)
(* partial, so a check has three outcomes.                                 *)
(*                                                                         *)
(* A text is the set of words it contains; names are compared in lower     *)
(* case.  What may be missing is a set of at most one element.             *)
(***************************************************************************)
EXTENDS Naturals, Sequences, FiniteSets

CONSTANTS
  Renderings    \* the texts each value of the caller may be shown as

(* DoneResult and VerdictResult: an unknown outcome is an unresolved verdict*)
Truth(holds) == IF holds THEN "satisfied" ELSE "not_satisfied"

(* A qualifier that a condition leaves out restricts nothing.               *)
Fits(wanted, actual) == wanted = {} \/ wanted = actual

VisibleText(o) == UNION {o.lines[i] : i \in DOMAIN o.lines}
DialogsNamed(o, name) == {i \in DOMAIN o.dialogs : o.dialogs[i].name = name}

Truncations == {"visible_text_truncated", "covered_text_truncated", "dialog_text_truncated"}

ViewportComplete(o) ==
  o.coverage.viewport /\ o.coverage.traversed /\ o.coverage.gaps = {}

-----------------------------------------------------------------------------
(* Text, in what is accessible or in what is painted, of the viewport or of *)
(* a dialog.                                                                *)
UniqueScope(o, scope) ==
  \A name \in scope : Cardinality(DialogsNamed(o, name)) = 1

(* The texts a search of the accessible text looks through: none when the   *)
(* dialog has none of its own.                                              *)
ScopedTexts(o, scope) ==
  IF scope = {} THEN {VisibleText(o)}
  ELSE UNION {o.dialogs[i].text : i \in UNION {DialogsNamed(o, name) : name \in scope}}

(* The inventories of painted text for a scope, if the capture made one.    *)
Inventories(o, scope) == {p \in o.painted : p.scope = scope}

(* A truncated text leaves the painted inventory as complete as it was.     *)
PaintedComplete(o) ==
  /\ o.coverage.viewport \/ o.coverage.gaps \cap Truncations # {}
  /\ o.coverage.traversed
  /\ o.coverage.gaps \subseteq Truncations

TextEvidence(result, channel, reason) ==
  [result |-> result, channel |-> channel, reason |-> reason]

Unresolved(reason) == TextEvidence("unresolved", "none", reason)

(* Mutant of Search: what was not found counts as absent everywhere.        *)
SearchAnyCoverage(a, channel, complete) ==
  TextEvidence(Truth((channel # "none") = a.present), channel, "none")

(* Text that was not found is absent only where the search was complete.    *)
Search(a, channel, complete) ==
  IF channel = "none" /\ ~complete
    THEN Unresolved("incomplete_coverage")
    ELSE TextEvidence(Truth((channel # "none") = a.present), channel, "none")

AccessibleCheck(a, o) ==
  IF ScopedTexts(o, a.scope) = {} THEN Unresolved("ambiguous_or_missing_scope")
  ELSE LET text == CHOOSE t \in ScopedTexts(o, a.scope) : TRUE IN
       Search(a, IF a.text \notin text THEN "none"
                 ELSE IF a.scope = {} THEN "accessible" ELSE "dialog_text",
              ViewportComplete(o))

PaintedCheck(a, o) ==
  IF Cardinality(Inventories(o, a.scope)) # 1 THEN Unresolved("incomplete_coverage")
  ELSE LET found == CHOOSE p \in Inventories(o, a.scope) : TRUE IN
       Search(a, IF a.text \in found.accessible THEN "accessible"
                 ELSE IF a.text \in found.hidden THEN "painted_aria_hidden" ELSE "none",
              found.complete /\ PaintedComplete(o))

TextCheck(a, o) ==
  IF ~UniqueScope(o, a.scope) THEN Unresolved("ambiguous_or_missing_scope")
  ELSE IF a.painted THEN PaintedCheck(a, o) ELSE AccessibleCheck(a, o)

-----------------------------------------------------------------------------
(* Colors: the target, and what it is compared with, must each have one     *)
(* visible owner within the dialog and the container that are named.        *)
InScope(node, scopes) == scopes = {} \/ node = {s.node : s \in scopes}

ScopesNamed(o, wanted, kind, dialog) ==
  {s \in o.scopes : s.kind = kind /\ {s.name} = wanted /\ InScope(s.dialog, dialog)}

ScopeFailure(wanted, found) ==
  IF wanted = {} \/ Cardinality(found) = 1 THEN "none"
  ELSE IF found = {} THEN "missing" ELSE "ambiguous_scope"

MatchesTarget(target, owner) ==
  \/ target.text # {} /\ target.text = owner.text
  \/ target.name # {} /\ target.name = owner.name /\ Fits(target.role, owner.role)

Transparent(owner) == \E color \in owner.rgba : color.alpha = 0

(* The owners a target stands for and why it may have none.                 *)
NoOwner(reason) == [owner |-> {}, reason |-> reason]

OwnerAmong(matches) ==
  LET eligible == {c \in matches : ~Transparent(c)} IN
  CASE Cardinality(eligible) = 1 -> [owner |-> eligible, reason |-> "none"]
    [] Cardinality(eligible) > 1 -> NoOwner("ambiguous_owner")
    [] eligible = {} /\ Cardinality(matches) = 1 -> [owner |-> matches, reason |-> "none"]
    [] eligible = {} /\ matches = {} -> NoOwner("missing")
    [] OTHER -> NoOwner("transparent")

OwnerWithin(target, dialog, container, o) ==
  CASE ScopeFailure(target.dialog, dialog) # "none" ->
         NoOwner(ScopeFailure(target.dialog, dialog))
    [] ScopeFailure(target.dialog, dialog) = "none"
       /\ ScopeFailure(target.container, container) # "none" ->
         NoOwner(ScopeFailure(target.container, container))
    [] OTHER -> OwnerAmong({c \in o.colors : /\ MatchesTarget(target, c)
                                            /\ InScope(c.dialog, dialog)
                                            /\ InScope(c.container, container)})

Owner(target, o) ==
  LET dialog == ScopesNamed(o, target.dialog, "dialog", {}) IN
  OwnerWithin(target, dialog, ScopesNamed(o, target.container, "container", dialog), o)

ColorFailure(owner) ==
  CASE ~owner.complete -> "incomplete_coverage"
    [] owner.complete /\ owner.rgba = {} -> "unsupported_color"
    [] OTHER -> IF Transparent(owner) THEN "transparent" ELSE "none"

Resolved(found, o) ==
  [rgba |-> UNION {c.rgba : c \in found.owner},
   channel |-> {c.channel : c \in found.owner},
   reason |-> IF ~o.colorsComplete \/ ~ViewportComplete(o) THEN "incomplete_coverage"
              ELSE IF found.owner = {} THEN found.reason
              ELSE CHOOSE r \in {ColorFailure(c) : c \in found.owner} : TRUE]

Resolve(target, o) == Resolved(Owner(target, o), o)

Absent(reason) == reason \in {"missing", "transparent"}

Distance(m, n) == IF m > n THEN m - n ELSE n - m

(* Levels stand for the four channels, of which the least alike decides.    *)
SameColor(left, right, tolerance) ==
  /\ Distance(left.level, right.level) <= tolerance
  /\ Distance(left.alpha, right.alpha) <= tolerance

Compare(a, target, reference) ==
  IF target = {} \/ reference = {} THEN "unresolved"
  ELSE Truth((a.comparator # "different_from")
              = \E l \in target, r \in reference : SameColor(l, r, a.tolerance))

ColorOutcome(a, target, references) ==
  LET reasons == ({target.reason} \cup {r.reason : r \in references}) \ {"none"} IN
  IF \E r \in reasons : Absent(r) THEN "not_satisfied"
  ELSE IF reasons # {} THEN "unresolved"
  ELSE Compare(a, target.rgba, IF a.comparator = "equals" THEN a.equals
                               ELSE UNION {r.rgba : r \in references})

ColorsFound(a, target, references) ==
  [target |-> target, references |-> references, result |-> ColorOutcome(a, target, references)]

ColorCheck(a, o) == ColorsFound(a, Resolve(a.target, o), {Resolve(r, o) : r \in a.reference})

-----------------------------------------------------------------------------
(* Dialogs, the address, fields and the focus.                              *)
DialogCheck(a, o) ==
  CASE Cardinality(DialogsNamed(o, a.name)) = 0 ->
         IF ViewportComplete(o) THEN Truth(~a.open) ELSE "unresolved"
    [] Cardinality(DialogsNamed(o, a.name)) = 1 -> Truth(a.open)
    [] OTHER -> "unresolved"

Identified(a, item) ==
  item.name = a.name /\ Fits(a.role, item.role) /\ Fits(a.dialog, item.dialog)

FieldMatches(a, o) == {e \in o.elements : Identified(a, e)}

(* One field must match, and a value that is compared must be the caller's. *)
FieldCheck(a, o) ==
  IF Cardinality(FieldMatches(a, o)) # 1 THEN "unresolved"
  ELSE LET field == CHOOSE e \in FieldMatches(a, o) : TRUE IN
       IF a.equals = {} THEN Truth(field.value # {})
       ELSE IF ~(a.equals \subseteq DOMAIN Renderings) THEN "unresolved"
       ELSE Truth(\E name \in a.equals : field.value \in Renderings[name])

(* The focused element must be covered and the only one of that identity.   *)
FocusCheck(a, o) ==
  IF o.focus = {} THEN "not_satisfied"
  ELSE LET anchor == CHOOSE f \in o.focus : TRUE IN
       CASE ~anchor.covered -> "unresolved"
         [] anchor.covered /\ ~Identified(a, anchor) -> "not_satisfied"
         [] OTHER -> IF \E e \in o.elements : e.node # anchor.node /\ Identified(a, e)
                       THEN "unresolved" ELSE "satisfied"

CheckAssertion(a, o) ==
  CASE a.kind = "text" -> TextCheck(a, o).result
    [] a.kind = "color" -> ColorCheck(a, o).result
    [] a.kind = "dialog" -> DialogCheck(a, o)
    [] a.kind = "url" -> Truth(a.text \in o.url)
    [] a.kind = "field" -> FieldCheck(a, o)
    [] a.kind = "focused" -> FocusCheck(a, o)

(* A set of outcomes: one that is not satisfied decides, an unknown one     *)
(* leaves the whole unknown.                                                *)
Conjunction(results) ==
  IF "not_satisfied" \in results THEN "not_satisfied"
  ELSE IF results \subseteq {"satisfied"} THEN "satisfied" ELSE "unresolved"

EvaluateAssertions(assertions, o) ==
  Conjunction({CheckAssertion(a, o) : a \in assertions})

(* What a check of text or of colors records, for evidence and for the      *)
(* facts an attestation rests on.                                           *)
AssertionChecks(assertions, o) ==
  {<<a, TextCheck(a, o)>> : a \in {b \in assertions : b.kind = "text"}}
  \cup {<<a, ColorCheck(a, o)>> : a \in {b \in assertions : b.kind = "color"}}

-----------------------------------------------------------------------------
(* Natural claims: what the model thinks of one, in percent, and whether    *)
(* the numeric literals it names are on the page.                           *)
Literals(e) == {e.exact[i] : i \in DOMAIN e.exact}

(* The numbers of a claim, but for those that are looked for in a container.*)
ClaimedNumbers(e) == e.claimed \ {x.literal : x \in {y \in Literals(e) : y.within # {}}}

Requested(e) == Literals(e) \cup {[literal |-> l, within |-> {}] : l \in ClaimedNumbers(e)}

(* The containers a literal may be scoped to.                               *)
Containers(o) ==
  {[at |-> <<"line", i>>, text |-> o.lines[i]] : i \in DOMAIN o.lines}
  \cup (UNION {{[at |-> <<"dialog", i>>, text |-> t] : t \in o.dialogs[i].text} :
               i \in DOMAIN o.dialogs})
  \cup {[at |-> <<"name", e.index>>, text |-> {e.name}] : e \in o.elements}
  \cup {[at |-> <<"value", e.index>>, text |-> e.value] : e \in o.elements}

OnPage(literal, o) ==
  literal \in VisibleText(o) \/ \E e \in o.elements : literal \in e.value

NumericState(x, o) ==
  LET within == {c \in Containers(o) : x.within \subseteq c.text} IN
  CASE x.within = {} -> IF OnPage(x.literal, o) THEN "present" ELSE "missing"
    [] x.within # {} /\ Cardinality(within) # 1 -> "ambiguous"
    [] OTHER -> IF \E c \in within : x.literal \in c.text THEN "present" ELSE "missing"

NaturalVerdict(e, noul, o) ==
  LET states == {NumericState(x, o) : x \in Requested(e)} IN
  IF noul <= 20 \/ "missing" \in states THEN "not_satisfied"
  ELSE IF noul < 80 \/ "ambiguous" \in states THEN "unresolved"
  ELSE "satisfied"

-----------------------------------------------------------------------------
(* The verdicts of the job's expectations: the structured ones are decided  *)
(* by code, before and without a model call.                                *)
PreliminaryVerdicts(expectations, o) ==
  [i \in DOMAIN expectations |->
     [result |-> IF expectations[i].natural THEN "not_run"
                 ELSE EvaluateAssertions(expectations[i].assertions, o),
      noul |-> {}]]

Results(verdicts) == {verdicts[i].result : i \in DOMAIN verdicts}

NeedsProvider(verdicts) ==
  "not_run" \in Results(verdicts) /\ "not_satisfied" \notin Results(verdicts)

FinalVerdicts(expectations, verdicts, nouls, o) ==
  [i \in DOMAIN expectations |->
     IF expectations[i].natural
       THEN [result |-> NaturalVerdict(expectations[i], nouls[i], o), noul |-> {nouls[i]}]
       ELSE verdicts[i]]

(* What is uncertain may be attested if only a model was uncertain of it.   *)
Attestable(verdicts) ==
  /\ "unresolved" \in Results(verdicts)
  /\ "not_satisfied" \notin Results(verdicts)
  /\ \A i \in DOMAIN verdicts : verdicts[i].result = "unresolved" =>
       \E noul \in verdicts[i].noul : noul > 20

(* The facts an attestation rests on, which must not have changed.          *)
RelevantState(o) ==
  [url |-> o.url, lines |-> o.lines, dialogs |-> o.dialogs, focus |-> o.focus,
   elements |-> o.elements, coverage |-> o.coverage, hover |-> o.hover]

(* Mutant of RelevantFacts: only the page is compared, not the checks.      *)
RelevantFactsOfPage(assertions, o) == [state |-> RelevantState(o), checks |-> {}]

RelevantFacts(assertions, o) ==
  [state |-> RelevantState(o), checks |-> AssertionChecks(assertions, o)]
=============================================================================
