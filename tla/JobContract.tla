----------------------------- MODULE JobContract -----------------------------
(***************************************************************************)
(* Which jobs are carried out: those that are valid, and that are given    *)
(* every value their steps and expectations rest on.                       *)
(*                                                                         *)
(* What a job leaves out is the empty set, what it gives a set of one      *)
(* element; a text that is all white space is Nothing.                     *)
(***************************************************************************)
EXTENDS Naturals, Sequences, FiniteSets
LOCAL INSTANCE Functions

CONSTANTS
  Nothing       \* a text with nothing but white space

Filled(text) == text # Nothing
Within(n, low, high) == low <= n /\ n <= high
Given(x, default) == IF x = {} THEN default ELSE CHOOSE v \in x : TRUE

UniqueIds(items) ==
  LET ids == [i \in DOMAIN items |-> items[i].id] IN
  IsInjective(ids) /\ \A i \in DOMAIN ids : Filled(ids[i])

-----------------------------------------------------------------------------
(* What a job is made of.  Nothing but these fields may be given, and what  *)
(* may be left out is given at most once.                                   *)
HasFields(x, needed, optional) ==
  DOMAIN x = needed \cup optional /\ \A f \in optional : \A v, w \in x[f] : v = w

(* A color is asked for by the text it is behind or by the name of the      *)
(* element that has it.                                                     *)
IsTextTarget(target) == target.text # {} /\ target.name = {} /\ target.role = {}
IsNamedTarget(target) == target.name # {} /\ target.text = {}

IsTarget(target) ==
  /\ HasFields(target, {}, {"text", "name", "role", "dialog", "container"})
  /\ IsTextTarget(target) \/ IsNamedTarget(target)

(* It is compared with a color that is given or with that of another place. *)
IsColor(a) ==
  /\ HasFields(a, {"kind", "target", "comparator", "tolerance"}, {"reference", "equals"})
  /\ IsTarget(a.target) /\ \A target \in a.reference : IsTarget(target)
  /\ Within(a.tolerance, 0, 255)
  /\ \/ a.comparator = "equals" /\ a.reference = {}
     \/ a.comparator \in {"same_as", "different_from"} /\ a.reference # {} /\ a.equals = {}

IsText(a) ==
  HasFields(a, {"kind", "text", "present", "painted"}, {"scope"})
  /\ {a.present, a.painted} \subseteq BOOLEAN

IsField(a) == HasFields(a, {"kind", "name"}, {"equals", "dialog", "role"})
IsFocused(a) == HasFields(a, {"kind", "name"}, {"dialog", "role"})
IsDialog(a) == HasFields(a, {"kind", "name", "open"}, {}) /\ a.open \in BOOLEAN
IsUrl(a) == HasFields(a, {"kind", "text"}, {})

IsAssertion(a) ==
  \/ a.kind = "color" /\ IsColor(a)
  \/ a.kind = "text" /\ IsText(a)
  \/ a.kind = "field" /\ IsField(a)
  \/ a.kind = "focused" /\ IsFocused(a)
  \/ a.kind = "dialog" /\ IsDialog(a)
  \/ a.kind = "url" /\ IsUrl(a)

(* A condition is a set of assertions or a text for the model to judge.     *)
IsStep(step) ==
  /\ HasFields(step, {"id", "goal", "natural", "condition", "assertions", "requires", "limit"}, {})
  /\ Within(step.limit, 0, 255)
  /\ IF step.natural THEN step.assertions = {}
     ELSE step.condition = Nothing /\ \A a \in step.assertions : IsAssertion(a)

IsLiteral(x) == HasFields(x, {"literal"}, {"within"})

(* "claimed" are the numbers in the text of the claim.                      *)
IsNatural(e) ==
  e.natural /\ e.assertions = {} /\ \A i \in DOMAIN e.exact : IsLiteral(e.exact[i])
IsStructured(e) ==
  /\ ~e.natural /\ e.claim = Nothing /\ e.claimed = {} /\ e.exact = <<>>
  /\ \A a \in e.assertions : IsAssertion(a)

IsExpectation(e) ==
  /\ HasFields(e, {"id", "natural", "claim", "claimed", "exact", "assertions"}, {})
  /\ IsNatural(e) \/ IsStructured(e)

IsValue(value) == HasFields(value, {"description"}, {"formats"})
IsViewport(size) == HasFields(size, {"width", "height"}, {})

IsOptions(options) ==
  /\ HasFields(options, {}, {"lifetime", "active", "pause", "actions", "calls", "viewport",
                             "origins", "redact", "stopAt"})
  /\ UNION {options.lifetime, options.active, options.pause, options.actions, options.calls}
       \subseteq Nat
  /\ \A size \in options.viewport : IsViewport(size)

IsJob(job) ==
  /\ HasFields(job, {"target", "context", "values", "steps", "expectations", "options"}, {})
  /\ \A name \in DOMAIN job.values : IsValue(job.values[name])
  /\ \A i \in DOMAIN job.steps : IsStep(job.steps[i])
  /\ \A i \in DOMAIN job.expectations : IsExpectation(job.expectations[i])
  /\ IsOptions(job.options)

-----------------------------------------------------------------------------
(* Addresses.  One that cannot be parsed is neither on the web nor has a    *)
(* host.                                                                    *)
HttpUrl(url) == url.web /\ url.host

BareOrigin(url) == HttpUrl(url) /\ ~url.suffix /\ ~url.credentials

-----------------------------------------------------------------------------
(* Conditions.                                                              *)
ValidTarget(target) ==
  /\ \A text \in target.text \cup target.name : Filled(text)
  /\ \A name \in target.dialog \cup target.container : Filled(name)
  /\ target.text = {} => \A role \in target.role : Filled(role)

(* What an assertion is about must be named.                                *)
Subject(a) == IF a.kind \in {"text", "url"} THEN a.text ELSE a.name

ValidAssertion(a) ==
  IF a.kind = "color"
    THEN /\ \A target \in {a.target} \cup a.reference : ValidTarget(target)
         /\ a.comparator = "equals" => a.equals # {}
    ELSE /\ Filled(Subject(a))
         /\ a.kind = "field" => \A name \in a.equals : Filled(name)

ValidAssertions(assertions) ==
  assertions # {} /\ \A a \in assertions : ValidAssertion(a)

(* No literal is listed twice, or both with and without a container.        *)
ValidLiterals(exact) ==
  /\ IsInjective(exact)
  /\ \A i \in DOMAIN exact :
       /\ Filled(exact[i].literal)
       /\ \A text \in exact[i].within : Filled(text)
       /\ \A j \in DOMAIN exact : exact[i].literal = exact[j].literal =>
            (exact[i].within = {}) = (exact[j].within = {})

ValidExpectation(e) ==
  IF e.natural THEN Filled(e.claim) /\ ValidLiterals(e.exact) ELSE ValidAssertions(e.assertions)

ValidStep(step) ==
  /\ Filled(step.goal)
  /\ Within(step.limit, 1, 8)
  /\ IF step.natural THEN Filled(step.condition) ELSE ValidAssertions(step.assertions)
  /\ IsInjective(step.requires)

-----------------------------------------------------------------------------
(* Values and options.                                                      *)
ValidValue(name, value) ==
  Filled(name) /\ Filled(value.description) /\ \A formats \in value.formats : formats # {}

ValidContext(context) == \A part \in DOMAIN context : Filled(context[part])

(* The timeouts a job leaves out must fit its lifetime as well.             *)
ValidTimeouts(options, lifetime) ==
  /\ Within(Given(options.active, 120000), 1, lifetime)
  /\ Within(Given(options.pause, 300000), 1, lifetime)

ValidBudgets(options) ==
  /\ Within(Given(options.actions, 80), 1, 500)
  /\ Within(Given(options.calls, 120), 1, 1000)

ValidViewport(size) == Within(size.width, 320, 7680) /\ Within(size.height, 240, 4320)

ValidOrigins(origins) ==
  /\ origins # <<>> /\ IsInjective(origins)
  /\ \A i \in DOMAIN origins : BareOrigin(origins[i])

ValidRedactions(names, job) ==
  IsInjective(names) /\ \A i \in DOMAIN names : names[i] \in DOMAIN job.values

StepNamed(id, job) == \E i \in DOMAIN job.steps : job.steps[i].id = id

ValidOptions(job) ==
  LET options == job.options
      lifetime == Given(options.lifetime, 900000)
  IN /\ Within(lifetime, 1, 3600000)
     /\ ValidTimeouts(options, lifetime) /\ ValidBudgets(options)
     /\ \A size \in options.viewport : ValidViewport(size)
     /\ \A origins \in options.origins : ValidOrigins(origins)
     /\ \A names \in options.redact : ValidRedactions(names, job)
     /\ \A id \in options.stopAt : StepNamed(id, job)

Valid(job) ==
  /\ ValidContext(job.context) /\ HttpUrl(job.target)
  /\ job.steps # <<>> /\ UniqueIds(job.steps) /\ UniqueIds(job.expectations)
  /\ \A name \in DOMAIN job.values : ValidValue(name, job.values[name])
  /\ \A i \in DOMAIN job.steps : ValidStep(job.steps[i])
  /\ \A i \in DOMAIN job.expectations : ValidExpectation(job.expectations[i])
  /\ ValidOptions(job)

-----------------------------------------------------------------------------
(* The value that a valid job misses first: what a step requires, then what *)
(* its condition compares a field with, then what an expectation does.      *)
ComparedValues(assertions) == UNION {a.equals : a \in {b \in assertions : b.kind = "field"}}

MissingOf(step, values) ==
  LET unmet == {i \in DOMAIN step.requires : step.requires[i] \notin values} IN
  IF unmet = {} THEN ComparedValues(step.assertions) \ values
  ELSE {step.requires[i] : i \in {j \in unmet : \A k \in unmet : j <= k}}

FirstMissing(job) ==
  LET values == DOMAIN job.values
      missing == [i \in DOMAIN job.steps |->
                    {[at |-> job.steps[i].id, value |-> v] : v \in MissingOf(job.steps[i], values)}]
                 \o [i \in DOMAIN job.expectations |->
                       {[at |-> job.expectations[i].id, value |-> v] :
                        v \in ComparedValues(job.expectations[i].assertions) \ values}]
      lacking == {i \in DOMAIN missing : missing[i] # {}}
  IN UNION {missing[i] : i \in {j \in lacking : \A k \in lacking : j <= k}}

(* An invalid job is refused, one that misses a value blocked at admission. *)
Executable(job) == Valid(job) /\ FirstMissing(job) = {}

(* The origins a job may be on: those it lists, else that of its target.    *)
AllowedOrigins(job) ==
  IF job.options.origins = {} THEN {job.target.origin}
  ELSE UNION {{origins[i].origin : i \in DOMAIN origins} : origins \in job.options.origins}
=============================================================================
