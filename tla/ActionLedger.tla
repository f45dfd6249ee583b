---------------------------- MODULE ActionLedger ----------------------------
(***************************************************************************)
(* The ledger of a run's policy: what it may still spend, and which        *)
(* operations it may no longer authorize.  A permit is charged when it is  *)
(* minted and refunded only when it is unused or proven to have had no     *)
(* effect; its replay key stays until then.  The operations are functions  *)
(* from a ledger to the next one, so that a handler that makes several     *)
(* calls composes them.                                                    *)
(*                                                                         *)
(* A candidate is what the provider can choose on a page, grouped by what  *)
(* its replay key is made of; a view is all of an observation that a       *)
(* replay key can depend on: the state of the focus anchor, the positions  *)
(* of the scroll regions and the list of the hover regions.                *)
(***************************************************************************)
EXTENDS Naturals, FiniteSets

CONSTANTS
  Inputs,         \* clicks, typed values and selections, each on its target
  Presses,        \* key presses, each a key on a focus identity
  Scrolls,        \* scrolls, each a direction
  Hovers,         \* hovers, each a hidden control
  Views,          \* observations, as far as a replay key depends on them
  NoView,         \* the view in the replay key of an input: it has none
  MaxActions,     \* the job's max_actions
  MaxModelCalls,  \* the job's max_model_calls
  MaxFallbacks    \* fallbacks between two mutations: 8 in the code

Candidates == Inputs \cup Presses \cup Scrolls \cup Hovers
Mutating == Inputs \cup Presses   \* Operation::mutates

ASSUME LedgerAssumption ==
  /\ Inputs \cap (Presses \cup Scrolls \cup Hovers) = {}
  /\ Presses \cap (Scrolls \cup Hovers) = {}
  /\ Scrolls \cap Hovers = {}
  /\ NoView \notin Views
  /\ MaxActions \in Nat /\ MaxModelCalls \in Nat /\ MaxFallbacks \in Nat

(* What a replay key identifies before the attempt ordinal of a scroll: an  *)
(* input by its target alone, a press by the anchor's state and the step it *)
(* is made in, a scroll or a hover by the page's.                           *)
InputBases == [candidate : Inputs, view : {NoView}, step : {0}]
PressBases == [candidate : Presses, view : Views, step : Nat]
ScrollBases == [candidate : Scrolls, view : Views, step : {0}]
HoverBases == [candidate : Hovers, view : Views, step : {0}]
Bases == InputBases \cup PressBases \cup ScrollBases \cup HoverBases
Keys == [base : Bases, ordinal : Nat]

Ledgers ==
  [actions       : 0..MaxActions,
   modelCalls    : 0..MaxModelCalls,
   stepMutations : Nat,                    \* charged to the current step
   fallbacks     : 0..MaxFallbacks,        \* since the last mutation
   step          : Nat,
   replay        : SUBSET Keys,            \* keys that may not be minted again
   unsettled     : SUBSET Keys,            \* presses that may have been made
   attempts      : [ScrollBases -> Nat]]   \* uncertain attempts of a scroll

(* A new policy: the machine begins the first step at once.                 *)
NewLedger ==
  [actions |-> 0, modelCalls |-> 0, stepMutations |-> 0, fallbacks |-> 0,
   step |-> 1, replay |-> {}, unsettled |-> {},
   attempts |-> [b \in ScrollBases |-> 0]]

BeginStep(l) ==
  [l EXCEPT !.step = @ + 1, !.stepMutations = 0, !.fallbacks = 0]

-----------------------------------------------------------------------------
(* Replay keys.                                                             *)
Base(l, c, v) ==
  [candidate |-> c,
   view      |-> IF c \in Inputs THEN NoView ELSE v,
   step      |-> IF c \in Presses THEN l.step ELSE 0]

Ordinal(l, b) == IF b.candidate \in Scrolls THEN l.attempts[b] ELSE 0

ReplayKey(l, c, v) == [base |-> Base(l, c, v), ordinal |-> Ordinal(l, Base(l, c, v))]

(* A press that may have been made holds its key and focus for the rest of  *)
(* the step, whatever state the anchor shows.                               *)
AwaitsSettlement(l, c) ==
  \E k \in l.unsettled : k.base.candidate = c /\ k.base.step = l.step

(* Mutant of ReplayForbidden: an unsettled press does not hold its focus.   *)
ReplayForbiddenByKey(l, c, v) == ReplayKey(l, c, v) \in l.replay

ReplayForbidden(l, c, v) == ReplayKey(l, c, v) \in l.replay \/ AwaitsSettlement(l, c)

-----------------------------------------------------------------------------
(* Budgets.  The active timeout is the caller's to check: it is no part of  *)
(* the ledger.                                                              *)
ModelCallLeft(l) == l.modelCalls < MaxModelCalls
RecordModelCall(l) == [l EXCEPT !.modelCalls = @ + 1]

ContextLeft(l, limit) == l.actions < MaxActions /\ l.stepMutations < limit
FallbackLeft(l, c) == c \in Mutating \/ l.fallbacks < MaxFallbacks

(* A wait is charged like any fallback, without a permit.                   *)
WaitLeft(l) == l.fallbacks < MaxFallbacks
ChargeWait(l) == [l EXCEPT !.fallbacks = @ + 1]

-----------------------------------------------------------------------------
(* The life of a permit.                                                    *)
(* Mutant of Mint: a press is not charged to the step.                      *)
MintPressFree(l, c, v) ==
  LET k == ReplayKey(l, c, v) IN
  [l EXCEPT !.replay = @ \cup {k},
            !.unsettled = IF c \in Presses THEN @ \cup {k} ELSE @,
            !.actions = @ + 1,
            !.stepMutations = IF c \in Inputs THEN @ + 1 ELSE @,
            !.fallbacks = IF c \in Mutating THEN 0 ELSE @ + 1]

Mint(l, c, v) ==
  LET k == ReplayKey(l, c, v) IN
  [l EXCEPT !.replay = @ \cup {k},
            !.unsettled = IF c \in Presses THEN @ \cup {k} ELSE @,
            !.actions = @ + 1,
            !.stepMutations = IF c \in Mutating THEN @ + 1 ELSE @,
            !.fallbacks = IF c \in Mutating THEN 0 ELSE @ + 1]

(* Counters are refunded with saturating_sub.                               *)
OneLess(n) == IF n = 0 THEN 0 ELSE n - 1

(* What a release refunds is what the key it removes was charged for.       *)
RefundsMutation(l, k) == k \in l.replay /\ k.base.candidate \in Mutating
RefundsFallback(l, k) == k \in l.replay /\ k.base.candidate \notin Mutating

ReleaseUnused(l, k) ==
  [l EXCEPT !.replay = @ \ {k}, !.unsettled = @ \ {k}, !.actions = OneLess(@),
            !.stepMutations = IF RefundsMutation(l, k) THEN OneLess(@) ELSE @,
            !.fallbacks = IF RefundsFallback(l, k) THEN OneLess(@) ELSE @]

(* A fallback that was refused stays charged, so that it stays bounded.     *)
ReleaseNotPerformed(l, k) ==
  [l EXCEPT !.replay = @ \ {k}, !.unsettled = @ \ {k},
            !.stepMutations = IF RefundsMutation(l, k) THEN OneLess(@) ELSE @]

(* Mutant of RecordObserved: a settled action gives its key back.           *)
RecordObservedForgets(l, k) ==
  [l EXCEPT !.unsettled = @ \ {k}, !.replay = @ \ {k}]

RecordObserved(l, k) == [l EXCEPT !.unsettled = @ \ {k}]

(* The next attempt at the same scroll has a key of its own.                *)
RecordUncertainScroll(l, k) ==
  [l EXCEPT !.attempts[k.base] = @ + 1]
=============================================================================
