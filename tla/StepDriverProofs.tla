-------------------------- MODULE StepDriverProofs --------------------------
(* Proofs about the ledger and the step driver, for every job and budget.   *)
EXTENDS StepDriver, SequenceTheorems, FiniteSetTheorems, TLAPS

LedgerOK(l) == l \in Ledgers /\ l.unsettled \subseteq l.replay

(* m is l after it was charged for calls or fallbacks only.                 *)
SpentFrom(l, m) ==
  /\ LedgerOK(m)
  /\ m.replay = l.replay /\ m.unsettled = l.unsettled /\ m.attempts = l.attempts
  /\ m.actions = l.actions /\ m.step = l.step /\ m.stepMutations = l.stepMutations

USE DEF LedgerOK

-----------------------------------------------------------------------------
(* The operations of the ledger.                                            *)

(* A new ledger is one.                                                     *)
LEMMA NewLedgerOK == LedgerOK(NewLedger)
BY LedgerAssumption DEF NewLedger, Ledgers

(* A replay key is one; a key of a scroll has a scroll's base.              *)
LEMMA KeyTypes ==
  ASSUME NEW l \in Ledgers, NEW c \in Candidates, NEW v \in Views
  PROVE  /\ Base(l, c, v) \in Bases /\ ReplayKey(l, c, v) \in Keys
         /\ ReplayKey(l, c, v).base = Base(l, c, v)
         /\ Base(l, c, v).candidate = c
         /\ c \in Presses => Base(l, c, v).step = l.step
         /\ ReplayKey(l, c, v).ordinal = Ordinal(l, Base(l, c, v))
<1>1. Base(l, c, v) \in Bases
  BY LedgerAssumption
  DEF Base, Bases, InputBases, PressBases, ScrollBases, HoverBases, Candidates, Ledgers
<1>2. c \in Scrolls => Base(l, c, v) \in ScrollBases
  BY LedgerAssumption DEF Base, ScrollBases
<1>3. Ordinal(l, Base(l, c, v)) \in Nat
  BY <1>2 DEF Ordinal, Ledgers, Base
<1> QED BY <1>1, <1>3, LedgerAssumption DEF ReplayKey, Keys, Base

(* Bases are told apart by their candidates.                                *)
LEMMA ScrollsHaveScrollBases ==
  ASSUME NEW b \in Bases, b.candidate \in Scrolls
  PROVE  b \in ScrollBases
BY LedgerAssumption DEF Bases, InputBases, PressBases, ScrollBases, HoverBases

(* The ordinal of a base is a number, zero unless it is a scroll's.         *)
LEMMA OrdinalType ==
  ASSUME NEW l \in Ledgers, NEW b \in Bases
  PROVE  Ordinal(l, b) \in Nat /\ (b.candidate \notin Scrolls => Ordinal(l, b) = 0)
BY ScrollsHaveScrollBases DEF Ordinal, Ledgers

(* A provider call is charged to the calls of the run, and to nothing else. *)
LEMMA CallSpends ==
  ASSUME NEW l, LedgerOK(l), ModelCallLeft(l)
  PROVE  SpentFrom(l, RecordModelCall(l))
BY LedgerAssumption DEF Ledgers, ModelCallLeft, RecordModelCall, SpentFrom

(* A wait is charged to the fallbacks, and to nothing else.                 *)
LEMMA WaitSpends ==
  ASSUME NEW l, LedgerOK(l), WaitLeft(l)
  PROVE  SpentFrom(l, ChargeWait(l))
BY LedgerAssumption DEF Ledgers, WaitLeft, ChargeWait, SpentFrom

(* What is charged twice is charged for calls or fallbacks only.            *)
LEMMA SpendingIsTransitive ==
  ASSUME NEW l, NEW m, NEW n, SpentFrom(l, m), SpentFrom(m, n)
  PROVE  SpentFrom(l, n)
BY DEF SpentFrom

(* A step begins with its own mutation count; keys are kept across steps.   *)
LEMMA BeginStepKeeps ==
  ASSUME NEW l, LedgerOK(l)
  PROVE  LET m == BeginStep(l) IN
         /\ LedgerOK(m)
         /\ m.replay = l.replay /\ m.unsettled = l.unsettled /\ m.attempts = l.attempts
         /\ m.actions = l.actions /\ m.step = l.step + 1
<1> DEFINE m == BeginStep(l)
<1>1. m = [l EXCEPT !.step = l.step + 1, !.stepMutations = 0, !.fallbacks = 0]
  BY DEF BeginStep
<1> HIDE DEF m
<1>2. 0 \in 0..MaxFallbacks /\ l.step + 1 \in Nat
  BY LedgerAssumption DEF Ledgers
<1>3. m \in Ledgers
  BY <1>1, <1>2 DEF Ledgers
<1>4. /\ m.replay = l.replay /\ m.unsettled = l.unsettled /\ m.attempts = l.attempts
      /\ m.actions = l.actions /\ m.step = l.step + 1
  BY <1>1 DEF Ledgers
<1>5. QED
  BY <1>3, <1>4 DEF m

(* A permit is charged to the run and to its step when it is minted, and its*)
(* replay key is held; a press is unsettled from then on.                   *)
LEMMA MintKeeps ==
  ASSUME NEW l, LedgerOK(l), NEW c \in Candidates, NEW v \in Views, NEW limit \in Nat,
         ContextLeft(l, limit), FallbackLeft(l, c)
  PROVE  LET m == Mint(l, c, v)
             k == ReplayKey(l, c, v)
         IN
         /\ LedgerOK(m)
         /\ m.replay = l.replay \cup {k} /\ l.unsettled \subseteq m.unsettled
         /\ IF c \in Presses THEN k \in m.unsettled ELSE m.unsettled = l.unsettled
         /\ m.unsettled \subseteq l.unsettled \cup {k}
         /\ m.attempts = l.attempts /\ m.step = l.step
         /\ m.actions = l.actions + 1
         /\ m.stepMutations = l.stepMutations + (IF c \in Mutating THEN 1 ELSE 0)
<1> DEFINE k == ReplayKey(l, c, v)
<1>1. k \in Keys
  BY KeyTypes
<1> HIDE DEF k
<1>2. l.actions + 1 \in 0..MaxActions
  BY LedgerAssumption DEF ContextLeft, Ledgers
<1>3. (IF c \in Mutating THEN 0 ELSE l.fallbacks + 1) \in 0..MaxFallbacks
  BY LedgerAssumption DEF FallbackLeft, Ledgers
<1>4. Mint(l, c, v) = [l EXCEPT !.replay = @ \cup {k},
            !.unsettled = IF c \in Presses THEN @ \cup {k} ELSE @,
            !.actions = @ + 1,
            !.stepMutations = IF c \in Mutating THEN @ + 1 ELSE @,
            !.fallbacks = IF c \in Mutating THEN 0 ELSE @ + 1]
  BY DEF Mint, k
<1> DEFINE m == Mint(l, c, v)
<1> HIDE DEF m
<1>5. /\ l.replay \cup {k} \in SUBSET Keys
      /\ (IF c \in Presses THEN l.unsettled \cup {k} ELSE l.unsettled) \in SUBSET Keys
      /\ (IF c \in Mutating THEN l.stepMutations + 1 ELSE l.stepMutations) \in Nat
  BY <1>1 DEF Ledgers
<1>6. m \in Ledgers
  BY <1>2, <1>3, <1>4, <1>5 DEF Ledgers, m
<1>7. /\ m.replay = l.replay \cup {k}
      /\ m.unsettled = IF c \in Presses THEN l.unsettled \cup {k} ELSE l.unsettled
      /\ m.attempts = l.attempts /\ m.step = l.step
      /\ m.actions = l.actions + 1
      /\ m.stepMutations = IF c \in Mutating THEN l.stepMutations + 1 ELSE l.stepMutations
  BY <1>4 DEF Ledgers, m
<1>8. m.stepMutations = l.stepMutations + (IF c \in Mutating THEN 1 ELSE 0)
  BY <1>7 DEF Ledgers
<1>9. QED
  BY <1>6, <1>7, <1>8 DEF k, m

(* A mutation that is minted and released unused leaves only the fallback   *)
(* budget changed.                                                          *)
LEMMA UnusedIsRefunded ==
  ASSUME NEW l, LedgerOK(l), NEW c \in Mutating, NEW v \in Views, NEW limit \in Nat,
         ContextLeft(l, limit), ~ReplayForbidden(l, c, v)
  PROVE  SpentFrom(l, ReleaseUnused(Mint(l, c, v), ReplayKey(l, c, v)))
<1> DEFINE k == ReplayKey(l, c, v)
           m == Mint(l, c, v)
<1>1. c \in Candidates /\ FallbackLeft(l, c)
  BY DEF Mutating, Candidates, FallbackLeft
<1>2. /\ m \in Ledgers /\ m.replay = l.replay \cup {k}
      /\ l.unsettled \subseteq m.unsettled /\ m.unsettled \subseteq l.unsettled \cup {k}
      /\ m.attempts = l.attempts /\ m.step = l.step
      /\ m.actions = l.actions + 1 /\ m.stepMutations = l.stepMutations + 1
  BY <1>1, MintKeeps
<1>3. k \notin l.replay /\ k \notin l.unsettled
  BY DEF ReplayForbidden
<1>4. k.base.candidate = c
  BY <1>1, KeyTypes
<1> HIDE DEF k, m
<1>5. RefundsMutation(m, k) /\ ~RefundsFallback(m, k)
  BY <1>2, <1>4 DEF RefundsMutation, RefundsFallback
<1>6. ReleaseUnused(m, k) =
        [m EXCEPT !.replay = @ \ {k}, !.unsettled = @ \ {k}, !.actions = OneLess(@),
                  !.stepMutations = OneLess(@), !.fallbacks = @]
  BY <1>2, <1>5 DEF ReleaseUnused
<1>7. l.actions \in 0..MaxActions /\ l.stepMutations \in Nat
  BY DEF Ledgers
<1>8. OneLess(m.actions) = l.actions /\ OneLess(m.stepMutations) = l.stepMutations
  BY <1>2, <1>7, LedgerAssumption DEF OneLess
<1> DEFINE n == ReleaseUnused(m, k)
<1> HIDE DEF n
<1>9. /\ n.replay = m.replay \ {k} /\ n.unsettled = m.unsettled \ {k}
      /\ n.attempts = l.attempts /\ n.step = l.step
      /\ n.actions = l.actions /\ n.stepMutations = l.stepMutations
  BY <1>2, <1>6, <1>8 DEF Ledgers, n
<1>10. n.replay = l.replay /\ n.unsettled = l.unsettled
  BY <1>2, <1>3, <1>9
<1>11. n \in Ledgers
  BY <1>2, <1>6, <1>7, <1>8 DEF Ledgers, n
<1>12. QED
  BY <1>9, <1>10, <1>11 DEF SpentFrom, k, m, n

(* An action that was not performed gives back its key and its mutation.    *)
LEMMA ReleaseKeeps ==
  ASSUME NEW l, LedgerOK(l), NEW k \in l.replay
  PROVE  LET m == ReleaseNotPerformed(l, k) IN
         /\ LedgerOK(m)
         /\ m.replay = l.replay \ {k} /\ m.unsettled = l.unsettled \ {k}
         /\ m.attempts = l.attempts /\ m.actions = l.actions /\ m.step = l.step
         /\ m.stepMutations =
              IF k.base.candidate \in Mutating THEN OneLess(l.stepMutations)
                                               ELSE l.stepMutations
<1>1. OneLess(l.stepMutations) \in Nat
  BY DEF OneLess, Ledgers
<1> QED BY <1>1 DEF Ledgers, ReleaseNotPerformed, RefundsMutation

(* An observed action keeps its key and settles it.                         *)
LEMMA ObservedKeeps ==
  ASSUME NEW l, LedgerOK(l), NEW k
  PROVE  LET m == RecordObserved(l, k) IN
         /\ LedgerOK(m)
         /\ m.replay = l.replay /\ m.unsettled = l.unsettled \ {k}
         /\ m.attempts = l.attempts /\ m.actions = l.actions /\ m.step = l.step
         /\ m.stepMutations = l.stepMutations
BY DEF Ledgers, RecordObserved

(* An uncertain scroll keeps its key; only the next ordinal of its base     *)
(* changes.                                                                 *)
LEMMA UncertainScrollKeeps ==
  ASSUME NEW l, LedgerOK(l), NEW k \in Keys, k.base.candidate \in Scrolls
  PROVE  LET m == RecordUncertainScroll(l, k) IN
         /\ LedgerOK(m)
         /\ m.replay = l.replay /\ m.unsettled = l.unsettled
         /\ m.actions = l.actions /\ m.step = l.step
         /\ m.stepMutations = l.stepMutations
         /\ \A b \in Bases :
              Ordinal(m, b) = IF b = k.base THEN Ordinal(l, b) + 1 ELSE Ordinal(l, b)
<1>1. k.base \in ScrollBases
  BY ScrollsHaveScrollBases DEF Keys
<1>2. l.attempts \in [ScrollBases -> Nat] /\ l.attempts[k.base] + 1 \in Nat
  BY <1>1 DEF Ledgers
<1> DEFINE f == [l.attempts EXCEPT ![k.base] = @ + 1]
<1>3. f \in [ScrollBases -> Nat]
  BY <1>2
<1>4. \A b \in ScrollBases : f[b] = IF b = k.base THEN l.attempts[b] + 1 ELSE l.attempts[b]
  BY <1>2
<1>5. RecordUncertainScroll(l, k) = [l EXCEPT !.attempts = f]
  BY DEF RecordUncertainScroll, Ledgers
<1> HIDE DEF f
<1>6. LET m == RecordUncertainScroll(l, k) IN
      /\ LedgerOK(m) /\ m.attempts = f
      /\ m.replay = l.replay /\ m.unsettled = l.unsettled
      /\ m.actions = l.actions /\ m.step = l.step
      /\ m.stepMutations = l.stepMutations
  BY <1>3, <1>5 DEF Ledgers
<1>7. ASSUME NEW b \in Bases
      PROVE  Ordinal(RecordUncertainScroll(l, k), b) =
               IF b = k.base THEN Ordinal(l, b) + 1 ELSE Ordinal(l, b)
  BY <1>4, <1>6, ScrollsHaveScrollBases DEF Ordinal
<1> QED BY <1>6, <1>7

-----------------------------------------------------------------------------
(* How a step leaves the run.                                               *)

(* The kinds of stop, and the type that every way out of a step preserves.  *)
Reasons == {"blocked", "aborted", "budget_exhausted", "done_condition_not_met",
            "write_readback_mismatch", "evidence_incomplete_after_dispatch"}
LedgerStep == LedgerOK(ledger') /\ deeds' \subseteq Deeds

(* A final stop keeps the types.                                            *)
LEMMA EndType ==
  ASSUME TypeOK, LedgerStep, NEW r \in Reasons, End(r)
  PROVE  TypeOK'
BY DEF TypeOK, LedgerStep, End, Reasons, Dispatching, Answered, Paused

(* So does an escalation, which leaves the run paused on what it offers.    *)
LEMMA EscalateType ==
  ASSUME TypeOK, LedgerStep, NEW p \in Pendings, Escalate(p)
  PROVE  TypeOK'
BY DEF TypeOK, LedgerStep, Escalate, Dispatching, Answered, Paused

(* So does a driver that goes on: no escalation is being answered.          *)
LEMMA ContinueType ==
  ASSUME TypeOK, LedgerStep, ~Answered, NEW d \in Drivers, Continue(d)
  PROVE  TypeOK'
BY DEF TypeOK, LedgerStep, Continue, Dispatching, Answered, Paused

(* A new driver starts with the mutations charged to its step.              *)
LEMMA NewDriverType ==
  ASSUME NEW l \in Ledgers
  PROVE  NewDriver(l) \in Drivers /\ NewDriver(l).mutations = l.stepMutations
BY DEF Ledgers, NewDriver, Drivers

(* A disposition that resumes the run keeps the types.                      *)
LEMMA ResumeType ==
  ASSUME TypeOK, LedgerStep, Resume
  PROVE  TypeOK'
BY NewDriverType DEF TypeOK, LedgerStep, Resume, Dispatching, Answered, Paused

(* So does a completed step, the last one included.                         *)
LEMMA PassStepType ==
  ASSUME TypeOK, StepsLeft, NEW l, LedgerOK(l), PassStep(l)
  PROVE  TypeOK'
<1>1. LedgerOK(ledger')
  BY BeginStepKeeps DEF PassStep
<1>2. driver' \in Drivers
  BY <1>1, NewDriverType DEF PassStep
<1>3. index' \in 1..(Len(Steps) + 1)
  BY DriverAssumption DEF PassStep, TypeOK, StepsLeft
<1>4. QED
  BY <1>1, <1>2, <1>3 DEF PassStep, TypeOK, Dispatching, Answered, Paused

(* What escalations keep.                                                   *)
LEMMA PendingTypes ==
  /\ \A noul \in BOOLEAN : Plain("unknown", noul) \in Pendings
  /\ Undone \in Pendings /\ Ambiguous(Undone) \in Pendings
  /\ \A c \in Candidates, v \in Views :
       Offer(c, v) \in Pendings /\ Ambiguous(Offer(c, v)) \in Pendings
  /\ \A p \in Pendings : WithoutCandidate(p) \in Pendings
BY DEF Plain, Undone, Offer, Ambiguous, WithoutCandidate, Pendings

(* A step of the loop, or a disposition, that performs no action: it spends *)
(* of the ledger, or begins a step, and adds nothing to the history.        *)
Quiet ==
  /\ LedgerOK(ledger')
  /\ ledger'.replay = ledger.replay /\ ledger'.unsettled = ledger.unsettled
  /\ ledger'.attempts = ledger.attempts /\ ledger'.actions = ledger.actions
  /\ ledger'.step >= ledger.step
  /\ deeds' = deeds
  /\ ~Dispatching'

(* A quiet step keeps what the history and the ledger say of each other.    *)
LEMMA QuietKeepsHistory ==
  ASSUME TypeOK, History, Quiet
  PROVE  History'
<1>1. KeysHeld'
  BY DEF History, KeysHeld, Quiet
<1>2. OrdinalsGrow'
  BY DEF History, OrdinalsGrow, Quiet, Ordinal
<1>3. PressesHeld'
  <2>1. \A d \in deeds : d.step \in Nat
    BY DEF TypeOK, Deeds
  <2>2. ledger.step \in Nat /\ ledger'.step \in Nat
    BY DEF TypeOK, Quiet, Ledgers
  <2>3. QED
    BY <2>1, <2>2 DEF History, PressesHeld, Quiet, IsPress
<1>4. NeverRepeated' /\ UncertainPressIsLast'
  BY DEF History, NeverRepeated, UncertainPressIsLast, Quiet, IsPress
<1>5. QED
  BY <1>1, <1>2, <1>3, <1>4 DEF History

(* While steps are left, the step that is driven is one of the job's.       *)
LEMMA StepIsOne ==
  ASSUME TypeOK, StepsLeft
  PROVE  index \in 1..Len(Steps) /\ Step.limit \in Nat /\ Step.natural \in BOOLEAN
<1> DEFINE JobSteps == [natural : BOOLEAN, forced : BOOLEAN, limit : Nat]
<1>1. Steps \in Seq(JobSteps)
  BY DriverAssumption
<1>2. index \in 1..Len(Steps)
  <2>1. Len(Steps) \in Nat
    BY <1>1
  <2>2. QED
    BY <2>1 DEF TypeOK, StepsLeft
<1>3. Step \in JobSteps
  <2> HIDE DEF JobSteps
  <2>1. Steps[index] \in JobSteps
    BY <1>1, <1>2, ElementOfSeq
  <2>2. QED
    BY <2>1 DEF Step
<1>4. QED
  BY <1>2, <1>3

(* A permit is minted and dispatched, by the driver or for a caller.        *)
Dispatches(l, c, v, basis) ==
  /\ SpentFrom(ledger, l)
  /\ ContextLeft(l, Step.limit) /\ FallbackLeft(l, c) /\ ~ReplayForbidden(l, c, v)
  /\ ledger' = Mint(l, c, v)
  /\ permit' = NewPermit(c, v, basis)
  /\ phase' = "dispatching" /\ deeds' = deeds

(* What a dispatch charges, and how it changes the ledger's keys.           *)
LEMMA DispatchCharges ==
  ASSUME TypeOK, StepsLeft, NEW l, NEW c \in Candidates, NEW v \in Views,
         NEW basis \in {"autonomous", "caller_authority"}, Dispatches(l, c, v, basis)
  PROVE  /\ LedgerOK(ledger')
         /\ permit' \in Permits
         /\ permit'.key = ReplayKey(l, c, v) /\ permit'.key.base.candidate = c
         /\ permit'.basis = basis /\ permit'.sequence = ledger.actions + 1
         /\ ledger'.replay = ledger.replay \cup {permit'.key}
         /\ ledger.unsettled \subseteq ledger'.unsettled
         /\ c \in Presses => permit'.key \in ledger'.unsettled
         /\ ledger'.attempts = ledger.attempts /\ ledger'.step = ledger.step
         /\ ledger'.actions = ledger.actions + 1
         /\ ledger'.stepMutations =
              ledger.stepMutations + (IF c \in Mutating THEN 1 ELSE 0)
<1> DEFINE k == ReplayKey(l, c, v)
<1>1. Step.limit \in Nat
  BY StepIsOne
<1>2. LedgerOK(l) /\ l.attempts = ledger.attempts /\ l.step = ledger.step
      /\ l.actions = ledger.actions /\ l.replay = ledger.replay
      /\ l.unsettled = ledger.unsettled /\ l.stepMutations = ledger.stepMutations
  BY DEF Dispatches, SpentFrom
<1>3. k = ReplayKey(ledger, c, v)
  BY <1>2 DEF ReplayKey, Base, Ordinal
<1>4. /\ LedgerOK(ledger')
      /\ ledger'.replay = l.replay \cup {k} /\ l.unsettled \subseteq ledger'.unsettled
      /\ c \in Presses => k \in ledger'.unsettled
      /\ ledger'.attempts = l.attempts /\ ledger'.step = l.step
      /\ ledger'.actions = l.actions + 1
      /\ ledger'.stepMutations = l.stepMutations + (IF c \in Mutating THEN 1 ELSE 0)
  BY <1>1, <1>2, MintKeeps DEF Dispatches
<1>5. k \in Keys /\ k.base.candidate = c
  BY <1>2, KeyTypes
<1> HIDE DEF k
<1>6. permit' = [key |-> k, sequence |-> ledger'.actions, basis |-> basis]
  BY <1>3 DEF Dispatches, NewPermit
<1>7. ledger'.actions \in 1..MaxActions
  <2>1. ledger'.actions \in 0..MaxActions /\ l.actions \in Nat
    BY <1>2, <1>4 DEF Ledgers
  <2>2. QED
    BY <2>1, <1>4, LedgerAssumption
<1>8. permit' \in Permits
  BY <1>5, <1>6, <1>7 DEF Permits
<1>9. QED
  BY <1>2, <1>4, <1>5, <1>6, <1>8 DEF k

(* A dispatch keeps the history: its key is a new one, and no unsettled     *)
(* press of its key on its focus is held in the step.                       *)
LEMMA DispatchKeepsHistory ==
  ASSUME TypeOK, StepsLeft, History, NEW l, NEW c \in Candidates, NEW v \in Views,
         NEW basis \in {"autonomous", "caller_authority"}, Dispatches(l, c, v, basis)
  PROVE  History'
<1> DEFINE k == ReplayKey(l, c, v)
<1>1. /\ LedgerOK(ledger')
      /\ permit'.key = k /\ k.base.candidate = c
      /\ permit'.sequence = ledger.actions + 1
      /\ ledger'.replay = ledger.replay \cup {k}
      /\ ledger.unsettled \subseteq ledger'.unsettled
      /\ c \in Presses => k \in ledger'.unsettled
      /\ ledger'.attempts = ledger.attempts /\ ledger'.step = ledger.step
      /\ ledger'.actions = ledger.actions + 1
      /\ deeds' = deeds
  BY DispatchCharges DEF Dispatches
<1>2. /\ LedgerOK(l) /\ l.attempts = ledger.attempts /\ l.step = ledger.step
      /\ l.replay = ledger.replay /\ l.unsettled = ledger.unsettled
      /\ ~ReplayForbidden(l, c, v)
  BY DEF Dispatches, SpentFrom
<1>3. /\ k \notin ledger.replay
      /\ \A u \in ledger.unsettled : u.base.candidate = c => u.base.step # ledger.step
  BY <1>2 DEF ReplayForbidden, AwaitsSettlement
<1>4. /\ k.ordinal = Ordinal(l, k.base) /\ k.base \in Bases
      /\ c \in Presses => k.base.step = l.step
  BY <1>2, KeyTypes
<1> HIDE DEF k
<1>5. k.ordinal = Ordinal(ledger', k.base) /\ k.ordinal \in Nat
  <2>1. Ordinal(ledger', k.base) = Ordinal(l, k.base)
    BY <1>1, <1>2 DEF Ordinal
  <2>2. QED
    BY <2>1, <1>2, <1>4, OrdinalType
<1>6. \A d \in deeds : d.sequence \in Nat /\ d.step \in Nat
  BY DEF TypeOK, Deeds
<1>7. ledger.actions \in Nat
  BY DEF TypeOK, Ledgers
<1>8. KeysHeld'
  BY <1>1, <1>3, <1>6, <1>7 DEF History, KeysHeld
<1>9. OrdinalsGrow'
  BY <1>1, <1>5 DEF History, OrdinalsGrow, Ordinal
<1>10. PressesHeld'
  <2>1. /\ \A d \in deeds : d.step <= ledger'.step /\ (IsPress(d) => d.key.base.step = d.step)
        /\ IsPress(permit)' => permit'.key.base.step = ledger'.step /\ permit'.key \in ledger'.unsettled
    BY <1>1, <1>2, <1>4 DEF History, PressesHeld, IsPress
  <2>2. ASSUME NEW d \in deeds, IsPress(d), d.outcome = "uncertain", d.step = ledger.step
        PROVE  d.key \in ledger'.unsettled /\ c # d.key.base.candidate
    <3>1. d.key \in ledger.unsettled /\ d.key.base.step = ledger.step
      BY <2>2 DEF History, PressesHeld
    <3>2. QED
      BY <3>1, <1>1, <1>3
  <2>3. QED
    BY <2>1, <2>2, <1>1 DEF PressesHeld, IsPress, Candidate
<1>11. NeverRepeated' /\ UncertainPressIsLast'
  BY <1>1 DEF History, NeverRepeated, UncertainPressIsLast, IsPress
<1>12. QED
  BY <1>8, <1>9, <1>10, <1>11 DEF History

(* What was dispatched happened, or may have.                               *)
Happened(outcome) ==
  /\ deeds' = deeds \cup {Deed(outcome)}
  /\ ledger'.replay = ledger.replay /\ ledger'.actions = ledger.actions
  /\ ledger'.step = ledger.step
  /\ ledger.unsettled \ {permit.key} \subseteq ledger'.unsettled
  /\ outcome = "uncertain" => ledger'.unsettled = ledger.unsettled
  /\ \A b \in Bases :
       \/ Ordinal(ledger', b) = Ordinal(ledger, b)
       \/ /\ outcome = "uncertain" /\ b = permit.key.base
          /\ Ordinal(ledger', b) = Ordinal(ledger, b) + 1

(* An action that happened, or may have, keeps it: its key is still held,   *)
(* and no earlier deed has the same base unless it is an uncertain scroll.  *)
LEMMA HappenedKeepsHistory ==
  ASSUME TypeOK, History, Dispatching, LedgerOK(ledger'), ~Dispatching',
         NEW outcome \in {"observed", "uncertain"}, Happened(outcome)
  PROVE  History'
<1> DEFINE p == Deed(outcome)
<1>1. /\ p.key = permit.key /\ p.step = ledger.step /\ p.sequence = permit.sequence
      /\ p.outcome = outcome
  BY DEF Deed
<1>2. /\ deeds' = deeds \cup {p}
      /\ ledger'.replay = ledger.replay /\ ledger'.actions = ledger.actions
      /\ ledger'.step = ledger.step
  BY DEF Happened
<1> HIDE DEF p
<1>3. /\ permit.key \in Keys /\ permit.sequence \in Nat
      /\ \A d \in deeds : d.key \in Keys /\ d.sequence \in Nat /\ d.step \in Nat
      /\ ledger.step \in Nat /\ ledger.actions \in Nat
  <2>1. 1..MaxActions \subseteq Nat /\ 0..MaxActions \subseteq Nat
    BY LedgerAssumption
  <2>2. permit \in Permits /\ deeds \subseteq Deeds /\ ledger \in Ledgers
    BY DEF TypeOK
  <2>3. permit.key \in Keys /\ permit.sequence \in Nat
    BY <2>1, <2>2 DEF Permits
  <2>4. \A d \in deeds : d.key \in Keys /\ d.sequence \in Nat /\ d.step \in Nat
    BY <2>1, <2>2 DEF Deeds
  <2>5. ledger.step \in Nat /\ ledger.actions \in Nat
    BY <2>1, <2>2 DEF Ledgers
  <2>6. QED
    BY <2>3, <2>4, <2>5
<1>4. /\ permit.key \in ledger.replay /\ permit.sequence <= ledger.actions
      /\ \A d \in deeds : d.key \in ledger.replay /\ d.sequence <= ledger.actions
      /\ \A d \in deeds : d.key # permit.key /\ d.sequence < permit.sequence
  BY DEF History, KeysHeld
<1>5. KeysHeld'
  BY <1>1, <1>2, <1>4 DEF KeysHeld
<1>6. \A k \in Keys : k.base \in Bases /\ k.ordinal \in Nat
                     /\ k = [base |-> k.base, ordinal |-> k.ordinal]
  BY DEF Keys
<1>7. \A d \in deeds : d.key.base = permit.key.base => d.key.ordinal # permit.key.ordinal
  BY <1>3, <1>4, <1>6
<1>8. /\ \A k \in ledger.replay : k.ordinal <= Ordinal(ledger, k.base)
      /\ \A d \in deeds : d.outcome = "observed" => d.key.ordinal = Ordinal(ledger, d.key.base)
      /\ permit.key.ordinal = Ordinal(ledger, permit.key.base)
  BY DEF History, OrdinalsGrow
<1>9. \A b \in Bases : Ordinal(ledger, b) \in Nat
                     /\ (b.candidate \notin Scrolls => Ordinal(ledger, b) = 0)
  BY OrdinalType DEF TypeOK
<1>10. \A d \in deeds : d.key.base = permit.key.base =>
         /\ d.key.base.candidate \in Scrolls
         /\ d.outcome # "observed"
  <2> SUFFICES ASSUME NEW d \in deeds, d.key.base = permit.key.base
               PROVE  d.key.base.candidate \in Scrolls /\ d.outcome # "observed"
    OBVIOUS
  <2>1. d.outcome # "observed"
    BY <1>7, <1>8
  <2>2. d.key.ordinal <= Ordinal(ledger, d.key.base) /\ d.key.ordinal \in Nat
        /\ d.key.base \in Bases
    BY <1>3, <1>4, <1>6, <1>8
  <2>3. CASE d.key.base.candidate \notin Scrolls
    <3>1. Ordinal(ledger, d.key.base) = 0
      BY <2>2, <2>3, <1>9
    <3>2. d.key.ordinal = 0 /\ permit.key.ordinal = 0
      BY <3>1, <2>2, <1>8
    <3>3. QED
      BY <3>2, <1>7
  <2>4. QED
    BY <2>1, <2>3
<1>11. OrdinalsGrow'
  <2>1. ASSUME NEW k \in ledger.replay
        PROVE  k.ordinal <= Ordinal(ledger', k.base)
    <3>1. k \in Keys
      BY DEF TypeOK, Ledgers
    <3>2. Ordinal(ledger', k.base) >= Ordinal(ledger, k.base)
      BY <3>1, <1>6, <1>9 DEF Happened
    <3>3. k.ordinal <= Ordinal(ledger, k.base) /\ Ordinal(ledger, k.base) \in Nat
          /\ k.ordinal \in Nat
      BY <3>1, <1>6, <1>8, <1>9
    <3>4. Ordinal(ledger', k.base) \in Nat
      BY <3>1, <1>6, OrdinalType
    <3>5. QED
      BY <3>2, <3>3, <3>4
  <2>2. ASSUME NEW d \in deeds, d.outcome = "observed"
        PROVE  d.key.ordinal = Ordinal(ledger', d.key.base)
    BY <2>2, <1>3, <1>6, <1>8, <1>10 DEF Happened
  <2>3. outcome = "observed" => permit.key.ordinal = Ordinal(ledger', permit.key.base)
    BY <1>3, <1>6, <1>8 DEF Happened
  <2>4. QED
    BY <2>1, <2>2, <2>3, <1>1, <1>2 DEF OrdinalsGrow
<1>12. NeverRepeated'
  <2>1. \A d \in deeds : d.key.base = p.key.base =>
          d.key.base.candidate \in Scrolls /\ d.outcome # "observed" /\ d.sequence < p.sequence
    BY <1>1, <1>4, <1>10
  <2>2. QED
    BY <2>1, <1>2 DEF History, NeverRepeated
<1>13. /\ \A d \in deeds : d.step <= ledger.step /\ (IsPress(d) => d.key.base.step = d.step)
       /\ IsPress(permit) => permit.key.base.step = ledger.step /\ permit.key \in ledger.unsettled
       /\ \A d \in deeds : IsPress(d) /\ d.outcome = "uncertain" /\ d.step = ledger.step =>
            d.key \in ledger.unsettled /\ permit.key.base.candidate # d.key.base.candidate
  BY DEF History, PressesHeld, Candidate
<1>14. PressesHeld'
  <2>1. \A d \in deeds : IsPress(d) /\ d.outcome = "uncertain" /\ d.step = ledger.step =>
          d.key \in ledger'.unsettled
    BY <1>4, <1>13 DEF Happened
  <2>2. IsPress(p) => p.key.base.step = p.step
    BY <1>1, <1>13 DEF IsPress
  <2>3. IsPress(p) /\ p.outcome = "uncertain" => p.key \in ledger'.unsettled
    BY <1>1, <1>13 DEF IsPress, Happened
  <2>4. p.step <= ledger.step
    BY <1>1, <1>3
  <2>5. QED
    BY <2>1, <2>2, <2>3, <2>4, <1>2, <1>13 DEF PressesHeld, IsPress
<1>15. UncertainPressIsLast'
  <2>1. \A d \in deeds : IsPress(d) /\ d.outcome = "uncertain" /\ d.step = p.step =>
          p.key.base.candidate # d.key.base.candidate
    BY <1>1, <1>13
  <2>2. \A e \in deeds : e.sequence <= p.sequence
    BY <1>1, <1>3, <1>4
  <2>3. p.sequence <= p.sequence
    BY <1>1, <1>3
  <2>4. QED
    BY <2>1, <2>2, <2>3, <1>2 DEF History, UncertainPressIsLast, IsPress
<1>16. QED
  BY <1>5, <1>11, <1>12, <1>14, <1>15 DEF History

(* What was not performed releases its key, and leaves no deed.             *)
LEMMA ReleaseKeepsHistory ==
  ASSUME TypeOK, History, Dispatching, ~Dispatching', deeds' = deeds,
         ledger' = ReleaseNotPerformed(ledger, permit.key)
  PROVE  History'
<1>1. permit.key \in ledger.replay
  BY DEF History, KeysHeld
<1>2. LedgerOK(ledger)
  BY DEF TypeOK
<1>3. /\ ledger'.replay = ledger.replay \ {permit.key}
      /\ ledger'.unsettled = ledger.unsettled \ {permit.key}
      /\ ledger'.attempts = ledger.attempts
      /\ ledger'.actions = ledger.actions /\ ledger'.step = ledger.step
  BY <1>1, <1>2, ReleaseKeeps
<1>4. \A d \in deeds : d.key \in ledger.replay /\ d.key # permit.key
  BY DEF History, KeysHeld
<1>5. KeysHeld'
  BY <1>3, <1>4 DEF History, KeysHeld
<1>6. OrdinalsGrow'
  BY <1>3 DEF History, OrdinalsGrow, Ordinal
<1>7. PressesHeld'
  BY <1>3, <1>4 DEF History, PressesHeld, IsPress
<1>8. NeverRepeated' /\ UncertainPressIsLast'
  BY DEF History, NeverRepeated, UncertainPressIsLast, IsPress
<1>9. QED
  BY <1>5, <1>6, <1>7, <1>8 DEF History

-----------------------------------------------------------------------------
(* The invariant.                                                           *)

(* How a step of any kind but a dispatch and a completed step leaves the    *)
(* run; a driver that goes on counts what the ledger counts.                *)
Leaves ==
  \/ \E r \in Reasons : End(r)
  \/ \E p \in Pendings : p.candidate \notin Scrolls /\ Escalate(p)
  \/ ~Answered /\ \E d \in Drivers : d.mutations = ledger'.stepMutations /\ Continue(d)
  \/ Resume

InLoop == phase \in {"driving", "dispatching", "paused"}

(* However it leaves, the run keeps the invariant if its history does.      *)
LEMMA LeavingKeepsInv ==
  ASSUME Inv, InLoop, LedgerStep, History', Leaves
  PROVE  Inv'
<1>1. TypeOK /\ StepsLeft
  BY DEF Inv, InStep, InLoop
<1>2. CASE \E r \in Reasons : End(r)
  <2>1. TypeOK'
    BY <1>1, <1>2, EndType
  <2>2. phase' = "ended"
    BY <1>2 DEF End
  <2>3. QED
    BY <2>1, <2>2
    DEF Inv, InStep, ChargesAgree, CountsAgree, NoScrollOffered, CallerNeverScrolls,
        Dispatching, Answered, Paused
<1>3. CASE \E p \in Pendings : p.candidate \notin Scrolls /\ Escalate(p)
  <2>1. TypeOK'
    BY <1>1, <1>3, EscalateType
  <2>2. phase' = "paused" /\ index' = index /\ pending'.candidate \notin Scrolls
    BY <1>3 DEF Escalate
  <2>3. QED
    BY <2>1, <2>2, <1>1
    DEF Inv, InStep, StepsLeft, ChargesAgree, CountsAgree, NoScrollOffered,
        CallerNeverScrolls, Dispatching
<1>4. CASE ~Answered /\ \E d \in Drivers : d.mutations = ledger'.stepMutations /\ Continue(d)
  <2>1. TypeOK'
    BY <1>1, <1>4, ContinueType
  <2>2. /\ phase' = "driving" /\ index' = index
        /\ driver'.mutations = ledger'.stepMutations
    BY <1>4 DEF Continue
  <2>3. QED
    BY <2>1, <2>2, <1>1
    DEF Inv, InStep, StepsLeft, ChargesAgree, CountsAgree, NoScrollOffered,
        CallerNeverScrolls, Dispatching, Answered, Paused
<1>5. CASE Resume
  <2>1. TypeOK'
    BY <1>1, <1>5, ResumeType
  <2>2. /\ phase' = "driving" /\ index' = index
        /\ driver' = NewDriver(ledger')
    BY <1>5 DEF Resume
  <2>3. driver'.mutations = ledger'.stepMutations
    BY <2>2, NewDriverType DEF LedgerStep
  <2>4. QED
    BY <2>1, <2>2, <2>3, <1>1
    DEF Inv, InStep, StepsLeft, ChargesAgree, CountsAgree, NoScrollOffered,
        CallerNeverScrolls, Dispatching, Answered, Paused
<1>6. QED
  BY <1>2, <1>3, <1>4, <1>5 DEF Leaves

(* A step that performs nothing keeps the invariant however it leaves.      *)
LEMMA SpendingKeepsInv ==
  ASSUME Inv, InLoop, Leaves, SpentFrom(ledger, ledger'), deeds' = deeds
  PROVE  Inv'
<1>1. ~Dispatching'
  BY DEF Leaves, End, Escalate, Continue, Resume, Dispatching
<1>2. ledger.step \in Nat /\ ledger'.step = ledger.step
  BY DEF Inv, TypeOK, Ledgers, SpentFrom
<1>3. Quiet
  BY <1>1, <1>2 DEF Quiet, SpentFrom
<1>4. History'
  BY <1>3, QuietKeepsHistory DEF Inv
<1>5. LedgerStep
  BY DEF LedgerStep, SpentFrom, Inv, TypeOK
<1>6. QED
  BY <1>4, <1>5, LeavingKeepsInv

(* So does a completed step.                                                *)
LEMMA PassingKeepsInv ==
  ASSUME Inv, InLoop, NEW l, SpentFrom(ledger, l), PassStep(l)
  PROVE  Inv'
<1>1. TypeOK /\ StepsLeft /\ LedgerOK(l)
  BY DEF Inv, InStep, InLoop, SpentFrom
<1>2. TypeOK'
  BY <1>1, PassStepType
<1>3. ~Dispatching' /\ ~Answered' /\ deeds' = deeds
  BY DEF PassStep, Dispatching, Answered, Paused
<1>4. LedgerOK(ledger') /\ ledger'.step >= ledger.step
      /\ ledger'.replay = ledger.replay /\ ledger'.unsettled = ledger.unsettled
      /\ ledger'.attempts = ledger.attempts /\ ledger'.actions = ledger.actions
  <2>1. /\ l.replay = ledger.replay /\ l.unsettled = ledger.unsettled
        /\ l.attempts = ledger.attempts /\ l.actions = ledger.actions
        /\ l.step = ledger.step /\ l.step \in Nat
    BY <1>1 DEF SpentFrom, Ledgers
  <2>2. CASE index = Len(Steps)
    BY <1>1, <2>1, <2>2 DEF PassStep
  <2>3. CASE index # Len(Steps)
    BY <1>1, <2>1, <2>3, BeginStepKeeps DEF PassStep
  <2>4. QED
    BY <2>2, <2>3
<1>5. History'
  BY <1>3, <1>4, QuietKeepsHistory DEF Quiet, Inv
<1>6. driver'.mutations = ledger'.stepMutations
  BY <1>4, NewDriverType DEF PassStep
<1>7. InStep'
  <2>1. index \in 1..Len(Steps) /\ Len(Steps) \in Nat
    BY <1>1, StepIsOne
  <2>2. QED
    BY <2>1 DEF InStep, StepsLeft, PassStep
<1>8. QED
  BY <1>2, <1>3, <1>5, <1>6, <1>7
  DEF Inv, ChargesAgree, CountsAgree, NoScrollOffered, CallerNeverScrolls

(* What a done check spends; nothing is spent without one.                  *)
LEMMA ChecksSpend ==
  ASSUME Inv
  PROVE  /\ SpentFrom(ledger, ledger)
         /\ ModelCallLeft(ledger) => SpentFrom(ledger, Judged)
         /\ (Step.natural => ModelCallLeft(ledger)) =>
              /\ SpentFrom(ledger, AfterDoneCheck)
              /\ AfterDoneCheck.fallbacks = ledger.fallbacks
<1>1. LedgerOK(ledger)
  BY DEF Inv, TypeOK
<1>2. SpentFrom(ledger, ledger)
  BY <1>1 DEF SpentFrom
<1>3. ModelCallLeft(ledger) => SpentFrom(ledger, RecordModelCall(ledger))
  BY <1>1, CallSpends
<1>4. RecordModelCall(ledger).fallbacks = ledger.fallbacks
  BY <1>1 DEF RecordModelCall, Ledgers
<1>5. QED
  BY <1>2, <1>3, <1>4 DEF Judged, AfterDoneCheck

(* What a dispatch adds to the invariant, whoever authorized it.            *)
LEMMA DispatchKeepsInv ==
  ASSUME Inv, InLoop, NEW l, NEW c \in Candidates, NEW v \in Views,
         NEW basis \in {"autonomous", "caller_authority"}, Dispatches(l, c, v, basis),
         UNCHANGED <<index, pending, cancelled, expired>>,
         stop' \in {stop, "none"},
         driver' \in Drivers, driver'.mutations = driver.mutations,
         basis = "autonomous" => phase = "driving",
         basis = "caller_authority" => Paused /\ c = pending.candidate
  PROVE  Inv'
<1>1. TypeOK /\ StepsLeft /\ History
  BY DEF Inv, InStep, InLoop
<1>2. /\ LedgerOK(ledger') /\ permit' \in Permits
      /\ permit'.key.base.candidate = c /\ permit'.basis = basis
      /\ ledger'.stepMutations =
           ledger.stepMutations + (IF c \in Mutating THEN 1 ELSE 0)
  <2> HIDE DEF LedgerOK
  <2>1. QED
    BY <1>1, DispatchCharges
<1>3. History'
  BY <1>1, DispatchKeepsHistory
<1>4. Dispatching' /\ deeds' = deeds
  BY DEF Dispatches, Dispatching
<1>5. pending' \in IF Answered' THEN Pendings ELSE {NoPending}
  <2>1. CASE basis = "autonomous"
    BY <2>1, <1>1, <1>2, <1>4 DEF TypeOK, Answered, Paused, Dispatching, Autonomous
  <2>2. CASE basis = "caller_authority"
    BY <2>2, <1>1, <1>2, <1>4 DEF TypeOK, Answered, Paused, Dispatching, Autonomous
  <2>3. QED
    BY <2>1, <2>2
<1>6. TypeOK'
  <2>1. permit' \in IF Dispatching' THEN Permits ELSE {NoPermit}
    BY <1>2, <1>4
  <2>2. phase' = "dispatching" /\ index' = index /\ cancelled' = cancelled /\ expired' = expired
    BY DEF Dispatches
  <2>3. QED
    BY <2>1, <2>2, <1>1, <1>2, <1>4, <1>5 DEF TypeOK
<1>7. InStep'
  BY <1>1 DEF InStep, StepsLeft
<1>8. ChargesAgree'
  <2>1. CountsAgree'
    BY <1>4 DEF CountsAgree, Dispatching
  <2>2. basis = "autonomous" => driver.mutations = ledger.stepMutations
    BY DEF Inv, ChargesAgree, CountsAgree
  <2>3. Charge' = IF c \in Mutating THEN 1 ELSE 0
    BY <1>2 DEF Charge, Candidate
  <2>4. QED
    BY <2>1, <2>2, <2>3, <1>2 DEF ChargesAgree, Autonomous
<1>9. basis = "caller_authority" => c \notin Scrolls /\ pending'.candidate \notin Scrolls
  BY DEF Inv, NoScrollOffered, Answered
<1>10. NoScrollOffered' /\ CallerNeverScrolls'
  BY <1>2, <1>4, <1>9 DEF NoScrollOffered, CallerNeverScrolls, Answered, Paused,
     Dispatching, Autonomous, Candidate
<1>11. QED
  BY <1>3, <1>6, <1>7, <1>8, <1>10 DEF Inv

-----------------------------------------------------------------------------
(* Every step keeps the invariant.                                          *)

(* The driver's iterations.                                                 *)
LEMMA DriveKeepsInv ==
  ASSUME Inv, DriveNext
  PROVE  Inv'
<1>1. phase = "driving" => InLoop /\ ~Answered /\ driver \in Drivers /\ StepsLeft
                          /\ driver.mutations = ledger.stepMutations
  BY DEF Inv, TypeOK, InLoop, InStep, Answered, Paused, Dispatching, ChargesAgree, CountsAgree
<1>2. /\ SpentFrom(ledger, ledger)
      /\ ModelCallLeft(ledger) => SpentFrom(ledger, Judged)
      /\ (Step.natural => ModelCallLeft(ledger)) => SpentFrom(ledger, AfterDoneCheck)
  BY ChecksSpend
<1>3. "blocked" \in Reasons /\ "budget_exhausted" \in Reasons
      /\ "done_condition_not_met" \in Reasons
  BY DEF Reasons
<1>4. ASSUME phase = "driving", SpentFrom(ledger, ledger'), deeds' = deeds,
             NEW d \in Drivers, d.mutations = driver.mutations, Continue(d)
      PROVE  Inv'
  <2>1. d.mutations = ledger'.stepMutations
    BY <1>1, <1>4 DEF SpentFrom
  <2>2. Leaves
    BY <1>1, <1>4, <2>1 DEF Leaves
  <2>3. QED
    BY <1>1, <1>4, <2>2, SpendingKeepsInv
<1>5. ASSUME phase = "driving", SpentFrom(ledger, ledger'), deeds' = deeds,
             NEW r \in Reasons, End(r)
      PROVE  Inv'
  BY <1>1, <1>5, SpendingKeepsInv DEF Leaves
<1>6. ASSUME phase = "driving", SpentFrom(ledger, ledger'), deeds' = deeds,
             NEW p \in Pendings, p.candidate \notin Scrolls, Escalate(p)
      PROVE  Inv'
  BY <1>1, <1>6, SpendingKeepsInv DEF Leaves
<1>7. /\ \A noul \in BOOLEAN : Plain("unknown", noul) \in Pendings
                               /\ Plain("unknown", noul).candidate \notin Scrolls
      /\ Undone \in Pendings /\ Undone.candidate \notin Scrolls
      /\ \A c \in Candidates \ Scrolls, v \in Views :
           /\ Offer(c, v) \in Pendings /\ Offer(c, v).candidate \notin Scrolls
           /\ Ambiguous(Offer(c, v)) \in Pendings
           /\ Ambiguous(Offer(c, v)).candidate \notin Scrolls
  BY PendingTypes, DriverAssumption DEF Plain, Undone, Offer, Ambiguous, Candidates
<1>8. phase = "driving" =>
        /\ LookAfresh(driver) \in Drivers
        /\ LookAfresh(driver).mutations = driver.mutations
  BY <1>1 DEF Drivers, LookAfresh
<1>9. CASE StopCancelled \/ ObservationFails \/ BudgetRunsOut
  BY <1>2, <1>3, <1>5, <1>9
  DEF StopCancelled, ObservationFails, BudgetRunsOut, Driving
<1>10. CASE ProviderFails
  BY <1>2, <1>3, <1>5, <1>10 DEF ProviderFails, Driving, CanJudge, Judged
<1>11. CASE DoneSatisfied
  BY <1>1, <1>2, <1>11, PassingKeepsInv DEF DoneSatisfied, Driving, CanCheckDone
<1>12. CASE CheckpointFails
  BY <1>2, <1>3, <1>5, <1>12 DEF CheckpointFails, Driving, CanCheckDone
<1>13. CASE DoneUnknown
  <2>1. phase = "driving" /\ SpentFrom(ledger, ledger') /\ deeds' = deeds
    BY <1>2, <1>13 DEF DoneUnknown, Driving, CanCheckDone
  <2>2. CASE driver.doneReobserved
    BY <2>1, <2>2, <1>6, <1>7, <1>13 DEF DoneUnknown, Nouls
  <2>3. CASE ~driver.doneReobserved
    <3> DEFINE d == [driver EXCEPT !.doneReobserved = TRUE]
    <3>1. d \in Drivers /\ d.mutations = driver.mutations
      BY <1>1, <2>1 DEF Drivers
    <3>2. Continue(d)
      BY <2>3, <1>13 DEF DoneUnknown
    <3> HIDE DEF d
    <3>3. QED
      BY <2>1, <3>1, <3>2, <1>4
  <2>4. QED
    BY <2>2, <2>3
<1>14. CASE AfterMutationLimit
  <2>1. phase = "driving" /\ SpentFrom(ledger, ledger') /\ deeds' = deeds
    BY <1>2, <1>14 DEF AfterMutationLimit, Driving, CanCheckDone
  <2>2. CASE driver.awaitingFinal
    BY <2>1, <2>2, <1>3, <1>5, <1>14 DEF AfterMutationLimit
  <2>3. CASE ~driver.awaitingFinal
    <3> DEFINE d == [driver EXCEPT !.awaitingFinal = TRUE]
    <3>1. d \in Drivers /\ d.mutations = driver.mutations
      BY <1>1, <2>1 DEF Drivers
    <3>2. Continue(d)
      BY <2>3, <1>14 DEF AfterMutationLimit
    <3> HIDE DEF d
    <3>3. QED
      BY <2>1, <3>1, <3>2, <1>4
  <2>4. QED
    BY <2>2, <2>3
<1>15. CASE DecisionStops
  BY <1>2, <1>3, <1>5, <1>6, <1>7, <1>15 DEF DecisionStops, Deciding, Driving, CanJudge
<1>16. CASE Wait
  <2>1. phase = "driving" /\ SpentFrom(ledger, Judged) /\ deeds' = deeds
    BY <1>2, <1>16 DEF Wait, Deciding, Driving, CanJudge
  <2>2. CASE WaitLeft(Judged)
    <3>1. SpentFrom(Judged, ChargeWait(Judged))
      BY <2>1, <2>2, WaitSpends DEF SpentFrom
    <3>2. SpentFrom(ledger, ledger') /\ Continue(LookAfresh(driver))
      BY <3>1, <2>1, <2>2, <1>16, SpendingIsTransitive DEF Wait
    <3>3. QED
      BY <2>1, <3>2, <1>4, <1>8
  <2>3. CASE ~WaitLeft(Judged)
    BY <2>1, <2>3, <1>3, <1>5, <1>16 DEF Wait
  <2>4. QED
    BY <2>2, <2>3
<1>17. ASSUME NEW c \in Candidates, AuthorizationFails(c)
       PROVE  Inv'
  BY <1>2, <1>3, <1>5, <1>17 DEF AuthorizationFails, Deciding, Driving, CanJudge
<1>18. ASSUME NEW c \in Candidates, NEW v \in Views, BelowGate(c, v)
       PROVE  Inv'
  <2>1. phase = "driving" /\ SpentFrom(ledger, ledger') /\ deeds' = deeds
    BY <1>2, <1>18 DEF BelowGate, Deciding, Driving, CanJudge
  <2>2. CASE driver.gateReobserved
    <3>1. \/ Escalate(Undone)
          \/ c \notin Scrolls /\ Escalate(Offer(c, v))
      BY <2>2, <1>18 DEF BelowGate
    <3>2. QED
      BY <2>1, <3>1, <1>6, <1>7
  <2>3. CASE ~driver.gateReobserved
    <3> DEFINE d == [driver EXCEPT !.gateReobserved = TRUE]
    <3>1. d \in Drivers /\ d.mutations = driver.mutations
      BY <1>1, <2>1 DEF Drivers
    <3>2. Continue(d)
      BY <2>3, <1>18 DEF BelowGate
    <3> HIDE DEF d
    <3>3. QED
      BY <2>1, <3>1, <3>2, <1>4
  <2>4. QED
    BY <2>2, <2>3
<1>19. ASSUME NEW c \in Candidates, NEW v \in Views, RefuseReplay(c, v)
       PROVE  Inv'
  BY <1>2, <1>6, <1>7, <1>19 DEF RefuseReplay, Deciding, Driving, CanJudge
<1>20. ASSUME NEW c \in Candidates, NEW v \in Views, MintAndDispatch(c, v)
       PROVE  Inv'
  <2>1. phase = "driving" /\ SpentFrom(ledger, Judged)
    BY <1>2, <1>20 DEF MintAndDispatch, Deciding, Driving, CanJudge
  <2>2. Dispatches(Judged, c, v, "autonomous")
    BY <2>1, <1>20 DEF Dispatches, MintAndDispatch, Authorizes
  <2>3. /\ UNCHANGED <<index, pending, cancelled, expired>> /\ stop' = stop
        /\ driver' \in Drivers /\ driver'.mutations = driver.mutations
    BY <2>1, <1>8, <1>20 DEF MintAndDispatch
  <2>4. QED
    BY <2>1, <2>2, <2>3, <1>1, DispatchKeepsInv
<1>21. ASSUME NEW c \in Candidates, NEW v \in Views, StopBeforeMutation(c, v)
       PROVE  Inv'
  <2>1. phase = "driving" /\ SpentFrom(ledger, Judged) /\ deeds' = deeds /\ c \in Mutating
    BY <1>2, <1>21 DEF StopBeforeMutation, Deciding, Driving, CanJudge, ForcedStop
  <2>2. Step.limit \in Nat
    BY <1>1, <2>1, StepIsOne DEF Inv
  <2>3. SpentFrom(Judged, ledger')
    BY <2>1, <2>2, <1>21, UnusedIsRefunded DEF StopBeforeMutation, Authorizes, SpentFrom
  <2>4. SpentFrom(ledger, ledger')
    BY <2>1, <2>3, SpendingIsTransitive
  <2>5. c \notin Scrolls
    BY <2>1, LedgerAssumption DEF Mutating
  <2>6. QED
    BY <2>1, <2>4, <2>5, <1>6, <1>7, <1>21 DEF StopBeforeMutation
<1>22. QED
  BY <1>9, <1>10, <1>11, <1>12, <1>13, <1>14, <1>15, <1>16, <1>17, <1>18, <1>19,
     <1>20, <1>21
  DEF DriveNext

(* The settlement of a dispatch.                                            *)
LEMMA SettleKeepsInv ==
  ASSUME Inv, SettleNext
  PROVE  Inv'
<1>1. /\ Dispatching /\ InLoop /\ TypeOK /\ History
      /\ Autonomous => ~Answered
      /\ ~Autonomous => pending \in Pendings /\ Candidate \notin Scrolls
  BY DEF SettleNext, PermitInvalid, EvidenceUnavailable, EvidenceIncomplete,
     ReadbackMismatch, Observed, NotPerformed, UncertainScroll, Uncertain,
     Dispatching, InLoop, Inv, TypeOK, Answered, Paused, CallerNeverScrolls
<1>2. permit \in Permits /\ permit.key \in Keys /\ driver \in Drivers
  BY <1>1 DEF TypeOK, Permits
<1>3. Autonomous => driver.mutations + Charge = ledger.stepMutations
  BY <1>1 DEF Inv, ChargesAgree
<1>4. LedgerOK(ledger) /\ SpentFrom(ledger, ledger)
  BY ChecksSpend DEF Inv, TypeOK
<1>5. "blocked" \in Reasons /\ "write_readback_mismatch" \in Reasons
      /\ "evidence_incomplete_after_dispatch" \in Reasons
  BY DEF Reasons
<1>6. /\ Undone \in Pendings /\ Undone.candidate \notin Scrolls
      /\ Ambiguous(Undone) \in Pendings /\ Ambiguous(Undone).candidate \notin Scrolls
      /\ ~Autonomous => /\ WithoutCandidate(pending) \in Pendings
                        /\ WithoutCandidate(pending).candidate \notin Scrolls
  BY <1>1, PendingTypes, DriverAssumption
  DEF Plain, Undone, Ambiguous, WithoutCandidate, Pendings, Candidates
<1>7. \A outcome \in {"observed", "uncertain"} : Deed(outcome) \in Deeds
  BY <1>1, <1>2 DEF Deed, Deeds, TypeOK, Ledgers, Permits
<1>8. ASSUME NEW outcome \in {"observed", "uncertain"}, Happened(outcome),
             LedgerOK(ledger'), Leaves
      PROVE  Inv'
  <2>1. ~Dispatching'
    BY <1>8 DEF Leaves, End, Escalate, Continue, Resume, Dispatching
  <2>2. History'
    BY <1>1, <1>8, <2>1, HappenedKeepsHistory
  <2>3. LedgerStep
    BY <1>1, <1>7, <1>8 DEF LedgerStep, Happened, TypeOK
  <2>4. QED
    BY <1>1, <1>8, <2>2, <2>3, LeavingKeepsInv
<1>9. ASSUME NEW outcome \in {"observed", "uncertain"},
             ledger' = ledger, deeds' = Witnessed(outcome)
      PROVE  Happened(outcome)
  BY <1>9 DEF Happened, Witnessed, Ordinal
<1>10. CASE PermitInvalid
  <2>1. Leaves
    BY <1>6, <1>10 DEF PermitInvalid, Leaves
  <2>2. QED
    BY <2>1, <1>1, <1>4, <1>10, SpendingKeepsInv DEF PermitInvalid
<1>11. CASE EvidenceUnavailable
  <2>1. Leaves
    BY <1>5, <1>11 DEF EvidenceUnavailable, Leaves
  <2>2. QED
    BY <2>1, <1>1, <1>4, <1>11, SpendingKeepsInv DEF EvidenceUnavailable
<1>12. CASE EvidenceIncomplete
  <2>1. Leaves /\ ledger' = ledger
    BY <1>5, <1>12 DEF EvidenceIncomplete, Leaves
  <2>2. CASE deeds' = Witnessed("not_performed")
    BY <2>1, <2>2, <1>1, <1>4, SpendingKeepsInv DEF Witnessed
  <2>3. CASE deeds' = Witnessed("observed")
    BY <2>1, <2>3, <1>4, <1>8, <1>9
  <2>4. CASE deeds' = Witnessed("uncertain")
    BY <2>1, <2>4, <1>4, <1>8, <1>9
  <2>5. QED
    BY <2>2, <2>3, <2>4, <1>12 DEF EvidenceIncomplete
<1>13. CASE ReadbackMismatch
  <2>1. Leaves /\ ledger' = ledger /\ deeds' = Witnessed("observed")
    BY <1>5, <1>13 DEF ReadbackMismatch, Leaves
  <2>2. QED
    BY <2>1, <1>4, <1>8, <1>9
<1>14. CASE Observed
  <2>1. /\ LedgerOK(ledger') /\ ledger'.replay = ledger.replay
        /\ ledger'.unsettled = ledger.unsettled \ {permit.key}
        /\ ledger'.attempts = ledger.attempts /\ ledger'.actions = ledger.actions
        /\ ledger'.step = ledger.step /\ ledger'.stepMutations = ledger.stepMutations
    BY <1>4, <1>14, ObservedKeeps DEF Observed
  <2>2. Happened("observed")
    BY <2>1, <1>14 DEF Observed, Happened, Witnessed, Ordinal
  <2>3. CASE Autonomous
    <3> DEFINE d == [driver EXCEPT !.awaitingFinal = FALSE,
                       !.mutations = IF Candidate \in Mutating THEN @ + 1 ELSE @]
    <3>1. d \in Drivers /\ d.mutations = driver.mutations + Charge
      <4>1. driver.mutations \in Nat
        BY <1>2 DEF Drivers
      <4> DEFINE n == IF Candidate \in Mutating THEN driver.mutations + 1 ELSE driver.mutations
      <4>2. n \in Nat /\ n = driver.mutations + Charge
        BY <4>1 DEF Charge
      <4>3. d = [driver EXCEPT !.awaitingFinal = FALSE, !.mutations = n]
        OBVIOUS
      <4> HIDE DEF d, n
      <4>4. QED
        BY <1>2, <4>2, <4>3 DEF Drivers
    <3>2. Continue(d)
      BY <2>3, <1>14 DEF Observed
    <3> HIDE DEF d
    <3>3. Leaves
      BY <1>1, <1>3, <2>1, <2>3, <3>1, <3>2 DEF Leaves
    <3>4. QED
      BY <2>1, <2>2, <3>3, <1>8
  <2>4. CASE ~Autonomous
    BY <2>1, <2>2, <2>4, <1>8, <1>14 DEF Leaves, Observed
  <2>5. QED
    BY <2>3, <2>4
<1>15. CASE NotPerformed
  <2>1. permit.key \in ledger.replay
    BY <1>1 DEF History, KeysHeld
  <2>2. /\ LedgerOK(ledger')
        /\ ledger'.stepMutations = IF Candidate \in Mutating THEN OneLess(ledger.stepMutations)
                                                             ELSE ledger.stepMutations
    BY <1>4, <1>15, <2>1, ReleaseKeeps DEF NotPerformed, Candidate
  <2>3. deeds' = deeds
    BY <1>15 DEF NotPerformed, Witnessed
  <2>4. Autonomous => driver.mutations = ledger'.stepMutations
    BY <1>2, <1>3, <2>2 DEF Charge, OneLess, Drivers
  <2>5. Leaves
    BY <1>1, <1>2, <1>6, <1>15, <2>4 DEF Leaves, NotPerformed, Settle
  <2>6. ~Dispatching'
    BY <2>5 DEF Leaves, End, Escalate, Continue, Resume, Dispatching
  <2>7. History'
    BY <1>1, <1>15, <2>3, <2>6, ReleaseKeepsHistory DEF NotPerformed
  <2>8. LedgerStep
    BY <1>1, <2>2, <2>3 DEF LedgerStep, TypeOK
  <2>9. QED
    BY <1>1, <2>5, <2>7, <2>8, LeavingKeepsInv
<1>16. CASE UncertainScroll
  <2>1. Candidate \in Scrolls /\ Autonomous
    BY <1>16 DEF UncertainScroll
  <2>2. /\ LedgerOK(ledger')
        /\ ledger'.replay = ledger.replay /\ ledger'.unsettled = ledger.unsettled
        /\ ledger'.actions = ledger.actions /\ ledger'.step = ledger.step
        /\ ledger'.stepMutations = ledger.stepMutations
        /\ \A b \in Bases : Ordinal(ledger', b) =
             IF b = permit.key.base THEN Ordinal(ledger, b) + 1 ELSE Ordinal(ledger, b)
    BY <1>2, <1>4, <1>16, <2>1, UncertainScrollKeeps DEF UncertainScroll, Candidate
  <2>3. Happened("uncertain")
    BY <1>16, <2>2 DEF UncertainScroll, Happened, Witnessed
  <2>4. Charge = 0
    BY <2>1, LedgerAssumption DEF Charge, Mutating
  <2>5. driver.mutations = ledger'.stepMutations
    BY <1>2, <1>3, <2>1, <2>2, <2>4 DEF Drivers
  <2>6. Leaves
    BY <1>1, <1>2, <1>16, <2>1, <2>5 DEF UncertainScroll, Leaves
  <2>7. QED
    BY <2>2, <2>3, <2>6, <1>8
<1>17. CASE Uncertain
  <2>1. Leaves /\ ledger' = ledger /\ deeds' = Witnessed("uncertain")
    BY <1>6, <1>17 DEF Uncertain, Leaves
  <2>2. QED
    BY <2>1, <1>4, <1>8, <1>9
<1>18. QED
  BY <1>10, <1>11, <1>12, <1>13, <1>14, <1>15, <1>16, <1>17 DEF SettleNext

(* The dispositions.                                                        *)
LEMMA DispositionKeepsInv ==
  ASSUME Inv, DispositionNext
  PROVE  Inv'
<1>1. /\ Paused /\ InLoop /\ TypeOK /\ StepsLeft
      /\ pending \in Pendings /\ pending.candidate \notin Scrolls
  BY DEF DispositionNext, Abort, RetryObservation, Advance, DispositionStops,
     ResumeCheckStops, ResumeSatisfied, ResumeUnknown, ExecuteRunsOut,
     CandidateRefused, ExecuteCandidate, CallerAuthorizes, Executing,
     Paused, InLoop, Inv, InStep, TypeOK, Answered, NoScrollOffered
<1>2. /\ SpentFrom(ledger, ledger)
      /\ ModelCallLeft(ledger) => SpentFrom(ledger, RecordModelCall(ledger))
      /\ CanResumeCheck => /\ SpentFrom(ledger, AfterDoneCheck)
                           /\ AfterDoneCheck.fallbacks = ledger.fallbacks
  BY ChecksSpend DEF CanResumeCheck, CanJudge, Judged
<1>3. "blocked" \in Reasons /\ "budget_exhausted" \in Reasons /\ "aborted" \in Reasons
  BY DEF Reasons
<1>4. /\ \A noul \in BOOLEAN : Plain("unknown", noul) \in Pendings
                               /\ Plain("unknown", noul).candidate \notin Scrolls
      /\ WithoutCandidate(pending) \in Pendings
      /\ WithoutCandidate(pending).candidate \notin Scrolls
  BY <1>1, PendingTypes, DriverAssumption
  DEF Plain, WithoutCandidate, Pendings, Candidates
<1>5. CASE Abort
  BY <1>1, <1>2, <1>3, <1>5, SpendingKeepsInv DEF Abort, Leaves
<1>6. CASE RetryObservation
  BY <1>1, <1>2, <1>6, SpendingKeepsInv DEF RetryObservation, Leaves
<1>7. CASE Advance
  BY <1>1, <1>2, <1>7, PassingKeepsInv DEF Advance
<1>8. CASE DispositionStops
  BY <1>1, <1>2, <1>3, <1>8, SpendingKeepsInv DEF DispositionStops, Leaves
<1>9. CASE ResumeCheckStops
  BY <1>1, <1>2, <1>3, <1>9, SpendingKeepsInv DEF ResumeCheckStops, CanJudge, Leaves
<1>10. CASE ResumeSatisfied
  BY <1>1, <1>2, <1>10, PassingKeepsInv DEF ResumeSatisfied
<1>11. CASE ResumeUnknown
  BY <1>1, <1>2, <1>4, <1>11, SpendingKeepsInv DEF ResumeUnknown, Nouls, Leaves
<1>12. CASE ExecuteRunsOut
  BY <1>1, <1>2, <1>3, <1>12, SpendingKeepsInv DEF ExecuteRunsOut, Leaves
<1>13. CASE CandidateRefused
  BY <1>1, <1>2, <1>4, <1>13, SpendingKeepsInv DEF CandidateRefused, CallerAuthorizes, Leaves
<1>14. ASSUME NEW v \in Views, ExecuteCandidate(v)
       PROVE  Inv'
  <2> DEFINE c == pending.candidate
  <2>1. c \in Candidates /\ CanResumeCheck
        /\ ContextLeft(ledger, Step.limit) /\ FallbackLeft(ledger, c)
    BY <1>1, <1>14 DEF ExecuteCandidate, CallerAuthorizes, Executing, Pendings
  <2>2. /\ SpentFrom(ledger, AfterDoneCheck)
        /\ ContextLeft(AfterDoneCheck, Step.limit) /\ FallbackLeft(AfterDoneCheck, c)
    BY <1>2, <2>1 DEF SpentFrom, ContextLeft, FallbackLeft
  <2>3. Dispatches(AfterDoneCheck, c, v, "caller_authority")
    BY <1>14, <2>2 DEF ExecuteCandidate, Dispatches
  <2>4. /\ UNCHANGED <<index, pending, cancelled, expired>> /\ stop' = "none"
        /\ driver' \in Drivers /\ driver'.mutations = driver.mutations
    BY <1>1, <1>14 DEF ExecuteCandidate, TypeOK
  <2>5. QED
    BY <1>1, <2>1, <2>3, <2>4, DispatchKeepsInv
<1>15. QED
  BY <1>5, <1>6, <1>7, <1>8, <1>9, <1>10, <1>11, <1>12, <1>13, <1>14 DEF DispositionNext

(* A new run.                                                               *)
LEMMA InitIsInv == Init => Inv
<1> SUFFICES ASSUME Init PROVE Inv
  OBVIOUS
<1>1. ledger = NewLedger /\ LedgerOK(ledger) /\ driver = NewDriver(ledger)
  BY NewLedgerOK DEF Init
<1>2. Len(Steps) \in Nat /\ Len(Steps) > 0
  BY DriverAssumption
<1>3. ~Dispatching /\ ~Answered /\ deeds = {} /\ ledger.replay = {}
  BY <1>1 DEF Init, Dispatching, Answered, Paused, NewLedger
<1>4. TypeOK /\ driver.mutations = ledger.stepMutations
  <2>1. driver \in Drivers /\ driver.mutations = ledger.stepMutations
    BY <1>1, NewDriverType
  <2>2. index \in 1..(Len(Steps) + 1)
    BY <1>2 DEF Init
  <2>3. QED
    BY <1>1, <1>3, <2>1, <2>2 DEF Init, TypeOK
<1>5. History
  BY <1>3 DEF History, KeysHeld, OrdinalsGrow, PressesHeld, NeverRepeated,
     UncertainPressIsLast
<1>6. InStep
  BY <1>2 DEF Init, InStep, StepsLeft
<1>7. QED
  BY <1>3, <1>4, <1>5, <1>6
  DEF Inv, ChargesAgree, CountsAgree, NoScrollOffered, CallerNeverScrolls

(* The invariant is inductive: every step of the driver, of a settlement or *)
(* of a disposition keeps it, and the clock and a termination do.           *)
LEMMA NextKeepsInv == Inv /\ [Next]_vars => Inv'
<1> SUFFICES ASSUME Inv, [Next]_vars PROVE Inv'
  OBVIOUS
<1>1. CASE DriveNext
  BY <1>1, DriveKeepsInv
<1>2. CASE SettleNext
  BY <1>2, SettleKeepsInv
<1>3. CASE DispositionNext
  BY <1>3, DispositionKeepsInv
<1> DEFINE rest == <<ledger, index, phase, driver, permit, pending, deeds>>
<1>4. ASSUME UNCHANGED rest, stop' = stop, cancelled' \in BOOLEAN, expired' \in BOOLEAN
      PROVE  Inv'
  <2>1. UNCHANGED <<Dispatching, Answered, Autonomous, Candidate, StepsLeft>>
    BY <1>4 DEF Dispatching, Answered, Paused, Autonomous, Candidate, StepsLeft
  <2>2. TypeOK'
    BY <1>4, <2>1 DEF Inv, TypeOK
  <2>3. InStep' /\ NoScrollOffered' /\ CallerNeverScrolls'
    BY <1>4, <2>1 DEF Inv, InStep, NoScrollOffered, CallerNeverScrolls
  <2>4. ChargesAgree'
    BY <1>4, <2>1 DEF Inv, ChargesAgree, CountsAgree, Charge
  <2>5. KeysHeld' /\ OrdinalsGrow' /\ PressesHeld'
    BY <1>4, <2>1 DEF Inv, History, KeysHeld, OrdinalsGrow, PressesHeld, IsPress, Ordinal
  <2>6. NeverRepeated' /\ UncertainPressIsLast'
    BY <1>4 DEF Inv, History, NeverRepeated, UncertainPressIsLast, IsPress
  <2>7. QED
    BY <2>2, <2>3, <2>4, <2>5, <2>6 DEF Inv, History
<1>5. CASE Cancel
  BY <1>4, <1>5 DEF Cancel, Inv, TypeOK
<1>6. CASE Expire
  BY <1>4, <1>6 DEF Expire, Inv, TypeOK
<1>7. CASE Finished \/ UNCHANGED vars
  BY <1>4, <1>7 DEF Finished, vars, Inv, TypeOK
<1>8. QED
  BY <1>1, <1>2, <1>3, <1>5, <1>6, <1>7 DEF Next

(* The inductive invariant holds of every run.                              *)
THEOREM DriverInvariant == Spec => []Inv
BY InitIsInv, NextKeepsInv, PTL DEF Spec

(* Every variable has its type and the ledger stays within its budgets,     *)
(* for every job, however it is paused and resumed.                         *)
THEOREM DriverTypeCorrect == Spec => []TypeOK
<1>1. Inv => TypeOK
  BY DEF Inv
<1>2. QED
  BY <1>1, DriverInvariant, PTL

(* No operation is repeated blindly: an input or a press, once it happened  *)
(* or may have happened, does not happen again under the same replay key,   *)
(* and a scroll only while its attempts are uncertain.                      *)
THEOREM NothingIsRepeated == Spec => []NeverRepeated
<1>1. Inv => NeverRepeated
  BY DEF Inv, History
<1>2. QED
  BY <1>1, DriverInvariant, PTL

(* A press with an unknown outcome is the last of its key on its focus in   *)
(* its step, whether the driver or a caller authorizes what follows.        *)
THEOREM NoPressAfterAnUncertainOne == Spec => []UncertainPressIsLast
<1>1. Inv => UncertainPressIsLast
  BY DEF Inv, History
<1>2. QED
  BY <1>1, DriverInvariant, PTL

(* The driver's count of a step's mutations and the ledger's agree whenever *)
(* the driver takes a decision, also after a pause or a refused action.     *)
THEOREM MutationCountsAgree == Spec => []CountsAgree
<1>1. Inv => CountsAgree
  BY DEF Inv, ChargesAgree
<1>2. QED
  BY <1>1, DriverInvariant, PTL

(* No caller ever dispatches a scroll.                                      *)
THEOREM ScrollsAreTheDrivers == Spec => []CallerNeverScrolls
<1>1. Inv => CallerNeverScrolls
  BY DEF Inv
<1>2. QED
  BY <1>1, DriverInvariant, PTL

-----------------------------------------------------------------------------
(* A run makes no more actions, and a step no more mutations, than its job  *)
(* allows, for every job and budget: what the ledger was charged for covers *)
(* what is in the history.                                                  *)


(* The deed that may come of the permit that is performed.                  *)
OnItsWay == IF Dispatching THEN 1 ELSE 0
MutationOnItsWay == IF Dispatching THEN Charge ELSE 0

(* The ledger is charged for every action before it is made, and the charge *)
(* is kept unless the browser proves that nothing was done.                 *)
ActionsCharged ==
  IsFiniteSet(deeds) /\ Cardinality(deeds) + OnItsWay <= ledger.actions

MutationsCharged ==
  /\ InLoop => /\ ledger.step = index
               /\ Cardinality(Mutations(index)) + MutationOnItsWay <= ledger.stepMutations
               /\ ledger.stepMutations <= Step.limit
  /\ \A s \in 1..Len(Steps) : Cardinality(Mutations(s)) <= Steps[s].limit

BudgetInv == ActionsCharged /\ MutationsCharged

-----------------------------------------------------------------------------
(* What a step of the run is to its budget.                                 *)
Stays == index' = index /\ phase' # "dispatching"
Spends == InLoop /\ ~Dispatching /\ SpentFrom(ledger, ledger') /\ deeds' = deeds /\ Stays
Passes == InLoop /\ ~Dispatching /\ \E l : SpentFrom(ledger, l) /\ PassStep(l)
Mints ==
  /\ InLoop /\ ~Dispatching /\ index' = index
  /\ \E c \in Candidates, v \in Views, basis \in {"autonomous", "caller_authority"} :
       \E l : Dispatches(l, c, v, basis)
Settles ==
  /\ Dispatching /\ Stays /\ LedgerOK(ledger')
  /\ ledger'.actions = ledger.actions /\ ledger'.step = ledger.step
  /\ \/ /\ deeds' = deeds
        /\ ledger'.stepMutations \in
             {ledger.stepMutations, IF Charge = 1 THEN OneLess(ledger.stepMutations)
                                                  ELSE ledger.stepMutations}
     \/ /\ \E outcome : deeds' = deeds \cup {Deed(outcome)}
        /\ ledger'.stepMutations = ledger.stepMutations
Idles == UNCHANGED <<ledger, index, phase, permit, deeds>>

(* An iteration of the driver spends, passes its step or dispatches.        *)
LEMMA DriveForms == ASSUME Inv, DriveNext PROVE Spends \/ Passes \/ Mints
<1>1. phase = "driving"
  BY DEF DriveNext, StopCancelled, ObservationFails, BudgetRunsOut, ProviderFails, DoneSatisfied,
     CheckpointFails, DoneUnknown, AfterMutationLimit, DecisionStops, Wait, AuthorizationFails,
     BelowGate, RefuseReplay, MintAndDispatch, StopBeforeMutation, Deciding, Driving
<1>2. InLoop /\ ~Dispatching /\ TypeOK /\ StepsLeft
  BY <1>1 DEF InLoop, Dispatching, Inv, InStep
<1>3. /\ SpentFrom(ledger, ledger)
      /\ ModelCallLeft(ledger) => SpentFrom(ledger, Judged)
      /\ (Step.natural => ModelCallLeft(ledger)) => SpentFrom(ledger, AfterDoneCheck)
  BY ChecksSpend
<1>4. /\ \A r : End(r) => Stays
      /\ \A p : Escalate(p) => Stays
      /\ \A d : Continue(d) => Stays
  BY DEF End, Escalate, Continue, Stays
<1>5. CASE StopCancelled \/ ObservationFails \/ BudgetRunsOut
  BY <1>2, <1>3, <1>4, <1>5 DEF StopCancelled, ObservationFails, BudgetRunsOut, Spends
<1>6. CASE ProviderFails
  BY <1>2, <1>3, <1>4, <1>6 DEF ProviderFails, CanJudge, Judged, Spends
<1>7. CASE DoneSatisfied
  BY <1>2, <1>3, <1>7 DEF DoneSatisfied, CanCheckDone, Passes
<1>8. CASE CheckpointFails \/ DoneUnknown \/ AfterMutationLimit
  BY <1>2, <1>3, <1>4, <1>8 DEF CheckpointFails, DoneUnknown, AfterMutationLimit, CanCheckDone, Spends
<1>9. CASE DecisionStops
  BY <1>2, <1>3, <1>4, <1>9 DEF DecisionStops, Deciding, CanJudge, Spends
<1>10. CASE Wait
  <2>1. SpentFrom(ledger, Judged) /\ deeds' = deeds
    BY <1>3, <1>10 DEF Wait, Deciding, CanJudge
  <2>2. SpentFrom(ledger, ledger') /\ Stays
    <3>1. CASE WaitLeft(Judged)
      <4>1. SpentFrom(Judged, ChargeWait(Judged))
        BY <2>1, <3>1, WaitSpends DEF SpentFrom
      <4> QED
        BY <1>4, <1>10, <2>1, <3>1, <4>1, SpendingIsTransitive DEF Wait
    <3>2. CASE ~WaitLeft(Judged)
      BY <1>4, <1>10, <2>1, <3>2 DEF Wait
    <3> QED
      BY <3>1, <3>2
  <2> QED
    BY <1>2, <2>1, <2>2 DEF Spends
<1>11. ASSUME NEW c \in Candidates, AuthorizationFails(c) PROVE Spends
  BY <1>2, <1>3, <1>4, <1>11 DEF AuthorizationFails, Deciding, CanJudge, Spends
<1>12. ASSUME NEW c \in Candidates, NEW v \in Views, BelowGate(c, v) \/ RefuseReplay(c, v)
       PROVE  Spends
  BY <1>2, <1>3, <1>4, <1>12 DEF BelowGate, RefuseReplay, Deciding, CanJudge, Spends
<1>13. ASSUME NEW c \in Candidates, NEW v \in Views, MintAndDispatch(c, v) PROVE Mints
  <2>1. Dispatches(Judged, c, v, "autonomous")
    BY <1>3, <1>13 DEF MintAndDispatch, Deciding, CanJudge, Dispatches, Authorizes
  <2> QED
    BY <1>2, <1>13, <2>1 DEF MintAndDispatch, Mints
<1>14. ASSUME NEW c \in Candidates, NEW v \in Views, StopBeforeMutation(c, v) PROVE Spends
  <2>1. SpentFrom(ledger, Judged) /\ deeds' = deeds /\ c \in Mutating
    BY <1>3, <1>14 DEF StopBeforeMutation, Deciding, CanJudge, ForcedStop
  <2>2. Step.limit \in Nat
    BY <1>2, StepIsOne
  <2>3. SpentFrom(Judged, ledger')
    BY <2>1, <2>2, <1>14, UnusedIsRefunded DEF StopBeforeMutation, Authorizes, SpentFrom
  <2>4. SpentFrom(ledger, ledger')
    BY <2>1, <2>3, SpendingIsTransitive
  <2> QED
    BY <1>2, <1>4, <1>14, <2>1, <2>4 DEF StopBeforeMutation, Spends
<1> QED
  BY <1>5, <1>6, <1>7, <1>8, <1>9, <1>10, <1>11, <1>12, <1>13, <1>14 DEF DriveNext

(* A settlement ends the dispatch, with a deed or without.                  *)
LEMMA SettleForms == ASSUME Inv, SettleNext PROVE Settles
<1>1. Dispatching /\ TypeOK /\ LedgerOK(ledger)
  BY DEF SettleNext, PermitInvalid, EvidenceUnavailable, EvidenceIncomplete, ReadbackMismatch,
     Observed, NotPerformed, UncertainScroll, Uncertain, Inv, TypeOK
<1>2. /\ \A r : End(r) => Stays
      /\ \A p : Escalate(p) => Stays
      /\ \A d : Continue(d) => Stays
      /\ Resume => Stays
  BY DEF End, Escalate, Continue, Resume, Stays
<1>3. CASE PermitInvalid \/ EvidenceUnavailable
  BY <1>1, <1>2, <1>3 DEF PermitInvalid, EvidenceUnavailable, Settles
<1>4. CASE EvidenceIncomplete \/ ReadbackMismatch \/ Uncertain
  <2>1. Stays /\ ledger' = ledger /\ \E outcome : deeds' = Witnessed(outcome)
    BY <1>2, <1>4 DEF EvidenceIncomplete, ReadbackMismatch, Uncertain
  <2>2. deeds' = deeds \/ \E outcome : deeds' = deeds \cup {Deed(outcome)}
    BY <2>1 DEF Witnessed
  <2> QED
    BY <1>1, <2>1, <2>2 DEF Settles
<1>5. CASE Observed
  <2>1. Stays /\ deeds' = deeds \cup {Deed("observed")}
    BY <1>2, <1>5 DEF Observed, Witnessed
  <2>2. /\ LedgerOK(ledger') /\ ledger'.actions = ledger.actions /\ ledger'.step = ledger.step
        /\ ledger'.stepMutations = ledger.stepMutations
    BY <1>1, <1>5, ObservedKeeps DEF Observed
  <2> QED
    BY <1>1, <2>1, <2>2 DEF Settles
<1>6. CASE NotPerformed
  <2>1. Stays /\ deeds' = deeds
    BY <1>2, <1>6 DEF NotPerformed, Witnessed, Settle
  <2>2. permit.key \in ledger.replay
    BY <1>1 DEF Inv, History, KeysHeld
  <2>3. /\ LedgerOK(ledger') /\ ledger'.actions = ledger.actions /\ ledger'.step = ledger.step
        /\ ledger'.stepMutations = IF Candidate \in Mutating THEN OneLess(ledger.stepMutations)
                                                             ELSE ledger.stepMutations
    BY <1>1, <1>6, <2>2, ReleaseKeeps DEF NotPerformed, Candidate
  <2> QED
    BY <1>1, <2>1, <2>3 DEF Settles, Charge
<1>7. CASE UncertainScroll
  <2>1. Stays /\ deeds' = deeds \cup {Deed("uncertain")}
    BY <1>2, <1>7 DEF UncertainScroll, Witnessed
  <2>2. permit.key \in Keys /\ permit.key.base.candidate \in Scrolls
    BY <1>1, <1>7 DEF UncertainScroll, Candidate, TypeOK, Permits
  <2>3. /\ LedgerOK(ledger') /\ ledger'.actions = ledger.actions /\ ledger'.step = ledger.step
        /\ ledger'.stepMutations = ledger.stepMutations
    BY <1>1, <1>7, <2>2, UncertainScrollKeeps DEF UncertainScroll
  <2> QED
    BY <1>1, <2>1, <2>3 DEF Settles
<1> QED
  BY <1>3, <1>4, <1>5, <1>6, <1>7 DEF SettleNext

(* So does a disposition, like the driver.                                  *)
LEMMA DispositionForms == ASSUME Inv, DispositionNext PROVE Spends \/ Passes \/ Mints
<1>1. phase = "paused" /\ pending \in Pendings
  BY DEF DispositionNext, Abort, RetryObservation, Advance, DispositionStops,
     ResumeCheckStops, ResumeSatisfied, ResumeUnknown, ExecuteRunsOut,
     CandidateRefused, ExecuteCandidate, CallerAuthorizes, Executing,
     Paused, Inv, TypeOK, Answered
<1>2. InLoop /\ ~Dispatching
  BY <1>1 DEF InLoop, Dispatching
<1>3. /\ SpentFrom(ledger, ledger)
      /\ ModelCallLeft(ledger) => SpentFrom(ledger, RecordModelCall(ledger))
      /\ CanResumeCheck => /\ SpentFrom(ledger, AfterDoneCheck)
                           /\ AfterDoneCheck.fallbacks = ledger.fallbacks
  BY ChecksSpend DEF CanResumeCheck, CanJudge, Judged
<1>4. /\ \A r : End(r) => Stays
      /\ \A p : Escalate(p) => Stays
      /\ Resume => Stays
  BY DEF End, Escalate, Resume, Stays
<1>5. CASE Abort \/ RetryObservation \/ DispositionStops
  BY <1>2, <1>3, <1>4, <1>5 DEF Abort, RetryObservation, DispositionStops, Spends
<1>6. CASE Advance
  BY <1>2, <1>3, <1>6 DEF Advance, Passes
<1>7. CASE ResumeCheckStops
  BY <1>2, <1>3, <1>4, <1>7 DEF ResumeCheckStops, CanJudge, Spends
<1>8. CASE ResumeSatisfied
  BY <1>2, <1>3, <1>8 DEF ResumeSatisfied, Passes
<1>9. CASE ResumeUnknown \/ ExecuteRunsOut \/ CandidateRefused
  BY <1>2, <1>3, <1>4, <1>9
  DEF ResumeUnknown, ExecuteRunsOut, CandidateRefused, CallerAuthorizes, Spends
<1>10. ASSUME NEW v \in Views, ExecuteCandidate(v) PROVE Mints
  <2> DEFINE c == pending.candidate
  <2>1. c \in Candidates /\ CanResumeCheck
        /\ ContextLeft(ledger, Step.limit) /\ FallbackLeft(ledger, c)
    BY <1>1, <1>10 DEF ExecuteCandidate, CallerAuthorizes, Executing, Pendings
  <2>2. /\ SpentFrom(ledger, AfterDoneCheck)
        /\ ContextLeft(AfterDoneCheck, Step.limit) /\ FallbackLeft(AfterDoneCheck, c)
    BY <1>3, <2>1 DEF SpentFrom, ContextLeft, FallbackLeft
  <2>3. Dispatches(AfterDoneCheck, c, v, "caller_authority")
    BY <1>10, <2>2 DEF ExecuteCandidate, Dispatches
  <2> QED
    BY <1>2, <1>10, <2>1, <2>3 DEF ExecuteCandidate, Mints
<1> QED
  BY <1>5, <1>6, <1>7, <1>8, <1>9, <1>10 DEF DispositionNext

-----------------------------------------------------------------------------
(* How each form keeps the budgets.                                         *)

(* A deed more is one more at most.                                         *)
LEMMA OneMore ==
  ASSUME NEW S, IsFiniteSet(S), NEW x
  PROVE  /\ IsFiniteSet(S \cup {x}) /\ Cardinality(S) \in Nat /\ Cardinality(S \cup {x}) \in Nat
         /\ Cardinality(S \cup {x}) <= Cardinality(S) + 1
BY FS_AddElement, FS_CardinalityType

(* The mutations of a step are some of the deeds.                           *)
LEMMA MutationsAreFinite ==
  ASSUME IsFiniteSet(deeds)
  PROVE  \A s : IsFiniteSet(Mutations(s)) /\ Cardinality(Mutations(s)) \in Nat
BY FS_Subset, FS_CardinalityType DEF Mutations

(* A step's limit is a number.                                              *)
LEMMA LimitsAreNumbers == \A s \in 1..Len(Steps) : Steps[s].limit \in Nat
<1> DEFINE JobSteps == [natural : BOOLEAN, forced : BOOLEAN, limit : Nat]
<1>1. Steps \in Seq(JobSteps)
  BY DriverAssumption
<1>2. \A s \in 1..Len(Steps) : Steps[s] \in JobSteps
  <2> HIDE DEF JobSteps
  <2> QED
    BY <1>1, ElementOfSeq
<1> QED
  BY <1>2

(* Where nothing is dispatched, and no deed is made, nothing is charged.    *)
LEMMA SpendingKeepsBudget == ASSUME Inv, BudgetInv, Spends PROVE BudgetInv'
<1>1. /\ ~Dispatching' /\ Step' = Step /\ InLoop
      /\ ledger'.actions = ledger.actions /\ ledger'.step = ledger.step
      /\ ledger'.stepMutations = ledger.stepMutations
  BY DEF Spends, Stays, SpentFrom, Dispatching, Step
<1>2. \A s : Mutations(s)' = Mutations(s)
  BY DEF Spends, Mutations
<1>3. OnItsWay' = OnItsWay /\ MutationOnItsWay' = MutationOnItsWay
  BY <1>1 DEF OnItsWay, MutationOnItsWay, Spends
<1>4. ActionsCharged'
  BY <1>1, <1>3 DEF BudgetInv, ActionsCharged, Spends
<1>5. MutationsCharged'
  BY <1>1, <1>2, <1>3 DEF BudgetInv, MutationsCharged, Spends, Stays
<1> QED
  BY <1>4, <1>5 DEF BudgetInv

(* The next step has made nothing yet.                                      *)
LEMMA PassingKeepsBudget == ASSUME Inv, BudgetInv, Passes PROVE BudgetInv'
<1>1. PICK l : SpentFrom(ledger, l) /\ PassStep(l)
  BY DEF Passes
<1>2. /\ TypeOK /\ StepsLeft /\ LedgerOK(ledger) /\ LedgerOK(l)
      /\ l.actions = ledger.actions /\ l.step = ledger.step
  BY <1>1 DEF Passes, Inv, InStep, InLoop, TypeOK, SpentFrom
<1>3. /\ deeds' = deeds /\ index' = index + 1 /\ ~Dispatching' /\ ~Dispatching
  BY <1>1 DEF PassStep, Dispatching, Passes
<1>4. ledger'.actions = ledger.actions
  BY <1>1, <1>2, BeginStepKeeps DEF PassStep
<1>5. ActionsCharged'
  BY <1>3, <1>4 DEF BudgetInv, ActionsCharged, OnItsWay
<1>6. \A s : Mutations(s)' = Mutations(s)
  BY <1>3 DEF Mutations
<1>7. ASSUME InLoop'
      PROVE  /\ ledger'.step = index'
             /\ (Cardinality(Mutations(index)) + MutationOnItsWay <= ledger.stepMutations)'
             /\ (ledger.stepMutations <= Step.limit)'
  <2>1. index # Len(Steps) /\ ledger' = BeginStep(l)
    BY <1>1, <1>7 DEF PassStep, InLoop
  <2>2. ledger'.stepMutations = 0 /\ ledger'.step = ledger.step + 1 /\ ledger.step = index
    BY <1>2, <2>1 DEF BeginStep, Ledgers, BudgetInv, MutationsCharged, Passes
  <2>3. Mutations(index + 1) = {}
    <3>1. \A d \in deeds : d.step \in Nat /\ d.step <= ledger.step
      BY <1>2 DEF TypeOK, Deeds, Inv, History, PressesHeld
    <3>2. index \in Nat
      BY <1>2, StepIsOne
    <3> QED
      BY <2>2, <3>1, <3>2 DEF Mutations
  <2>4. (Mutations(index))' = {}
    BY <1>3, <2>3 DEF Mutations
  <2>5. (Step.limit \in Nat)'
    <3>1. index + 1 \in 1..Len(Steps)
      BY <1>2, <2>1, StepIsOne
    <3> QED
      BY <1>3, <3>1, LimitsAreNumbers DEF Step
  <2>6. (MutationOnItsWay = 0)'
    BY <1>3 DEF MutationOnItsWay
  <2> QED
    BY <1>3, <2>2, <2>4, <2>5, <2>6, FS_EmptySet
<1>8. MutationsCharged'
  BY <1>6, <1>7 DEF BudgetInv, MutationsCharged
<1> QED
  BY <1>5, <1>8 DEF BudgetInv

(* A permit is charged when it is minted, within what the budgets leave.    *)
LEMMA MintingKeepsBudget == ASSUME Inv, BudgetInv, Mints PROVE BudgetInv'
<1>1. PICK c \in Candidates, v \in Views, basis \in {"autonomous", "caller_authority"} :
        \E l : Dispatches(l, c, v, basis)
  BY DEF Mints
<1>2. PICK l : Dispatches(l, c, v, basis)
  BY <1>1
<1>3. /\ TypeOK /\ StepsLeft /\ InLoop /\ ~Dispatching /\ index' = index /\ deeds' = deeds
      /\ Dispatching' /\ Step' = Step
  BY <1>2 DEF Mints, Inv, InStep, InLoop, Dispatches, Dispatching, Step
<1>4. /\ permit'.key.base.candidate = c
      /\ ledger'.step = ledger.step /\ ledger'.actions = ledger.actions + 1
      /\ ledger'.stepMutations = ledger.stepMutations + (IF c \in Mutating THEN 1 ELSE 0)
  <2> HIDE DEF LedgerOK
  <2> QED
    BY <1>2, <1>3, DispatchCharges
<1>5. ledger.actions \in Nat /\ ledger.stepMutations \in Nat
  BY <1>3, LedgerAssumption DEF TypeOK, Ledgers
<1>6. ledger.stepMutations < Step.limit /\ Step.limit \in Nat
  BY <1>2, <1>3, StepIsOne DEF Dispatches, SpentFrom, ContextLeft
<1>7. Cardinality(deeds) \in Nat /\ \A s : Cardinality(Mutations(s)) \in Nat
  BY FS_CardinalityType, MutationsAreFinite DEF BudgetInv, ActionsCharged
<1>8. \A s : Mutations(s)' = Mutations(s)
  BY <1>3 DEF Mutations
<1>9. ActionsCharged'
  BY <1>3, <1>4, <1>5, <1>7 DEF BudgetInv, ActionsCharged, OnItsWay
<1>10. MutationOnItsWay' = (IF c \in Mutating THEN 1 ELSE 0) /\ MutationOnItsWay = 0
  BY <1>3, <1>4 DEF MutationOnItsWay, Charge, Candidate
<1>11. MutationsCharged'
  <2>1. /\ ledger.step = index /\ Cardinality(Mutations(index)) <= ledger.stepMutations
    BY <1>3, <1>7, <1>10 DEF BudgetInv, MutationsCharged
  <2>2. /\ Cardinality(Mutations(index)) + MutationOnItsWay' <= ledger'.stepMutations
        /\ ledger'.stepMutations <= Step.limit
    BY <1>4, <1>5, <1>6, <1>7, <1>10, <2>1
  <2> QED
    BY <1>3, <1>4, <1>8, <2>1, <2>2 DEF BudgetInv, MutationsCharged
<1> QED
  BY <1>9, <1>11 DEF BudgetInv

(* What a settlement adds to the history was charged for, and what it       *)
(* refunds is not in it.                                                    *)
LEMMA SettlingKeepsBudget == ASSUME Inv, BudgetInv, Settles PROVE BudgetInv'
<1>1. /\ TypeOK /\ StepsLeft /\ InLoop /\ index' = index /\ ~Dispatching' /\ Step' = Step
  BY DEF Settles, Stays, Inv, InStep, InLoop, Dispatching, Step
<1>2. ledger.actions \in Nat /\ ledger.stepMutations \in Nat /\ ledger'.stepMutations \in Nat
  BY <1>1, LedgerAssumption DEF TypeOK, Ledgers, Settles
<1>3. IsFiniteSet(deeds) /\ Cardinality(deeds) \in Nat /\ Cardinality(deeds) + 1 <= ledger.actions
  BY FS_CardinalityType DEF BudgetInv, ActionsCharged, OnItsWay, Settles
<1>4. \A s : IsFiniteSet(Mutations(s)) /\ Cardinality(Mutations(s)) \in Nat
  BY <1>3, MutationsAreFinite
<1>5. /\ ledger.step = index /\ Cardinality(Mutations(index)) + Charge <= ledger.stepMutations
      /\ ledger.stepMutations <= Step.limit
  BY <1>1 DEF BudgetInv, MutationsCharged, MutationOnItsWay, Settles
<1>6. Charge \in {0, 1} /\ index \in 1..Len(Steps) /\ Step.limit \in Nat
  BY <1>1, StepIsOne DEF Charge
<1>7. OnItsWay' = 0 /\ MutationOnItsWay' = 0
  BY <1>1 DEF OnItsWay, MutationOnItsWay
<1>8. CASE deeds' = deeds
  <2>1. \A s : Mutations(s)' = Mutations(s)
    BY <1>8 DEF Mutations
  <2>2. ActionsCharged'
    BY <1>2, <1>3, <1>7, <1>8 DEF ActionsCharged, Settles
  <2>3. /\ Cardinality(Mutations(index)) <= ledger'.stepMutations
        /\ ledger'.stepMutations <= ledger.stepMutations
    BY <1>2, <1>4, <1>5, <1>6 DEF Settles, OneLess
  <2>4. MutationsCharged'
    BY <1>1, <1>2, <1>4, <1>5, <1>6, <1>7, <2>1, <2>3 DEF BudgetInv, MutationsCharged, Settles
  <2> QED
    BY <2>2, <2>4 DEF BudgetInv
<1>9. ASSUME NEW outcome, deeds' = deeds \cup {Deed(outcome)},
             ledger'.stepMutations = ledger.stepMutations
      PROVE  BudgetInv'
  <2> DEFINE d == Deed(outcome)
  <2>1. d.step = index /\ d.key.base.candidate = Candidate
    BY <1>5 DEF Deed, Candidate
  <2> HIDE DEF d
  <2>2. /\ IsFiniteSet(deeds') /\ Cardinality(deeds') <= Cardinality(deeds) + 1
        /\ Cardinality(deeds') \in Nat
    BY <1>3, <1>9, OneMore DEF d
  <2>3. ActionsCharged'
    BY <1>2, <1>3, <1>7, <2>2 DEF ActionsCharged, Settles
  <2>4. \A s : s # index => Mutations(s)' = Mutations(s)
    BY <1>9, <2>1 DEF Mutations, d
  <2>5. Cardinality(Mutations(index)') <= Cardinality(Mutations(index)) + Charge
    <3>1. CASE Candidate \in Mutating
      <4>1. Mutations(index)' = Mutations(index) \cup {d}
        BY <1>1, <1>9, <2>1, <3>1 DEF Mutations, d
      <4> QED
        BY <1>4, <3>1, <4>1, OneMore DEF Charge
    <3>2. CASE Candidate \notin Mutating
      <4>1. Mutations(index)' = Mutations(index)
        BY <1>1, <1>9, <2>1, <3>2 DEF Mutations, d
      <4> QED
        BY <1>4, <3>2, <4>1 DEF Charge
    <3> QED
      BY <3>1, <3>2
  <2>6. Cardinality(Mutations(index)') \in Nat
    <3>1. Mutations(index)' \subseteq deeds'
      BY DEF Mutations
    <3> QED
      BY <2>2, <3>1, FS_Subset, FS_CardinalityType
  <2>7. /\ Cardinality(Mutations(index)') <= ledger'.stepMutations
        /\ ledger'.stepMutations <= Step.limit
        /\ Cardinality(Mutations(index)') <= Steps[index].limit
    BY <1>2, <1>4, <1>5, <1>6, <1>9, <2>5, <2>6 DEF Step
  <2>8. \A s \in 1..Len(Steps) : Cardinality(Mutations(s)') <= Steps[s].limit
    <3> SUFFICES ASSUME NEW s \in 1..Len(Steps)
                 PROVE  Cardinality(Mutations(s)') <= Steps[s].limit
      OBVIOUS
    <3>1. CASE s = index
      BY <1>1, <2>7, <3>1 DEF Mutations
    <3>2. CASE s # index
      <4>1. Mutations(s)' = Mutations(s)
        BY <2>4, <3>2
      <4>2. Cardinality(Mutations(s)) <= Steps[s].limit
        BY DEF BudgetInv, MutationsCharged
      <4> QED
        BY <4>1, <4>2
    <3> QED
      BY <3>1, <3>2
  <2>9. MutationsCharged'
    BY <1>1, <1>5, <1>7, <2>6, <2>7, <2>8 DEF MutationsCharged, Settles
  <2> QED
    BY <2>3, <2>9 DEF BudgetInv
<1> QED
  BY <1>8, <1>9 DEF Settles

(* Every step takes one of the forms, or leaves budgets and history alone.   *)
LEMMA BudgetInductive == Inv /\ BudgetInv /\ [Next]_vars => BudgetInv'
<1> SUFFICES ASSUME Inv, BudgetInv, [Next]_vars PROVE BudgetInv'
  OBVIOUS
<1>1. CASE DriveNext
  BY <1>1, DriveForms, SpendingKeepsBudget, PassingKeepsBudget, MintingKeepsBudget
<1>2. CASE SettleNext
  BY <1>2, SettleForms, SettlingKeepsBudget
<1>3. CASE DispositionNext
  BY <1>3, DispositionForms, SpendingKeepsBudget, PassingKeepsBudget, MintingKeepsBudget
<1>4. CASE Cancel \/ Expire \/ Finished \/ UNCHANGED vars
  <2>1. UNCHANGED <<ledger, index, phase, permit, deeds>>
    BY <1>4 DEF Cancel, Expire, Finished, vars
  <2>2. UNCHANGED <<OnItsWay, MutationOnItsWay, InLoop, Step>> /\ \A s : Mutations(s)' = Mutations(s)
    BY <2>1 DEF OnItsWay, MutationOnItsWay, Dispatching, Charge, Candidate, InLoop, Step, Mutations
  <2> QED
    BY <2>1, <2>2 DEF BudgetInv, ActionsCharged, MutationsCharged
<1> QED
  BY <1>1, <1>2, <1>3, <1>4 DEF Next

(* No step makes more mutations than its limit, and no run more actions     *)
(* than the job allows (BudgetsHold), however often it is paused, retried   *)
(* and resumed: a refund is given for what was proven not to have happened, *)
(* and for nothing else.                                                    *)
THEOREM BudgetsAlwaysHold == Spec => []BudgetsHold
<1>1. Init => BudgetInv
  <2> SUFFICES ASSUME Init PROVE BudgetInv
    OBVIOUS
  <2>1. /\ deeds = {} /\ ~Dispatching /\ index = 1 /\ Len(Steps) > 0 /\ Len(Steps) \in Nat
        /\ ledger.actions = 0 /\ ledger.stepMutations = 0 /\ ledger.step = 1
    BY DriverAssumption DEF Init, Dispatching, NewLedger
  <2>2. \A s : Cardinality(Mutations(s)) = 0
    BY <2>1, FS_EmptySet DEF Mutations
  <2>3. Step.limit \in Nat
    BY <2>1, LimitsAreNumbers DEF Step
  <2>4. IsFiniteSet(deeds) /\ Cardinality(deeds) = 0
    BY <2>1, FS_EmptySet
  <2> QED
    BY <2>1, <2>2, <2>3, <2>4, LimitsAreNumbers
    DEF BudgetInv, ActionsCharged, MutationsCharged, OnItsWay, MutationOnItsWay
<1>2. Inv /\ BudgetInv => BudgetsHold
  <2> SUFFICES ASSUME Inv, BudgetInv PROVE BudgetsHold
    OBVIOUS
  <2>1. ledger.actions \in 0..MaxActions /\ Cardinality(deeds) \in Nat
    BY FS_CardinalityType DEF Inv, TypeOK, Ledgers, BudgetInv, ActionsCharged
  <2>2. Cardinality(deeds) <= MaxActions
    BY <2>1, LedgerAssumption DEF BudgetInv, ActionsCharged, OnItsWay
  <2> QED
    BY <2>2 DEF Inv, ChargesAgree, BudgetInv, MutationsCharged, BudgetsHold
<1> QED
  BY <1>1, <1>2, DriverInvariant, BudgetInductive, PTL DEF Spec
=============================================================================
