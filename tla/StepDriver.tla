----------------------------- MODULE StepDriver -----------------------------
(***************************************************************************)
(* The autonomous driver of a run's steps and the caller who answers its   *)
(* escalations.  The driver observes the page, checks the step's done      *)
(* condition, asks the provider and acts under a permit of the ledger,     *)
(* until the step is done, the run ends or it pauses.  One action is one   *)
(* iteration of the driver's loop, the settlement of one dispatched        *)
(* action, or one disposition.                                             *)
(***************************************************************************)
EXTENDS ActionLedger, Sequences

CONSTANTS
  Steps,        \* the job's steps: [natural, forced : BOOLEAN, limit : Nat]
  NoCandidate,  \* an escalation that offers nothing to execute
  NoPermit,     \* nothing is being dispatched
  NoPending     \* the run is not paused

ASSUME DriverAssumption ==
  /\ Steps \in Seq([natural : BOOLEAN, forced : BOOLEAN, limit : Nat])
  /\ Len(Steps) > 0
  /\ NoCandidate \notin Candidates

VARIABLES
  ledger,     \* the policy's ledger
  index,      \* the step that is driven
  phase,      \* "driving", "dispatching", "paused", "verifying" or "ended"
  driver,     \* the fields of the step driver that decide what it does
  permit,     \* the permit being performed
  pending,    \* what the escalation the run is paused on offers
  stop,       \* why the run stopped last
  cancelled,  \* a termination or a deadline cancelled the input
  expired,    \* the active timeout has passed; pauses do not count
  deeds       \* history: the actions that took effect, or may have

vars == <<ledger, index, phase, driver, permit, pending, stop, cancelled, expired, deeds>>

Step == Steps[index]
StepsLeft == index <= Len(Steps)

(* Mutant of NewDriver: a resumed step counts its mutations from zero.      *)
NewDriverFromZero(l) ==
  [doneReobserved |-> FALSE, gateReobserved |-> FALSE, awaitingFinal |-> FALSE,
   mutations |-> 0]

(* A driver starts with what its step has already spent.                    *)
NewDriver(l) ==
  [doneReobserved |-> FALSE, gateReobserved |-> FALSE, awaitingFinal |-> FALSE,
   mutations |-> l.stepMutations]

(* A wait or an action starts the reobservations afresh.                    *)
LookAfresh(d) == [d EXCEPT !.doneReobserved = FALSE, !.gateReobserved = FALSE]

Init ==
  /\ ledger = NewLedger
  /\ index = 1
  /\ phase = "driving"
  /\ driver = NewDriver(NewLedger)
  /\ permit = NoPermit /\ pending = NoPending
  /\ stop = "none"
  /\ cancelled = FALSE /\ expired = FALSE
  /\ deeds = {}

-----------------------------------------------------------------------------
(* How an iteration, a settlement or a disposition leaves the run.          *)

(* A stop that is not an escalation is final.                               *)
End(reason) ==
  /\ phase' = "ended" /\ stop' = reason
  /\ permit' = NoPermit /\ pending' = NoPending
  /\ UNCHANGED <<index, driver, cancelled, expired>>

Escalate(p) ==
  /\ phase' = "paused" /\ stop' = "uncertain" /\ pending' = p
  /\ permit' = NoPermit
  /\ UNCHANGED <<index, driver, cancelled, expired>>

Continue(d) ==
  /\ phase' = "driving" /\ driver' = d
  /\ permit' = NoPermit
  /\ UNCHANGED <<index, pending, stop, cancelled, expired>>

(* A driver of its own serves the step once a disposition resumes the run.  *)
Resume ==
  /\ phase' = "driving" /\ driver' = NewDriver(ledger')
  /\ permit' = NoPermit /\ pending' = NoPending /\ stop' = "none"
  /\ UNCHANGED <<index, cancelled, expired>>

(* A satisfied step begins the next one; after the last the run turns to    *)
(* final verification.                                                      *)
PassStep(l) ==
  LET last == index = Len(Steps) IN
  /\ ledger' = IF last THEN l ELSE BeginStep(l)
  /\ index' = index + 1
  /\ phase' = IF last THEN "verifying" ELSE "driving"
  /\ driver' = NewDriver(ledger')
  /\ permit' = NoPermit /\ pending' = NoPending /\ stop' = "none"
  /\ UNCHANGED <<cancelled, expired, deeds>>

(* What an escalation keeps for the disposition that answers it.            *)
Plain(done, noul) ==
  [done |-> done, noul |-> noul, candidate |-> NoCandidate, view |-> NoView,
   ambiguous |-> FALSE]
Undone == Plain("not_satisfied", FALSE)
Offer(c, v) ==
  [Undone EXCEPT !.candidate = c, !.view = IF c \in Presses THEN v ELSE NoView]
Ambiguous(p) == [p EXCEPT !.ambiguous = TRUE]
WithoutCandidate(p) == [p EXCEPT !.candidate = NoCandidate, !.view = NoView]

(* The score that lets a caller attest is asked of natural conditions only. *)
Nouls == IF Step.natural THEN BOOLEAN ELSE {FALSE}

-----------------------------------------------------------------------------
(* One iteration of the driver.  A structured condition is checked on the   *)
(* page and costs nothing; a natural one is judged by the provider, within  *)
(* the same call that chooses the operation.                                *)
Driving == phase = "driving" /\ ~cancelled

CanJudge == ~expired /\ ModelCallLeft(ledger)
CanCheckDone == ~expired /\ (Step.natural => ModelCallLeft(ledger))
AfterDoneCheck == IF Step.natural THEN RecordModelCall(ledger) ELSE ledger

LimitReached == driver.mutations >= Step.limit
MayNeedCall == Step.natural \/ ~LimitReached

StopCancelled ==
  /\ phase = "driving" /\ cancelled
  /\ End("blocked") /\ UNCHANGED <<ledger, deeds>>

(* The browser does not answer, or the page is not one to act on or publish.*)
ObservationFails ==
  /\ Driving
  /\ End("blocked") /\ UNCHANGED <<ledger, deeds>>

BudgetRunsOut ==
  /\ Driving
  /\ expired \/ (MayNeedCall /\ ~ModelCallLeft(ledger))
  /\ End("budget_exhausted") /\ UNCHANGED <<ledger, deeds>>

ProviderFails ==
  /\ Driving /\ CanJudge /\ MayNeedCall
  /\ ledger' = RecordModelCall(ledger)
  /\ End("blocked") /\ UNCHANGED deeds

DoneSatisfied ==
  /\ Driving /\ CanCheckDone
  /\ PassStep(AfterDoneCheck)

(* The checkpoint of a completed step cannot be published.                  *)
CheckpointFails ==
  /\ Driving /\ CanCheckDone
  /\ ledger' = AfterDoneCheck
  /\ End("blocked") /\ UNCHANGED deeds

(* Mutant of DoneUnknown: a condition that stays unknown is waited for.     *)
DoneUnknownAgain ==
  /\ Driving /\ CanCheckDone
  /\ ledger' = AfterDoneCheck
  /\ IF driver.doneReobserved
       THEN Continue(LookAfresh(driver))
       ELSE Continue([driver EXCEPT !.doneReobserved = TRUE])
  /\ UNCHANGED deeds

DoneUnknown ==
  /\ Driving /\ CanCheckDone
  /\ ledger' = AfterDoneCheck
  /\ IF driver.doneReobserved
       THEN \E noul \in Nouls : Escalate(Plain("unknown", noul))
       ELSE Continue([driver EXCEPT !.doneReobserved = TRUE])
  /\ UNCHANGED deeds

(* No mutation is left: the condition is looked at once more.               *)
AfterMutationLimit ==
  /\ Driving /\ CanCheckDone /\ LimitReached
  /\ ledger' = AfterDoneCheck
  /\ IF driver.awaitingFinal
       THEN End("done_condition_not_met")
       ELSE Continue([driver EXCEPT !.awaitingFinal = TRUE])
  /\ UNCHANGED deeds

-----------------------------------------------------------------------------
(* The condition does not hold and the provider chose an operation.         *)
Deciding == Driving /\ CanJudge /\ ~LimitReached
Judged == RecordModelCall(ledger)

(* Nothing to authorize: the operation is BLOCKED, its surface unsupported, *)
(* its target or value not one the page offers.                             *)
DecisionStops ==
  /\ Deciding
  /\ ledger' = Judged
  /\ End("blocked") \/ Escalate(Undone)
  /\ UNCHANGED deeds

(* A choice below its gate is judged again on a fresh observation, then     *)
(* offered to the caller, unless it is a scroll, or its target was in doubt.*)
BelowGate(c, v) ==
  /\ Deciding
  /\ ledger' = Judged
  /\ IF driver.gateReobserved
       THEN Escalate(Undone) \/ (c \notin Scrolls /\ Escalate(Offer(c, v)))
       ELSE Continue([driver EXCEPT !.gateReobserved = TRUE])
  /\ UNCHANGED deeds

Wait ==
  /\ Deciding
  /\ IF WaitLeft(Judged)
       THEN ledger' = ChargeWait(Judged) /\ Continue(LookAfresh(driver))
       ELSE ledger' = Judged /\ End("budget_exhausted")
  /\ UNCHANGED deeds

NewPermit(c, v, basis) ==
  [key |-> ReplayKey(ledger, c, v), sequence |-> ledger'.actions, basis |-> basis]

AuthorizationFails(c) ==
  /\ Deciding
  /\ ~ContextLeft(Judged, Step.limit) \/ ~FallbackLeft(Judged, c)
  /\ ledger' = Judged
  /\ End("budget_exhausted") /\ UNCHANGED deeds

Authorizes(c) == ContextLeft(Judged, Step.limit) /\ FallbackLeft(Judged, c)

RefuseReplay(c, v) ==
  /\ Deciding /\ Authorizes(c) /\ ReplayForbidden(Judged, c, v)
  /\ ledger' = Judged
  /\ Escalate(Undone) /\ UNCHANGED deeds

(* A debugged job stops before the first mutation of a step.                *)
ForcedStop(c) == Step.forced /\ c \in Mutating /\ driver.mutations = 0

MintAndDispatch(c, v) ==
  /\ Deciding /\ Authorizes(c) /\ ~ReplayForbidden(Judged, c, v) /\ ~ForcedStop(c)
  /\ ledger' = Mint(Judged, c, v)
  /\ permit' = NewPermit(c, v, "autonomous")
  /\ phase' = "dispatching"
  /\ driver' = LookAfresh(driver)
  /\ UNCHANGED <<index, pending, stop, cancelled, expired, deeds>>

StopBeforeMutation(c, v) ==
  /\ Deciding /\ Authorizes(c) /\ ~ReplayForbidden(Judged, c, v) /\ ForcedStop(c)
  /\ ledger' = ReleaseUnused(Mint(Judged, c, v), ReplayKey(Judged, c, v))
  /\ Escalate(Ambiguous(Offer(c, v))) /\ UNCHANGED deeds

-----------------------------------------------------------------------------
(* The permit is performed: prepared, journaled, dispatched to the browser  *)
(* and settled by what the browser reports.                                 *)
Dispatching == phase = "dispatching"
Candidate == permit.key.base.candidate
Autonomous == permit.basis = "autonomous"

Deed(outcome) ==
  [key |-> permit.key, step |-> ledger.step, sequence |-> permit.sequence,
   outcome |-> outcome]

(* The outcomes of a dispatch and what each leaves in the history.          *)
Witnessed(outcome) ==
  IF outcome = "not_performed" THEN deeds ELSE deeds \cup {Deed(outcome)}

(* A caller's candidate that was not performed is not offered again.        *)
Settle(d) == IF Autonomous THEN Continue(d) ELSE Escalate(WithoutCandidate(pending))

(* What is prepared was found on the observation the permit rests on; a     *)
(* permit it does not fit is neither journaled nor dispatched, nor refunded.*)
PermitInvalid ==
  /\ Dispatching
  /\ IF Autonomous THEN Escalate(Undone) ELSE Escalate(WithoutCandidate(pending))
  /\ UNCHANGED <<ledger, deeds>>

(* The journal fails before the dispatch: there is none.                    *)
EvidenceUnavailable ==
  /\ Dispatching
  /\ End("blocked") /\ UNCHANGED <<ledger, deeds>>

(* The journal fails after it: whatever happened, the run ends.             *)
EvidenceIncomplete ==
  /\ Dispatching
  /\ \E outcome \in {"observed", "not_performed", "uncertain"} :
       deeds' = Witnessed(outcome)
  /\ End("evidence_incomplete_after_dispatch") /\ UNCHANGED ledger

ReadbackMismatch ==
  /\ Dispatching /\ Candidate \in Inputs
  /\ deeds' = Witnessed("observed")
  /\ End("write_readback_mismatch") /\ UNCHANGED ledger

Observed ==
  /\ Dispatching
  /\ deeds' = Witnessed("observed")
  /\ ledger' = RecordObserved(ledger, permit.key)
  /\ IF Autonomous
       THEN Continue([driver EXCEPT !.awaitingFinal = FALSE,
              !.mutations = IF Candidate \in Mutating THEN @ + 1 ELSE @])
       ELSE Resume

(* The browser proves that nothing left for the page.                       *)
NotPerformed ==
  /\ Dispatching
  /\ deeds' = Witnessed("not_performed")
  /\ ledger' = ReleaseNotPerformed(ledger, permit.key)
  /\ Settle(driver)

UncertainScroll ==
  /\ Dispatching /\ Candidate \in Scrolls /\ Autonomous
  /\ deeds' = Witnessed("uncertain")
  /\ ledger' = RecordUncertainScroll(ledger, permit.key)
  /\ Continue(driver)

Uncertain ==
  /\ Dispatching /\ Candidate \notin Scrolls
  /\ deeds' = Witnessed("uncertain")
  /\ Escalate(Ambiguous(Undone)) /\ UNCHANGED ledger

-----------------------------------------------------------------------------
(* Dispositions of a paused run.  One that is refused reissues the          *)
(* escalation as it was.                                                    *)
Paused == phase = "paused"

Abort ==
  /\ Paused
  /\ End("aborted") /\ UNCHANGED <<ledger, deeds>>

RetryObservation ==
  /\ Paused
  /\ ledger' = ledger
  /\ Resume /\ UNCHANGED deeds

AdvancePermitted ==
  /\ Step.natural
  /\ pending.done = "unknown" /\ pending.noul
  /\ ~pending.ambiguous
  /\ pending.candidate = NoCandidate

(* The page still shows the facts the escalation rests on.                  *)
Advance ==
  /\ Paused /\ AdvancePermitted
  /\ PassStep(ledger)

(* Executing the offered candidate, or advancing, takes a fresh observation.*)
DispositionStops ==
  /\ Paused
  /\ End("blocked") /\ UNCHANGED <<ledger, deeds>>

Executing == Paused /\ pending.candidate # NoCandidate
CanResumeCheck == Step.natural => CanJudge

ResumeCheckStops ==
  /\ Executing /\ Step.natural
  /\ IF CanJudge
       THEN ledger' = RecordModelCall(ledger) /\ End("blocked")
       ELSE ledger' = ledger /\ End("budget_exhausted")
  /\ UNCHANGED deeds

ResumeSatisfied ==
  /\ Executing /\ CanResumeCheck
  /\ PassStep(AfterDoneCheck)

ResumeUnknown ==
  /\ Executing /\ CanResumeCheck
  /\ ledger' = AfterDoneCheck
  /\ \E noul \in Nouls : Escalate(Plain("unknown", noul))
  /\ UNCHANGED deeds

CallerAuthorizes ==
  /\ Executing /\ CanResumeCheck
  /\ ~expired
  /\ ContextLeft(ledger, Step.limit) /\ FallbackLeft(ledger, pending.candidate)

(* The condition still does not hold, and the budgets are spent.            *)
ExecuteRunsOut ==
  /\ Executing /\ CanResumeCheck /\ ~CallerAuthorizes
  /\ ledger' = AfterDoneCheck
  /\ End("budget_exhausted") /\ UNCHANGED deeds

(* The candidate is no longer the one that was offered, or was made before. *)
CandidateRefused ==
  /\ CallerAuthorizes
  /\ ledger' = AfterDoneCheck
  /\ Escalate(WithoutCandidate(pending)) /\ UNCHANGED deeds

(* A press is revalidated against the whole anchor, its state included.     *)
Revalidates(v) == pending.candidate \in Presses => v = pending.view

ExecuteCandidate(v) ==
  /\ CallerAuthorizes /\ Revalidates(v)
  /\ ~ReplayForbidden(AfterDoneCheck, pending.candidate, v)
  /\ ledger' = Mint(AfterDoneCheck, pending.candidate, v)
  /\ permit' = NewPermit(pending.candidate, v, "caller_authority")
  /\ phase' = "dispatching" /\ stop' = "none"
  /\ UNCHANGED <<index, driver, pending, cancelled, expired, deeds>>

-----------------------------------------------------------------------------
(* A termination, or a deadline that is confirmed, cancels the input at any *)
(* moment; a disposition that was accepted meanwhile is applied all the     *)
(* same, and the driver it resumes stops.                                   *)
Cancel ==
  /\ phase \in {"driving", "dispatching", "paused"} /\ ~cancelled
  /\ cancelled' = TRUE
  /\ UNCHANGED <<ledger, index, phase, driver, permit, pending, stop, expired, deeds>>

(* The active timeout does not run while the run is paused.                 *)
Expire ==
  /\ phase \in {"driving", "dispatching"} /\ ~expired
  /\ expired' = TRUE
  /\ UNCHANGED <<ledger, index, phase, driver, permit, pending, stop, cancelled, deeds>>

Finished ==
  /\ phase \in {"verifying", "ended"}
  /\ UNCHANGED vars

DriveNext ==
  \/ StopCancelled \/ ObservationFails \/ BudgetRunsOut \/ ProviderFails
  \/ DoneSatisfied \/ CheckpointFails \/ DoneUnknown \/ AfterMutationLimit
  \/ DecisionStops \/ Wait
  \/ \E c \in Candidates : AuthorizationFails(c)
  \/ \E c \in Candidates, v \in Views :
       \/ BelowGate(c, v) \/ RefuseReplay(c, v)
       \/ MintAndDispatch(c, v) \/ StopBeforeMutation(c, v)

SettleNext ==
  \/ PermitInvalid \/ EvidenceUnavailable \/ EvidenceIncomplete
  \/ ReadbackMismatch \/ Observed \/ NotPerformed
  \/ UncertainScroll \/ Uncertain

DispositionNext ==
  \/ Abort \/ RetryObservation \/ Advance \/ DispositionStops
  \/ ResumeCheckStops \/ ResumeSatisfied \/ ResumeUnknown
  \/ ExecuteRunsOut \/ CandidateRefused
  \/ \E v \in Views : ExecuteCandidate(v)

Next == DriveNext \/ SettleNext \/ DispositionNext \/ Cancel \/ Expire \/ Finished

Spec == Init /\ [][Next]_vars

(* The driver makes steps while its browser and its provider answer or time *)
(* out; nothing is assumed of the clock, of terminations or of callers.     *)
DrivenSpec == Spec /\ WF_vars(DriveNext) /\ WF_vars(SettleNext)

-----------------------------------------------------------------------------
Drivers ==
  [doneReobserved : BOOLEAN, gateReobserved : BOOLEAN, awaitingFinal : BOOLEAN,
   mutations : Nat]
Permits ==
  [key : Keys, sequence : 1..MaxActions, basis : {"autonomous", "caller_authority"}]
Pendings ==
  [done : {"unknown", "not_satisfied"}, noul : BOOLEAN,
   candidate : Candidates \cup {NoCandidate}, view : Views \cup {NoView},
   ambiguous : BOOLEAN]
Deeds ==
  [key : Keys, step : Nat, sequence : 1..MaxActions, outcome : {"observed", "uncertain"}]

(* An escalation is kept until the disposition that answers it has acted.   *)
Answered == Paused \/ (Dispatching /\ ~Autonomous)

(* Every variable has its type, and the ledger never exceeds a budget.      *)
TypeOK ==
  /\ ledger \in Ledgers /\ ledger.unsettled \subseteq ledger.replay
  /\ index \in 1..(Len(Steps) + 1)
  /\ phase \in {"driving", "dispatching", "paused", "verifying", "ended"}
  /\ driver \in Drivers
  /\ permit \in IF Dispatching THEN Permits ELSE {NoPermit}
  /\ pending \in IF Answered THEN Pendings ELSE {NoPending}
  /\ stop \in {"none", "uncertain", "blocked", "aborted", "budget_exhausted",
                "done_condition_not_met", "write_readback_mismatch",
                "evidence_incomplete_after_dispatch"}
  /\ cancelled \in BOOLEAN /\ expired \in BOOLEAN
  /\ deeds \subseteq Deeds

(* An operation is never repeated blindly: across steps, pauses, retries and*)
(* caller executions, what was observed to happen does not happen again in  *)
(* the same circumstances, and what may have happened is attempted again    *)
(* only if it is a scroll, and only until an attempt is observed.           *)
NeverRepeated ==
  \A d, e \in deeds :
    d # e /\ d.key.base = e.key.base =>
      /\ d.key.base.candidate \in Scrolls
      /\ d.outcome = "observed" => e.sequence < d.sequence

IsPress(x) == x.key.base.candidate \in Presses

(* A press whose outcome is unknown is the last one of its key on its focus *)
(* in its step, whatever the anchor's state shows afterwards.               *)
UncertainPressIsLast ==
  \A d, e \in deeds :
    /\ d.outcome = "uncertain" /\ IsPress(d)
    /\ e.key.base.candidate = d.key.base.candidate /\ e.step = d.step
    => e.sequence <= d.sequence

(* The driver's count of mutations, which decides between acting and the    *)
(* final look, and the ledger's, which authorizes, are one count.           *)
CountsAgree == phase = "driving" => driver.mutations = ledger.stepMutations

(* The mutations a step made, or may have made, stay within its limit,      *)
(* however often the step was paused, retried and resumed by the caller, and*)
(* all actions within the budget of the run; the two counts of mutations,   *)
(* the one that decides and the one that authorizes, are one.               *)
Mutations(s) == {d \in deeds : d.step = s /\ d.key.base.candidate \in Mutating}
BudgetsHold ==
  /\ CountsAgree
  /\ \A s \in 1..Len(Steps) : Cardinality(Mutations(s)) <= Steps[s].limit
  /\ Cardinality(deeds) <= MaxActions

(* A caller never dispatches a scroll: a scroll whose outcome is uncertain  *)
(* has no stop of its own outside the driver.                               *)
CallerNeverScrolls ==
  Dispatching /\ ~Autonomous => Candidate \notin Scrolls

-----------------------------------------------------------------------------
(* Why they hold.                                                           *)

(* The keys of what happened, or may have, are held by the ledger; the key  *)
(* of what is being dispatched is a new one.                                *)
KeysHeld ==
  /\ \A d \in deeds : d.key \in ledger.replay /\ d.sequence <= ledger.actions
  /\ Dispatching =>
       /\ permit.key \in ledger.replay /\ permit.sequence <= ledger.actions
       /\ \A d \in deeds : d.key # permit.key /\ d.sequence < permit.sequence

(* Only a scroll whose last attempt is uncertain has an ordinal without a   *)
(* key.                                                                     *)
OrdinalsGrow ==
  /\ \A k \in ledger.replay : k.ordinal <= Ordinal(ledger, k.base)
  /\ \A d \in deeds : d.outcome = "observed" => d.key.ordinal = Ordinal(ledger, d.key.base)
  /\ Dispatching => permit.key.ordinal = Ordinal(ledger, permit.key.base)

(* A press that may have been made in this step is unsettled, and no press  *)
(* of its key on its focus is on its way.                                   *)
PressesHeld ==
  /\ \A d \in deeds : d.step <= ledger.step /\ (IsPress(d) => d.key.base.step = d.step)
  /\ Dispatching /\ IsPress(permit) =>
       permit.key.base.step = ledger.step /\ permit.key \in ledger.unsettled
  /\ \A d \in deeds : IsPress(d) /\ d.outcome = "uncertain" /\ d.step = ledger.step =>
       /\ d.key \in ledger.unsettled
       /\ Dispatching => Candidate # d.key.base.candidate

(* The permit that is performed is charged, and not yet counted.            *)
Charge == IF Candidate \in Mutating THEN 1 ELSE 0
ChargesAgree ==
  /\ CountsAgree
  /\ Dispatching /\ Autonomous => driver.mutations + Charge = ledger.stepMutations

(* What the history and the ledger say of each other.                       *)
History ==
  KeysHeld /\ OrdinalsGrow /\ PressesHeld /\ NeverRepeated /\ UncertainPressIsLast

(* A run that drives, dispatches or is paused is in one of its steps.       *)
InStep == phase \in {"driving", "dispatching", "paused"} => StepsLeft

NoScrollOffered == Answered => pending.candidate \notin Scrolls

(* The inductive invariant.                                                 *)
Inv ==
  TypeOK /\ InStep /\ History /\ ChargesAgree /\ NoScrollOffered /\ CallerNeverScrolls

-----------------------------------------------------------------------------
(* The driver always comes to an end, a pause or the final verification, by *)
(* its own budgets: without the clock, a caller or a termination.           *)
DriveEnds ==
  phase \in {"driving", "dispatching"} ~> phase \in {"paused", "verifying", "ended"}
=============================================================================
