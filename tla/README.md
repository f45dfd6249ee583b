# A verification project for manuvra

manuvra runs a browser job described by a caller: steps with conditions that say when each is done, and
final expectations. A run is driven by a **host** process in the background. When the host cannot decide, it
*escalates*: the run is published as `uncertain`, and a caller answers with a **disposition** (abort, retry the
observation, advance, execute the offered candidate). A **watchdog** process supervises the host, and any
number of short-lived **command-line clients** read the run, answer it or abort it. They share files under a
state root and a control socket; every one of them may be killed at any moment.

This directory holds TLA+ modules translated from that code, configurations that check them with TLC on small
instances, and theorems with proofs that TLAPS checks for every value of the constants. `PROJECT.json` maps
every definition to the lines it models and lists runs, mutants, findings, hazards and theorems.

Paths below are relative to `src/crates/`.

## Inventory

| Component | State | Operations | Hard behaviour |
|---|---|---|---|
| Durable run state, `manuvra-cli/src/store.rs` | run control (sequence, result, deadlines), request records (`Intent`, `Complete`), run lock, request locks | atomic private writes, lookups, locks | a write may fail with either content in place; three kinds of process write |
| Run host, `manuvra-cli/src/host.rs` | `Control`: run, resume admission, abort, cancellation, publication mutex | admit a disposition, abort, deadline notice, publish a checkpoint, wait while paused, finalize | flow, socket and monitor threads interleave; answers must be immutable |
| Hosted flow, `manuvra-flow/src/run/` | step index, stop, escalation, artifacts | drive, pause, apply a disposition, terminate, finish | dispositions against deadlines; failing checkpoints |
| Step driver and policy, `run/step_driver.rs`, `policy/` | permits, replay keys, budgets, scroll ordinals | authorize, mint, release, settle, charge | an input must not be repeated unless it was proven not performed |
| Actions, `manuvra-flow/src/actions.rs` | action journal | prepare, dispatch, settle, clear | crash between dispatch and fact |
| Watchdog, `manuvra-cli/src/watchdog.rs` | the child, the liveness pipe | supervise, expire, kill, reconcile | stale reads of the control; racing status clients; its own death |
| Clients, `manuvra-cli/src/client.rs` | one request each | run, status, wait, resume, abort | retries, reply timeouts, duplicated connections |
| Run admission, `manuvra-cli/src/{lib,runtime,process}.rs` | request record, entry of the run, run lock, bootstrapping control | admit, bootstrap, attach, recover, finalize | a death of caller, watchdog or host at every step of the bootstrap |
| Evidence, `manuvra-flow/src/evidence.rs`, `manuvra-cli/src/{evidence,recovery}.rs` | staged and final bundles, set-aside prior bundles | publish, exchange, replace the tail, validate | half-finished directory exchange, a bundle newer than its control |
| Browser, `manuvra-chrome/src` | connection with its worker and event journal, owned process and profile | launch, navigate, capture, dispatch input, close | bounded event window, late answers, a page that changes, a browser that hangs or dies |
| Model calls, `manuvra-jev/src/lib.rs` | pinned model, attempt, logical deadline | evaluate, retry | late answers, a changed model |
| Job contract, `manuvra-contract/src/{lib,color}.rs` | none (pure) | read a job, validate it, find a missing value | boundaries; what is left out |
| Verification, `manuvra-flow/src/{verification,visible_text,relevant_state}.rs`, `values.rs`, `manuvra-contract/src/{color,text}.rs` | none (pure) | facts, coverage, colours, literals | an absence concluded from a partial capture |
| Targets and judgment, `manuvra-flow/src/{judgment,actions}.rs`, `policy/{mod,revalidation}.rs` | none (pure) | offer candidates, read answers, find a target again | an index that means another control by now |

What makes each correct, in the order of importance the plan follows:

1. *Answering a run.* An escalation has at most one accepted disposition; the flow applies that one and no
   other; its answer is recorded once and never changes; a caller told "stale" was never acted for.
2. *Ending a run.* Exactly one terminal result, whoever publishes it; a lost run is published only when its
   host is dead; abort, deadlines, hangs and crashes all end in a terminal result.
3. *Honesty about effects.* An input that may have been performed is never reported as not performed, and is
   never sent again.
4. *Starting a run.* One request id starts one run, whatever dies during the bootstrap, and is answered alike.
5. *Judging a page.* What is dispatched goes to what was judged; a pass rests on something captured, and an
   absence only on a complete capture; one run rests on one model.
6. *Evidence.* A published bundle is one that its digests and the run control agree with, at every instant.
7. *Bounded resources.* A capture that lost events is not called clean; every wait ends.

## The modules

```
RunStore           the shared files, the inbox of the control socket, results, records
  RunHost          the host process: flow thread, socket thread, in-memory Control
    Watchdog       the watchdog process, crashes, the monitor thread
      ControlClients   resume, abort and status clients
        HostedRun  their composition, fairness, properties, refinement mapping to RunLifecycle
          HostedRunProofs  theorems and proofs about results, records and the run lock
            HostedResumeProofs  theorems about dispositions, and the step simulation of RunLifecycle
RunLifecycle       the abstract promise of a run to its callers

ActionLedger       permits, replay keys and budgets: operators on a ledger
  StepDriver       the driver's loop, the settlement of its actions, the dispositions of a step
    StepDriverProofs    theorems and proofs, on repetition and then on budgets

RunAdmission       callers under one request id, bootstrap, readiness, recovery; maps to RunRequest
  RunAdmissionProofs  theorems and proofs, and the step simulation of RunRequest
RunRequest         the abstract promise of a request id

EvidencePublication   bundles of one run and the control that refers to them
  EvidencePublicationProofs  theorems and proofs

CdpTransport       the connection to Chrome and the event journal
  ChromePage       Chrome and its page as the code counts on them (external)
    OwnedBrowser   launch, navigation, captures, input, closing
      OwnedBrowserProofs  theorems about closing, waiting and the connection
        BrowserOperationProofs  theorems about input and captures

PageFacts          what an observation says about conditions
  Targeting        what an answer of the model means on an observation
ModelClient        attempts, retries, deadline, pinned model
JobContract        which jobs are carried out
  JudgedRun        EXTENDS Targeting, ModelClient, JobContract: a run on a changing page
    JudgedRunProofs     theorems and proofs
```

A module EXTENDS the one above it: the processes share variables, and every action states for all of them
what it leaves unchanged. Each composition has an `MC` module with the values of its constants. They look at
a run from several sides: `RunHost` reduces an iteration of the driver to what it comes to (done, action
dispatched, escalated, stopped); `StepDriver` details the iteration and leaves out the processes, the files and
the page; `JudgedRun` has the page, the answers and the verification and leaves out permits and replay keys;
`OwnedBrowser` is below all of these, an operation at a time; `RunAdmission` ends where `HostedRun` begins.

### State and actions

*RunStore.* `control` is the run control file, reduced to what a reader tells apart: the sequence number, the
result (state, reason, escalation, what a reconciler said of the action in flight, and who claims to have
cleaned up) and the pause deadline. `records` are the resume request records; `runRecord` and `abortRecord`
the results recorded for the run request and an abort request. `journal` is the action journal: `prepared`
means that its last entry has no fact, which is what `unresolved_action` reports as uncertain. `inbox` is the
queue of accepted connections of the control socket, served one at a time by one thread. `FailedWrite` says
what `atomic_write_private` leaves behind when it fails: the old content, or the new one when only the sync of
the directory failed. Result state `blocked` stands for `failed` too.

*RunHost.* `pc` is the flow thread:

| pc | code |
|---|---|
| `launch` | `run_hosted`, starting the browser |
| `drive`, `dispatch`, `fact` | `HostedMachine::drive`, `StepDriver`, `perform_with_basis` before and after the dispatch |
| `check` | the head of the loop in `finish_hosted_browser_run` |
| `pause`, `waiting`, `polling`, `apply` | `handle_hosted_pause`, `wait_while_paused` (its two critical sections), `HostedMachine::apply` |
| `publish`, `respond`, `store` | `publish_checkpoint`: memory, the answer of an awaited disposition, the control file |
| `clear`, `record`, `exit`, `dead` | `finish_hosted_terminal`, `finalize_flow`, the end of the process |

`mem` is the run control in memory (`Control.run`); `pending`, `awaiting` and `consumed` are
`ResumeAdmission`; `abort`, `watchdogLost` and `cancelled` are the flags that other threads set. The
publication mutex is not a variable: it is held exactly in `respond` and `store` and while `admitting` names a
request (`PublicationHeld`). The lock order of `Control` (publication, resume, run) is kept by making each
critical section an action. `taken` and `inflight` are history: which disposition was applied, and whether an
input left for the browser whose fact is not journaled.

*Watchdog.* `supervise` reads the liveness of the child, the control and the clock one after the other, so
`SeesAlive` and `SeesDeadline` are separate steps and the decision may be stale when it is acted on.

*ControlClients.* A resume request is one client at a time (`lock_request`), any number of times with the same
id (`Abandon` is a timeout or a kill). Looking for a completed record and writing an error record are two
steps. Abort polls the durable control. Status reconciles a lost host only when the watchdog is gone too.

*HostedRun* composes them with a clock and adds the refinement mapping to *RunLifecycle*: the published state,
the escalation waited on, the accepted dispositions and the recorded answers.

*ActionLedger* (`manuvra-flow/src/policy/`). A ledger is a record, and every method of `Policy` that changes
it is an operator from a ledger to the next one, so that a handler that makes several calls composes them
(`ReleaseUnused(Mint(...), ...)` is the forced debug stop). A *candidate* stands for what the provider can
choose: an input (click, typed value, selection) on its target, a key press on a focus identity, a scroll, a
hover. A *view* stands for all of an observation that a replay key depends on. `Base` says what each kind of
key is made of: an input's only of its target, a press's also of the anchor's state and the step's ordinal, a
scroll's and a hover's of the page; `Ordinal` is the counter that an uncertain scroll appends to its key.

*StepDriver* (`manuvra-flow/src/run/`). One action is one iteration of `StepDriver::drive`, one settlement
(`perform_with_basis` and what its caller does with the result) or one disposition.

| State | code |
|---|---|
| `ledger`, `index`, `stop` | `HostedMachine.policy`, `.index`, `.artifacts.stop` |
| `driver` | the flags and the mutation count of `StepDriver`, made anew at each resumption |
| `phase` | between iterations (`driving`), inside `mutate` or `perform_caller_candidate` (`dispatching`), waiting for a disposition (`paused`), past the last step (`verifying`), stopped for good (`ended`) |
| `permit` | the permit that is being performed, with its basis |
| `pending` | `PendingEscalation`, without its observation except for the view of an offered press |
| `cancelled`, `expired` | `InputCancellation`; the active timeout |
| `deeds` | history: what took effect or may have, with key, step, sequence and outcome |

A dispatch is two steps, so that a cancellation or the end of the active time falls between mint and
settlement. `PermitInvalid` is a defensive branch of the code: what is prepared was found on the observation
the permit was minted on. Dispositions that are refused only reissue the escalation and are not steps.

*RunAdmission* (`manuvra-cli/src/{lib,runtime,process,watchdog,client}.rs`). Each caller is one invocation of
`manuvra run` with a program counter named after what it is about to do; so are the watchdog and the host of the
run it creates. `index` is `requests/<id>.json`, `entry` the copy of it in the run's directory, `control`,
`evidence` and `socket` the other files, `requestLock` and `runLock` the locks. A crash frees the locks of the
process; a fault is one failing write, spawn or reply. *RunRequest* says what an id promises: one job, one
start at most, no start after it was given up, one final response.

*EvidencePublication* (`manuvra-flow/src/evidence.rs`, `manuvra-cli/src/evidence.rs`). A directory is what it
lists and what is in it, version by version; `stage` and `backup` are the two scratch directories.
`exchange` says whether the build has an atomic exchange of directories. Each file operation is an action that
may fail or be the last one of its process. The watchdog's replacement of a tail and the validation by a
reader are in their order of operations.

*CdpTransport*, *ChromePage*, *OwnedBrowser* (`manuvra-chrome/src`). `call` is the command the client's thread
waits for, `queue` what the worker has not taken, `worker` what it does; a call that timed out leaves its
request behind. `journal` is the bounded window of events with the sequence number of what it dropped.
`op` is the operation in progress with a `pc`: a thread that got an answer runs on to its next command in one
action. Page, process and channels are external: commands take effect in the order they were sent, an event is
on the socket before the answer to a later command. `captured` and `effects` are histories.

*JobContract* (`manuvra-contract`). `IsJob` is what the types of a job admit, `Valid` what `Job::validate`
checks, `FirstMissing` the value admission blocks on. Texts are model values, one of them white space.

*PageFacts* and *Targeting* (`manuvra-flow`). An observation is a record of elements, lines, dialogs, painted
text, colours, focus, scopes and coverage. A text is the set of its words. Verdicts have three outcomes, and
`Search` consults the coverage before it concludes an absence. A *candidate* is an operation, the element it was
chosen for and what a later observation must still say about it (`ElementMatches`, `Revalidated`).

*ModelClient* (`manuvra-jev`). `asked` is the time of the logical call, `call` its attempt; the provider answers
with any admissible set of answers, a malformed one, another model's, a refusal, or never.

*JudgedRun* (`manuvra-flow/src/run/`). `phase` is where the flow is: observing, asking, dispatching, verifying,
evaluating, paused or ended. `page` changes by itself and by inputs along `Becomes`; each page has what a
capture sees of it (`seen`) and what it really shows (`whole`), so that a property can speak of both.
Permits that were minted before are not remembered here: a replay may be refused or not.

### Assumptions made by the model

* The run starts after the host published its initial control, with an empty socket and no request recorded.
* Deadlines are clock ticks. One tick may pass at any step; no step takes a minimal time.
* `MaxEscalations` bounds the escalations of one run. The code has no such bound; a run of the model that used
  them up cannot escalate again, but stops, ends or is driven on.
* Writes by command-line clients do not fail (those of the host and the watchdog do).
* The clock never goes back, and all processes read the same one.
* Bundle publication either succeeds or makes the flow return an error (`BundleFails`).
* In `StepDriver` the browser and the provider answer anything at any time: a condition holds, fails or is
  unknown, any candidate is chosen with any confidence, a dispatch has any outcome. Views change freely between
  two iterations; within one, a permit is minted and performed on the same view.
* Counters of the ledger do not overflow: `max_actions`, `max_model_calls` and the limit of a step bound all
  of them below their widths, except the ordinal of a scroll, which saturates in the code at 65535 attempts.
* In `RunAdmission` and `EvidencePublication` a run that is driven ends with some result at some time; what it
  does in between is `HostedRun`'s matter.
* Chrome (`ChromePage`) handles commands in order, answers a command after the events it caused before, and may
  stop answering or die at any moment. What the page does by itself shares the budget `MaxSurprises` with what fails
  and with cancellations.
* In `JudgedRun` a page shows what a capture may leave out, but a capture invents nothing (`CaptureAssumption`): it
  is of the page's address, every dialog and control that it lists is there with that name and value, one control
  at most has the focus, and an inventory that it calls complete is. The visible text may be cut anywhere, also
  within a word, as `snapshot.js:636` cuts it; `CutsBetweenWords` says of a set of pages that no text is. That is
  no assumption of the model but the hypothesis of one theorem: the pages of `judged_run` satisfy it, those of
  `cut_number` do not. The clock stands still while the run is paused. The run's step has a structured condition (a natural one, which the model judges, is
  in `StepDriver`).

## What the runs check

| Run | Module | Properties | What it shows |
|---|---|---|---|
| `crashes` | `MCHostedRun` | `LossOnlyAfterDeath` `RecordsAgree` `AnswersAreFaithful` `TakenIsAnswered` `OnlyClearingForgets` `AnsweredPauseIsUnbounded` `Coherent` `TerminalIsFinal` `SequenceShowsChange` `ResumeIsFinal` | host, watchdog and status client killed at any step and one durable write that fails, two escalations, duplicated resumes in a queue of two: a loss is only that of a dead host, ends and answers are final and true, an input is forgotten only where a stop cleared the journal, and no answered pause gets a deadline back |
| `run_ends` | `MCHostedRun` | `PauseIsBounded` `CrashWindowIsHonest` `ImplementsLifecycle` `EventuallyTerminal` `AbortOrLossEndsRun` | the watchdog and the clock end every run, fair or not the host; without the clock, an abort, the loss of the watchdog or the death of the host does; the end of a run whose host died says of an input in flight that it is uncertain (no write fails here); a paused run has a deadline exactly until it is answered; and the processes, crashes included, implement `RunLifecycle`: one disposition is consumed per escalation, a pause is left only with one, and each request is answered once and truthfully |
| `driver` | `MCStepDriver` | `NeverRepeated` `UncertainPressIsLast` `BudgetsHold` `DriveEnds` | two steps, pauses answered in every way, waits, retries and uncertain outcomes: nothing is repeated blindly, an uncertain press holds its focus, mutations per step and actions per run stay within their limits, and the driver comes to an end, a pause or the verification by its own budgets |
| `admission` | `MCRunAdmission` | `AbandonedStaysUnstarted` `RecordIsConfirmed` `AnswersAgree` `CallersReturn` `ImplementsRequest` | a retry and another job under one id, three crashes of any process, one failing write, spawn or reply: one flow at most, one answer, confirmed by the evidence, and no caller waits forever |
| `evidence` | `MCEvidencePublication` | `DigestsHold` `ControlIsBacked` `RecoverySucceeds` `PriorIsKept` | publications one in place of the other, a replacement of the tail and a validation, with crashes and failures at every file operation, on builds with and without an atomic exchange |
| `browser` | `MCOwnedBrowser` | `CaptureIsOnePage` `DispatchedOnce` `NotPerformedIsSafe` `ClosedMeansGone` `SettledAfterInput` `EverythingReturns` | launch, one operation of every kind and close, while the page changes, loads and opens windows, the journal forgets, deadlines pass, input is cancelled, and Chrome rejects, hangs or dies; a capture is of one document, and of one state of it but for the documents of `overtaken_watch` |
| `judged_run` | `MCJudgedRun` | `EndIsJustified` `DispatchHitsTheJudged` `OneModel` `AttestedAsSeen` `AnswersComeInTime` `JudgedRunEnds` | observation, answer, input and verification on a page that changes between them, with partial captures and late, malformed or foreign answers: inputs hit what was judged, a pass is justified, the run comes to rest; and jobs that must be refused never run |
| `orphaned_resume`, `cancelled_result`, `journal_cleared` | `MCHostedRun` | `AcceptedIsAnswered`, `CancellationIsExplained`, `CrashWindowIsHonest` | each ends with a counterexample, see Findings |
| `cut_number` | `MCJudgedRun` | `EndIsJustified` | on a page whose text is cut within a number it ends with a counterexample, see Findings |
| `overtaken_watch` | `MCOwnedBrowser` | `CaptureIsUnchanged` | what `CaptureIsOnePage` excepts: a navigation between the start of the watch and the fence ends in a capture of two states of a document, see Findings |

Each module states a `TypeOK`; the proofs establish it for `HostedRun`, `StepDriver`, `RunAdmission`,
`EvidencePublication` and `OwnedBrowser`, and it can be added to any configuration as an INVARIANT. Deadlock is checked except in `admission`, `browser` and `judged_run`, where
the system really stops: all callers returned, the browser is closed, the run is paused or ended.
`CallersReturn`, `EverythingReturns` and `JudgedRunEnds` take its place there. `Quiescent`, `Finished` and
`Settled` are the stutters of the others.

**Bounds, hosted run.** One request that is sent, abandoned and sent again, and two escalations, so that a
disposition may arrive after its own escalation is over; in `crashes` a queue of two holds a duplicate behind an
original. More requests than one would contend for an escalation: the theorems about dispositions and the refinement
hold for every set of them (below), and TLC explored two requests over two escalations without crashes once by
hand (914 thousand states, no violation). One step covers the index before, at and after the last step
(verification). In `run_ends` the lifetime is two ticks and the pause timeout one, so that the pause deadline can
elapse alone; in `crashes` both are one, so that they coincide (`crashes` with a lifetime of two has 2.5 million
states and was run once by hand, with no violation). One crash of the host and one failed write reach every window
between two steps; the code never restarts a host. Watchdog and status client crash twice between them in `crashes`,
once in `run_ends`.

**Bounds, driver.** One candidate of each kind, because kinds differ in keys and charges and two of a kind
interact only through the budgets; two views, so that a key may or may not depend on the page; two steps,
because press keys and limits are per step and other keys per run; a limit of two in the first step and one in
the second, which also has the forced debug stop. Two actions, four model calls and two fallbacks (eight in
the code) reach every budget at its limit with something left to be refused.

**Bounds, the others.** *Admission:* the second caller with the same job is the retry, the third the conflict,
blocked at admission when it comes first; three crashes kill a caller, its watchdog and its host. *Evidence:* three bundles,
so that a bundle replaces one that replaced another; two crashes (the host, then the watchdog) and two faults.
*Browser:* a window of three events forgets within one operation; one operation per session, two capture attempts
(three in the code), two polls, and two surprises: moves of the page, failures, cancellations. Two moves are what
the exception of `CaptureIsOnePage` takes, one to commit a document and one to change it. Larger instances were explored
once by hand without liveness, with moves and failures bounded apart: two moves and one failure with all operations
(4.2 million states), two operations (5.2), with no violation. *Judged run:* a job with a structured condition, a colour and a claim, and one of
absences; three model calls, two actions, one mutation per step, one fallback, two attempts within a logical
deadline of two ticks and an active timeout of three; nine pages; one move (two without liveness: 800 thousand
states, no violation). 22 jobs that differ from these in one place are refused or blocked, and an assumption of
`MCJudgedRun` says which, and which records are no jobs.

**Fairness.** `FairWatchdog` (clock and watchdog): the watchdog's loops sleep for bounded times and its waits
are bounded. Nothing is assumed of the host for `EventuallyTerminal`. `FairHost` (flow, socket and monitor threads):
browser calls, model calls and writes have timeouts, the socket serves one connection at a time and polls.
Fairness is per thread, not per action: a fair thread may choose any of its outcomes, so `run_ends` does not
assume that an escalation is answered or a step completes. `FairStatus`: somebody asks for the status of a run
that lost both its processes; nothing else in the system would publish it. `DrivenSpec` of `StepDriver`: the
driver's iterations and settlements go on, because observations, dispatches and model calls time out. It
assumes nothing of callers, terminations or the active timeout, which might end the run earlier. No action of
the driver leaves all variables unchanged, so that a loop without progress would be seen. In `HostedRun`
`FairClock`, `FairHost` and `FairStatus` are hypotheses of the properties that need them, so that the run
shows what each end depends on. `RunAdmission!FairSpec`: each caller, watchdog and host makes steps while it
lives; their waits poll with deadlines. `OwnedBrowser!FairSpec`: the calling thread, the worker and the
deadlines go on, and a Chrome that does not hang handles what is on its socket. `JudgedRun!FairSpec`: time, the
client and the driver go on; the provider need not answer, the page need not settle, no caller need come.

## What is proved

`HostedRunProofs` proves, for every number of requests, escalations, steps, ticks, crashes and failed writes
that satisfies the ASSUMEs of `RunStore`:

* `TypeCorrect`: `Spec => []TypeOK`.
* `CoherentAlways`: `Spec => []Coherent`, the inductive invariant.
* `HostLossIsReal`: `Spec => []LossOnlyAfterDeath`.
* `RecordsAgreeAlways`: `Spec => []RecordsAgree`.
* `ResultsAreFinal`: `Spec => TerminalIsFinal`.
* `SequencesShowChanges`: `Spec => SequenceShowsChange`.

The argument. None of the properties is inductive. That a loss is only published of a dead host needs
`LockIsOwned` (the run lock says which process may write). That a terminal result is final needs three more
facts: the host's memory is never behind the file (`MemoryLeads`), what it publishes is its own and of the
kind its next step expects (`DraftIsPublished`), and once the file is terminal a live host can only repeat it
(`EndIsRepeated`). `AdmissionIsServed` is there because an admission writes the memory to the file from the
socket thread: it must still be of a paused run, so it cannot undo a terminal checkpoint. `IndexIsCurrent`
keeps the step index in its type when dispositions and checkpoints both advance it. `TypeOK /\ Coherent` is
preserved by every action (lemmas `TypeStep` and `CoherentStep`, one step per action); the two action
properties follow from it with `ControlStep`, which lists what an action can do to the control file. The run
`crashes` checks `Coherent` on a small instance; TLC checked `ResumeInv`, below, on its bounds and with two requests
before it was proved.

`HostedResumeProofs` adds `ResumeInv` to that, for the same constants, and proves:

* `TakenIsAlwaysAnswered`: `Spec => []TakenIsAnswered`.
* `AnswersAreAlwaysFaithful`: `Spec => []AnswersAreFaithful`.
* `ResumesAreFinal`: `Spec => ResumeIsFinal`.
* `PauseIsAlwaysBounded`: `Spec => [](NoWriteFailed => PauseIsBounded)`.
* `CrashWindowIsAlwaysHonest`: `Spec => [](NoWriteFailed => CrashWindowIsHonest)`.
* `OnlyClearingEverForgets`: `Spec => []OnlyClearingForgets`, which is what `CrashWindowIsHonest` becomes with failed
  writes.
* `AnsweredPausesAreUnbounded`: `Spec => []AnsweredPauseIsUnbounded`, the direction of `PauseIsBounded` that failed
  writes leave intact.
* `RunImplementsLifecycle`: `Spec /\ []NoWriteFailed => ImplementsLifecycle`.

The argument follows a disposition from the caller's record to its answer. `InboxFits`: a queued connection carries
the escalation that its request recorded, and of the connections of one request only the last can have a client that
waits, which is why a retry and the original it duplicates are never told different things. `AcceptedFits`: what an
escalation consumed is not refused. `PendingFits` and `AwaitingFits`: it then waits to be taken, and is taken and
waits for its checkpoint, whose first attempt may have recorded the answer already. `TakenFits`: the flow does not
wait, finish or return before. `DrivenOnAnswered` and `DraftFits` connect this to what is published: a flow that
goes on from a pause was answered, and an escalation that is about to be published was not. `AdmissionFits` says
that the socket thread still may admit what it is persisting when it applies it, since it holds the publication
mutex in between. The file enters with `MemoryShown` and `DispatchShown`: outside a publication it shows what is in
memory, and the journal shows an input before it is dispatched and until its fact is written. `DispatchTraced` and
`SuspensionKept` say what is left of that after a failed write: an input without its fact stays in the journal until
a flow that is `Stopping` clears it, and such a flow never drives the machine again; an answered pause has no deadline
in the file, nor in memory, but for the moment between the flow setting the deadline of a fresh escalation and
publishing it, when nothing can be admitted.

`NoWriteFailed` (`faults = 0`: no durable write has failed so far; crashes, duplicated and abandoned requests are all
allowed) is a hypothesis because the code needs it, not the proof. After a failed admission the deadline in memory
is gone while the run is still paused (`host.rs:629`); a fact that could not be appended leaves an entry that the
terminal stop clears (the finding `journal_cleared`); and a checkpoint that fails before it is durable, followed by
an admission that persists the same memory, publishes a pause together with its disposition, which `RunLifecycle`
has no step for. TLC shows each of the three within the bounds of `crashes`. The first three theorems and the two on
`OnlyClearingForgets` and `AnsweredPauseIsUnbounded` hold with failed writes too.

The refinement (`LifecycleStep`) goes by the processes: a checkpoint is a `Run`, a `Pause` or an `End`
(`PublishRefines`), an admission an `Accept` (`AcceptRefines`), the record of a result or of a stale answer an
`Answer` (`AnswerRefines`), a reconciliation an `End` (`LossRefines`), and every other step leaves the published
control, `consumed` and the answers alone.

`RunAdmissionProofs` proves, for any number of callers, jobs, crashes and faults (`CallersAssumption`,
`JobsAssumption`, `BoundsAssumption`):

* `AdmissionInvariant`: `Spec => []AdmissionInv`, the inductive invariant; `AdmissionTypeCorrect`: `Spec => []TypeOK`.
* `AbandonedNeverStarts`: `Spec => []AbandonedStaysUnstarted`.
* `RecordIsAlwaysConfirmed`: `Spec => []RecordIsConfirmed`.
* `AnswersAlwaysAgree`: `Spec => []AnswersAgree`.
* `AdmissionImplementsRequest`: `Spec => ImplementsRequest`.

The argument. A request id has one run, from the first record on (`OneRun`), so that all that is left to say is about
`TheRun`. Two locks order the rest. `RequestLockInv`: a caller is past the lookup only while it holds the request
lock, so what it read of the records is current. The run lock is passed from the creator to the watchdog to the host
and taken by whoever gives the run up: `RunLockOK` and `KnowsOK` say that who abandons or reconciles did so while
nobody was left to start it, which a `seen` control alone would not show, since it was read before. `BootstrapOK`
has the processes in their order, `ControlOK` what each control says of them and of the evidence, `RecordOK` the
order in which the result goes to the evidence, the run's record and the index. `ToldOK` keeps what callers were
told true of a control that no later step changes. Each of these needs the others: the record is confirmed because
the evidence is sealed, which is final because the control is, which is because only holders of the run lock write
it. TLC checked `AdmissionInv` on the bounds of `admission` (153,530 states) before it was proved.

`EvidencePublicationProofs` proves, on builds with and without an atomic exchange, for any number of bundles, crashes
and faults (`BoundsAssumption`):

* `PublicationTypeCorrect`: `Spec => []TypeOK`.
* `DigestsAlwaysHold`: `Spec => []DigestsHold`.
* `ControlIsAlwaysBacked`: `Spec => []ControlIsBacked`.
* `RecoveryAlwaysSucceeds`: `Spec => []RecoverySucceeds`.
* `PriorIsAlwaysKept`: `Spec => []PriorIsKept`.

The argument. `HostInv` says at each step of an exchange which of the three directories holds the bundle of the
control (`Current`) and which the next one (`Successor`), `WatchdogInv` that the tail it replaces is marked incomplete
until its digests are written again, and `ControlInv` that host and watchdog never write at the same time. From
these, `EvidenceKept`: what the control told of is in the final directory or, on a portable build only, aside. A crash
needs no case of its own beyond that: what it must leave behind is stated for every step. `ReaderInv` carries what a
validation has already seen, as the directory may be replaced between two of its reads.

`StepDriverProofs` proves, for every set of candidates and views, every job and every budget that satisfies
`LedgerAssumption` and `DriverAssumption` (kinds of candidates are disjoint, a job has a step):

* `DriverInvariant`: `Spec => []Inv`, the inductive invariant.
* `DriverTypeCorrect`: `Spec => []TypeOK`; the ledger's counters are typed by their budgets.
* `NothingIsRepeated`: `Spec => []NeverRepeated`.
* `NoPressAfterAnUncertainOne`: `Spec => []UncertainPressIsLast`.
* `MutationCountsAgree`: `Spec => []CountsAgree`.
* `ScrollsAreTheDrivers`: `Spec => []CallerNeverScrolls`.

The argument. The history is tied to the ledger by `KeysHeld` (the key of everything that happened or may have
is in the replay set, and a permit's key is new), `OrdinalsGrow` (no key has an ordinal beyond the counter of
its base; an observed one has exactly the counter, so the scroll cannot be minted again) and `PressesHeld` (an
uncertain press of the current step is unsettled, and no press of its key on its focus is on its way).
`ChargesAgree` extends `CountsAgree` over a dispatch: the permit in flight is charged and not yet counted.
`NoScrollOffered` says what escalations offer. Lemmas on the ledger's operators (`MintKeeps`,
`UnusedIsRefunded`, `ReleaseKeeps`, ...) say what each charges and returns. The steps then fall into three
forms: those that only spend budget (`SpendingKeepsInv`, `PassingKeepsInv`), dispatches (`DispatchKeepsInv`) and
settlements that add a deed (`HappenedKeepsHistory`); `DriveKeepsInv`, `SettleKeepsInv` and
`DispositionKeepsInv` have one step per action.

It also proves `BudgetsAlwaysHold`: `Spec => []BudgetsHold`. `BudgetInv` relates the cardinality of the
history to what the ledger was charged: the deeds and the permit in flight are no more than `ledger.actions`, the
mutations of the current step and the charge in flight no more than `ledger.stepMutations`, which is at most the
step's limit. It is kept on top of `Inv`, by form: a step of the run spends nothing of these counters, passes to a
step that has no deed yet, mints within `ContextLeft`, or settles; a settlement adds one deed or refunds the charge
of one that was proven not to have happened, never both.

`JudgedRunProofs` proves, for all pages, jobs, models, delays and deadlines that satisfy the ASSUMEs of `JudgedRun`:

* `PassesAreJustified`: `CutsBetweenWords => (Spec => []EndIsJustified)`. A run that passed did so on a step whose
  condition held on a capture (`passedOn`), and on a last capture that satisfies every expectation or on verdicts
  about the very page they were weighed on (`JustInv`), and what a capture satisfies is not false of the page
  (`ConditionsHold`): a presence is on the page because a capture invents nothing, an absence because the inventory
  was complete. `NumberHolds` is the same of the numbers in a claim, and where the hypothesis is needed: a cut
  within a word can turn 124 into 12, the finding `cut_number`. `ErrorInv` says for which reasons a call fails, so
  that a failure never counts as a verdict.
* `CallersVouchForWhatTheySaw`: `Spec => []AttestedAsSeen`. The escalation keeps its observation while the run is
  paused, and an attestation is compared with it condition by condition.
* `RunRestsOnOneModel`: `Spec => []OneModel`. `PinnedInv` says that the models used are at most the pinned one; the
  flow and the caller never touch the pin (`FlowPinsNothing`), and an answer that is used pins it or agrees with it
  (`AnswersArePinned`), across retries, logical calls and resumptions.
* `InputsHitTheJudged`: `Spec => []DispatchHitsTheJudged`. The model's choice is prepared on the observation it was
  asked about (`OwnInputAims`), a caller's is found again by document and node (`CallersInputAims`). The argument
  needs that an observation counts its elements, so that an index names one, and that a hover region is known by the
  first control it reveals: `ObservationAssumption`, as `manuvra-chrome/src/snapshot.js` builds them (428, 518).
* `LateAnswersAreNotUsed`: `Spec => AnswersComeInTime`. `DeadlineInv` keeps an attempt within its evaluation and the
  evaluation within the client's deadline and the run's active time.

`OwnedBrowserProofs` and, on top of it, `BrowserOperationProofs` prove, for every window of the journal, every set of
kinds of input in use, and every number of operations, capture attempts, polls and surprises
(`WindowAssumption`, `SessionAssumption`, `OperationsAssumption`):

* `ClosedBrowsersAreGone`: `Spec => []ClosedMeansGone`.
* `SessionsAreTyped`: `Spec => []TypeOK`.
* `NoNavigationIsMissed`: `Spec => SettledAfterInput`.
* `InputReachesThePageOnce`: `Spec => []DispatchedOnce`.
* `WhatIsNotPerformedIsSafe`: `Spec => []NotPerformedIsSafe`.
* `ACaptureShowsOnePage`: `Spec => []CaptureIsOnePage`. Every capture is of one document, with the masks of its own
  attempt, one appearance where that is fenced, and every popup (`IsOneDocument`). It is of one state of the document
  (`IsOneState`) except where the document was committed after the watch had read the one before it and was recorded
  before the fence (`renewed`, set from `Overtaken`): nothing is claimed of the changes of such a document, and
  `overtaken_watch` shows that nothing could be.

The argument goes from the process to the page, each layer resting on those before it:

* *The life* (`BrowserInv`). `LifeInv`: a termination that is done has waited for the process (`reaped`), it signals
  only one that was not waited for, and a life that is over has none left. `SetupInv`: only a launch can be in its
  set-up, so that an operation that fails cannot put an ended life back.
* *The connection and the journal* (`BaseInv`). `JournalInv`: what the journal keeps is numbered without a gap up to
  its cursor, and the latest event of a kind is among it unless it was dropped. `ChannelInv`: requests are in the order
  they were issued from the socket to the queue; once Chrome has answered the latest, none is in flight, and a caller
  that is told its request was not sent has none. `NoNavigationIsMissed` follows: if nothing after the fence was
  dropped and no navigation is kept, none arrived. `WireInv` adds for `TypeOK` that the journal is within its bound
  and that no command is open while the caller only waits for time to pass.
* *The stages* (`StageInv`). The request in flight for the latest call is the one of the phase and the place the
  operation is at, and an operation is only in progress in a browser that is set up or runs.
* *Input* (`RefusalInv`, `InputsInFlight`, `InputsHandled`, `InputInv`). A request of input that is still in flight
  when its caller is gone belongs to an operation reported uncertain, comes after all that the page took of that
  operation, and is the only one of it (`RequestOK`). An answer that arrives tells the truth about the step it answers
  (`AnswerOK`): refused and rejected steps, and those without a target, were not taken. Text is entered a second time
  only when every earlier attempt left it as it was, which the text read back shows. `DispatchedOnce` by itself is not
  inductive, since it speaks of operations that are over: the damage would be done by what they left behind.
* *Captures* (`CaptureGroup`). Events and answers come in one order, by their places in the journal and on the socket.
  A change is `Heard` before a place if it was recorded after the fence or comes earlier on the socket. `WatchInv`:
  behind the fence the page is watched, or the attempt is an exception, or a change was signalled; and the document
  has the masks that were placed, whether it is watched or not (`MasksPlaced`, `Covers`), since another document is an
  event of its own. `ObserveInv`, `ShotInv` and
  `MatchInv` say of an answer at any place that what it shows agrees with what was seen before, or that a change was
  signalled between (`Carries`); `StableInv` that the attempt which is judged stable shows one page. A step either
  changes nothing of this or signals that it does (`Steady`). The journal may forget: a fence that lies in what
  was dropped makes the attempt count as changed. `PopupInv`: a window that was opened is known, also when its event
  was dropped.

TLC checked each of these invariants on the bounds of `browser` (447,135 states) before it was proved. The filter
over the journal, `Since`, is stated as a set of the events kept, and the histories of input by positions: what counts
or selects along a sequence would need an induction over data.

**Only model-checked.** Every safety property of a passing run is proved, so that only the liveness properties remain,
because fairness and ENABLED are out of the prover's reach: `EventuallyTerminal`, `AbortOrLossEndsRun`, `DriveEnds`,
`CallersReturn`, `EverythingReturns`, `JudgedRunEnds`. What a recursive definition computes cannot be proved for every
input either; the modules with theorems have none of their own. Two of the theorems about hosted runs
(`PauseIsAlwaysBounded`, `CrashWindowIsAlwaysHonest`), the refinement of `RunLifecycle` and `PassesAreJustified` have a
hypothesis, because the code needs it: without it TLC shows the counterexamples named above. `ACaptureShowsOnePage` has
the exception that is part of `CaptureIsOnePage`, for the same reason.

## Findings

Five places where a document, a comment or a test promises more than the code does; each is a run that TLC ends with a
counterexample.

* `orphaned_resume` (`host.rs:598`): a disposition admitted between the flow's look at the termination and its
  terminal checkpoint is acknowledged and never answered: the host finishes in order, and the request record
  stays an intent. The repository's README promises that repeating a request id recovers its response.
* `cancelled_result` (`step_driver.rs:89`): a deadline notice cancels input for good. If a disposition is
  admitted at the same instant, the deadline is gone but the cancellation is not, and the run is published as
  `blocked` for `run_cancelled`, which the comment there rules out.
* `journal_cleared` (`hosted.rs:325`): an active termination clears the action journal before its checkpoint is
  durable. After a failed append of a fact, a crash in that window makes the reconciler report that no action
  was in flight, although an input was dispatched. It is the only such window:
  `OnlyClearingEverForgets`.
* `cut_number` (`verification.rs:743`): the end of the captured text counts as the end of a number, and a natural
  verdict does not look at the coverage. Where the capture cut the text at its limit within 124, a page that shows
  124 satisfies a claim of 12. The tests there (1019) say that a number which is part of a longer one is not there.
* `overtaken_watch` (`owned.rs:344`): `capture_once` starts to watch the page (`DOM.getDocument`) and then takes the
  fence, in two steps. A navigation that commits and loads between them lies before the fence, and its document is not
  watched, so that what changes in it afterwards is not noticed: the capture that is returned has masks and an
  observation of one state and the screenshot of another. The comments there have it that both are of "one
  unchanged page" (319) and that a secret that moves before the screenshot "invalidates the attempt instead of
  escaping its mask" (336).

Other differences met while modelling. The properties are stated so that they say what the code does:

* A step's attestation that is refused as `relevant_state_changed` reissues the escalation with the earlier
  observation as its basis, but the payload the caller reads shows the latest one (`disposition.rs:203`,
  `escalation.rs:158`).
* The per-key fallback of `type_text` validates its target again after `insertText` was dispatched without effect
  (`input.rs:516`); a rejection there is reported as not performed. `NotPerformedIsSafe` therefore admits
  dispatched input that changed nothing.
* `wait_for_document` does not look at `frameStartedLoading`; `SettledAfterInput` speaks of what is awaited.
* A numeric literal that is missing is `not_satisfied` even when the captured text was truncated. A literal that is
  followed by a full stop or in a range ("5.", "1-2") is never present. A mask token `<value:NAME>` puts the
  digits of `NAME` into a claim.
* The default timeouts must fit a shorter lifetime, or the job is invalid (`manuvra-contract/src/lib.rs:628`):
  a lifetime below five minutes needs an explicit pause timeout.
* A recheck that ends satisfied leaves `caller_assisted` false; the tests say so.
* A resume record with a terminal result that was written right before the host died is later contradicted by the
  loss the watchdog publishes, since the control write comes after the record.

## What is not modelled

* Redaction, rendering and the text of results; parsing and the JSON schema; Unicode normalization and
  tokenization, which are abstracted to renderings and sets of words.
* Permission, ownership and symlink checks of the store, keyed digests of requests and the authentication and
  framing of the socket; the Ready and Status requests after the bootstrap.
* How an observation is computed inside the page (`manuvra-chrome/src/{observation.rs,*.js}`) and the HTTP of the
  discovery endpoint. Observations are inputs of `PageFacts`, commands with an outcome in `OwnedBrowser`.
* Process groups and the macOS sibling process: a signal is one step that ends the browser. The error paths of
  `terminate` (a signal or a wait that the system refuses) are left out too.
* The byte limit of the event journal as a sum: an event may exceed it on its own (`Large`) and drop everything with
  it, several smaller ones that exceed it together are the count limit's case.
* Deadlocks from the order in which `Control`'s mutexes are taken (`host.rs:67`): a critical section is one action.
  `AbortOrLossEndsRun` covers threads that wait for each other's progress.
* Several steps, the remembered permits and natural step conditions in `JudgedRun`; they are in `StepDriver`,
  which has no page.
* Stored records that were damaged from outside: validation refuses them, but no process of the model writes one.
* `manuvra-cli/src/host/fault_fixture.rs` (compiled for tests only) and `tools/crap-gate` (a metrics tool).

Two hazards are not covered by the properties of the runs alone: of the in-memory pause deadline after a failed
admission (`host.rs:629`) only one direction is (`AnsweredPauseIsUnbounded`), since an unanswered pause does lose its
deadline there; and the unreachable stop of an uncertain scroll (`stops.rs:160`) is proved instead
(`ScrollsAreTheDrivers`). `PROJECT.json` says for each why. A disposition that is admitted while the watchdog decides on an older control
(`watchdog.rs:201`) does not save its run: the host is killed at the end of its grace. The model has this, the
properties allow it, and no document promises more.

## Plan

The modules above are done, and so are the proofs of all their safety properties and of both refinements. What is left:

1. Several steps and natural conditions in `JudgedRun`; the Status request in `RunHost`.
