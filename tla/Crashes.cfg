SPECIFICATION Spec
CONSTANTS
  NoRequest = NoRequest
  Requests = {r1}
  MaxEscalations = 2
  Steps = 1
  PauseTimeout = 1
  Lifetime = 1
  InboxBound = 2
  MaxHostCrashes = 1
  MaxWatchdogCrashes = 2
  MaxFaults = 1
INVARIANTS LossOnlyAfterDeath RecordsAgree AnswersAreFaithful TakenIsAnswered OnlyClearingForgets AnsweredPauseIsUnbounded Coherent
PROPERTIES TerminalIsFinal SequenceShowsChange ResumeIsFinal
