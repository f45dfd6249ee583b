SPECIFICATION FairSpec
CONSTANTS
  NoRequest = NoRequest
  Requests = {r1}
  MaxEscalations = 2
  Steps = 1
  PauseTimeout = 1
  Lifetime = 2
  InboxBound = 1
  MaxHostCrashes = 1
  MaxWatchdogCrashes = 1
  MaxFaults = 0
INVARIANTS PauseIsBounded CrashWindowIsHonest
PROPERTIES ImplementsLifecycle EventuallyTerminal AbortOrLossEndsRun
