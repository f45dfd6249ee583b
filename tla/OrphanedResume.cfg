SPECIFICATION Spec
CONSTANTS
  NoRequest = NoRequest
  Requests = {r1}
  MaxEscalations = 1
  Steps = 1
  PauseTimeout = 1
  Lifetime = 2
  InboxBound = 1
  MaxHostCrashes = 0
  MaxWatchdogCrashes = 0
  MaxFaults = 0
INVARIANTS AcceptedIsAnswered
