SPECIFICATION Spec
CONSTANTS
  MAX_EVENTS = 3
  Large = {}
  MaxSurprises = 2
  Operations = {}
  CAPTURE_ATTEMPTS = 1
  MaxOps = 1
  MaxPolls = 2
INVARIANTS CaptureIsUnchanged
CHECK_DEADLOCK FALSE
