SPECIFICATION FairSpec
CONSTANTS
  MAX_EVENTS = 3
  Large = {"changed"}
  MaxSurprises = 2
  Operations = {"click", "press_key", "hover", "type_text", "select", "set_value", "scroll", "scroll_region"}
  CAPTURE_ATTEMPTS = 2
  MaxOps = 1
  MaxPolls = 2
INVARIANTS CaptureIsOnePage DispatchedOnce NotPerformedIsSafe ClosedMeansGone
PROPERTIES SettledAfterInput EverythingReturns
CHECK_DEADLOCK FALSE
