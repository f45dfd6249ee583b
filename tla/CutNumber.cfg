SPECIFICATION Spec
CONSTANTS
  Pages <- CutPages
  Becomes <- CutBecomes
  Jobs <- CutJobs
  Renderings <- MCRenderings
  Values = {"Pro"}
  NoneFits = "NONE_FITS"
  Keys = {"Enter"}
  Nothing = "nothing"
  NoPage = NoPage
  NoPending = NoPending
  Models = {"jev-1", "jev-2"}
  Unpinned = "none"
  RetryDelays = {2}
  BACKOFF = 0
  ATTEMPT_TIMEOUT = 1
  LOGICAL_TIMEOUT = 2
  MaxTime = 3
  MAX_FALLBACKS = 1
  MaxMoves = 1
INVARIANT EndIsJustified
CHECK_DEADLOCK FALSE
