SPECIFICATION FairSpec
CONSTANTS
  Pages <- MCPages
  Becomes <- MCBecomes
  Jobs <- MCJobs
  Renderings <- MCRenderings
  Values = {"Pro"}
  NoneFits = "NONE_FITS"
  Keys = {"Enter"}
  Nothing = "nothing"
  NoPage = NoPage
  NoPending = NoPending
  Models = {"jev-1", "jev-2"}
  Unpinned = "none"
  RetryDelays = {2}
  BACKOFF = 0
  ATTEMPT_TIMEOUT = 1
  LOGICAL_TIMEOUT = 2
  MaxTime = 3
  MAX_FALLBACKS = 1
  MaxMoves = 1
INVARIANTS EndIsJustified DispatchHitsTheJudged OneModel
PROPERTIES AttestedAsSeen AnswersComeInTime JudgedRunEnds
CHECK_DEADLOCK FALSE
