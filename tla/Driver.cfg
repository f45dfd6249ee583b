SPECIFICATION DrivenSpec
CONSTANTS
  Inputs = {click}
  Presses = {press}
  Scrolls = {scroll}
  Hovers = {hover}
  Views = {v1, v2}
  NoView = NoView
  NoCandidate = NoCandidate
  NoPermit = NoPermit
  NoPending = NoPending
  Steps <- TwoSteps
  MaxActions = 2
  MaxModelCalls = 4
  MaxFallbacks = 2
INVARIANTS NeverRepeated UncertainPressIsLast BudgetsHold
PROPERTIES DriveEnds
