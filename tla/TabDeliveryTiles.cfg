SPECIFICATION Spec
CONSTANTS
  QueueSize = 6
  HistoryLines = 2
  PageLines = 3
  StateWindow = 1
  WireSize = 1
  MaxBoards = 2
  MaxCursor = 1
  Workloads <- MCTwoChanges
  MaxLosses = 0
INVARIANTS
  TilesAreShown
\* the session's steps are bounded
CHECK_DEADLOCK FALSE
