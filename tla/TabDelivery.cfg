\* One change of the boards with three log lines and an error, or three changes of up to three
\* boards.  A lost socket, any number of reports.
SPECIFICATION FairSpec
CONSTANTS
  QueueSize = 6
  HistoryLines = 2
  PageLines = 3
  StateWindow = 1
  WireSize = 1
  MaxBoards = 3
  MaxCursor = 1
  Workloads <- MCWorkloads
  MaxLosses = 1
INVARIANTS
  TypeOK
  LogIsWhole
  PageIsLed
  ErrorsArrive
PROPERTIES
  Paced
  CatchesUp
\* the session's steps are bounded
CHECK_DEADLOCK FALSE
