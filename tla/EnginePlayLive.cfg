\* Self-play to the move limit or two passes, with users who never stop navigating.
SPECIFICATION FairSpec
CONSTANTS
  MAX_BOARDS = 1
  Points = {"stone", "pass"}
  Sides = {"B", "W"}
  Scenarios <- MCSelfPlay
PROPERTIES
  CommandsEnd
\* a closed session stops
CHECK_DEADLOCK FALSE
