\* One board, games of up to two moves: ways to change the position under a move; settings
\* under a search; an engine that goes under either; a shutdown; a crash; scores of a game
\* that changes meanwhile.  Two boards, games of one move: switching, copying, resetting and
\* deleting under a move or a search.
SPECIFICATION Spec
CONSTANTS
  MAX_BOARDS = 2
  Points = {"stone"}
  Sides = {"B"}
  Scenarios <- MCScenarios
INVARIANTS
  TypeOK
  AnalysisMatches
  FiguresDescribeBoard
PROPERTIES
  StaleWorkDiscarded
\* a closed session stops
CHECK_DEADLOCK FALSE
