\* Three engine clients, each with the engine it talks to; a behaviour is of one of them.
SPECIFICATION FairSpec
CONSTANTS
  Behaviours <- MCBehaviours
  Keys <- MCKeys
  Positions <- MCPositions
  Vertices <- MCVertices
  Skills <- MCSkills
  Attempts = 2
  MaxUndo = 1
  QueueLines = 1
  MaxGame = 2
  Tokens <- MCTokens
  QueryIds <- MCIds
  MaxAnswers = 1
INVARIANTS
  TypeOK
  MirrorIsTrue
  LeavingIsFinal
PROPERTIES
  AnswersAreOwn
  CallsEnd
  LossReported
\* a closed client stops
CHECK_DEADLOCK FALSE
