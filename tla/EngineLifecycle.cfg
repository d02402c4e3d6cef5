\* Safety, liveness and refinement with three generations: two attempts at once, superseded
\* ones, losses.
SPECIFICATION FairSpec
CONSTANTS
  MaxLifecycle = 3
  MAX_CONNECT_ATTEMPTS = 2
INVARIANTS
  TypeOK
  EnginesBounded
  LatestLifecycleWins
  WantHasCause
  ShutdownLeavesNothing
PROPERTIES
  OnlyLeavingDisarms
  SlotSpec
  EndsAreReached
\* a closed session stops
CHECK_DEADLOCK FALSE
