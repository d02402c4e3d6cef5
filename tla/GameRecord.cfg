SPECIFICATION Spec
CONSTANTS
  Size = 3
  MAX_MOVES = 3
  RuleSets <- MCRules
  Setups <- MCSetups
INVARIANTS
  IndexIsExact
  LineIsLegal
  StonesAddUp
