SPECIFICATION BoardSpec
CONSTANTS
  Defs <- MCDefs
  Points <- MCPoints
  MaxComponents = 3
INVARIANTS
  BoardTypeOK
  NothingTwice
  StackWithinLimit
  LegalMovesCarriedOut
  DecidedByMover
PROPERTIES
  FogFollowsMover
CHECK_DEADLOCK FALSE
