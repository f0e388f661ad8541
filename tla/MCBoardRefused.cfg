SPECIFICATION BoardSpec
CONSTANTS
  Defs <- MCDefs
  Points <- MCPoints
  MaxComponents = 3
PROPERTY RefusedChangesNothing
CHECK_DEADLOCK FALSE
