SPECIFICATION Spec
CONSTANTS
  NumPlayers = 3
  Kinds <- MCKinds
  Triggers <- MCTriggers
  Phases <- MCPhases
  MaxEvents = 5
  SizeCheckInterval = 2
INVARIANTS
  TypeOK
  WindowAwaitsAnswer
  RoundNotComplete
  DecidedIsOver
  EventBudget
PROPERTIES
  ClaimsSettledFairly
  SubmissionsKept
  FinishedIsFinal
  ImplementsTurnOrder
CHECK_DEADLOCK FALSE
