SPECIFICATION SessionSpec
CONSTANTS
  Clients <- MCClients
  Impatient = {}
  QueueLimit = 1
  MaxChanges = 3
  MaxJoins = 2
  MaxInFlight = 1
INVARIANT MayTryAgain
CHECK_DEADLOCK FALSE
