SPECIFICATION SessionSpec
CONSTANTS
  Clients <- MCClients
  Impatient <- MCImpatient
  QueueLimit = 1
  MaxChanges = 3
  MaxJoins = 2
  MaxInFlight = 2
INVARIANT SessionTypeOK
PROPERTIES
  ActsOnWhatItSees
  CatchesUp
CHECK_DEADLOCK FALSE
