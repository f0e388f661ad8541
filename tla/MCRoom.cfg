SPECIFICATION RoomSpec
CONSTANTS
  c1 = c1
  c2 = c2
  c3 = c3
  Conns <- MCTrio
  NoConn = NoConn
  NumPlayers = 2
  MaxPlayers = 2
  MaxMoves = 3
  Kinds <- MCPlaceOrPass
  Triggers <- MCTriggers
  Phases <- MCOneAtATime
  MaxEvents = 6
  SizeCheckInterval = 2
INVARIANTS
  RoomTypeOK
  WindowHasDeadline
  SubscriberIsSeated
  AllReadyMeansAll
PROPERTIES
  FreshJoinTakesFreeSeat
  PlaysByTheRules
  ArmedTimerEndsWindow
CHECK_DEADLOCK FALSE
