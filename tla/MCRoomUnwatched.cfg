SPECIFICATION RoomSpec
CONSTANTS
  c1 = c1
  c2 = c2
  c3 = c3
  Conns <- MCPair
  NoConn = NoConn
  NumPlayers = 2
  MaxPlayers = 2
  MaxMoves = 3
  Kinds <- MCPlace
  Triggers <- MCTriggers
  Phases <- MCOneAtATime
  MaxEvents = 3
  SizeCheckInterval = 2
INVARIANTS
  DeadlineIsWatched
CHECK_DEADLOCK FALSE
