SPECIFICATION RoomSpec
CONSTANTS
  c1 = c1
  c2 = c2
  c3 = c3
  Conns <- MCPair
  NoConn = NoConn
  NumPlayers = 2
  MaxPlayers = 2
  MaxMoves = 3
  Kinds <- MCPlace
  Triggers <- MCNoTriggers
  Phases <- MCAllAtOnce
  MaxEvents = 3
  SizeCheckInterval = 2
INVARIANTS
  RoundCanGoOn
CHECK_DEADLOCK FALSE
