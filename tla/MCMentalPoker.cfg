SPECIFICATION PokerSpec
CONSTANTS
  Prime = 11
  DeckSize = 2
  NumPlayers = 2
  Keys <- MCKeys
  MaxSteps = 2
INVARIANTS
  PokerTypeOK
  DeckIsAllCards
  HonestGameVerifies
PROPERTIES
  ImplementsDealer
CHECK_DEADLOCK FALSE
