CONSTANTS
  Records = 3
  Window = 2
  MaxMoves = 1
SPECIFICATION PlayerSpec
INVARIANTS
  PlayerTypeOK
  EarlyBounded
PROPERTIES PlayedToEnd
CHECK_DEADLOCK FALSE
