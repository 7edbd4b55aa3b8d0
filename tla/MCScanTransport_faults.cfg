SPECIFICATION Spec
CONSTANTS
  NodesPerPacket = 2
  Capacity = 1
  FailureLimit = 2
  ResetOnConnect = TRUE
  Totals = {2, 3}
  Garbage = {3}
  Lossy = TRUE
  Duplication = TRUE
  MaxSessions = 2
  MaxSeqNr = 3
  MaxInFlight = 2
  MaxConnects = 0
  MaxReboots = 1
  NoFrame = NoFrame
INVARIANTS
  TypeOK
  CounterReadAfterSet
  DiscardsBounded
  OneNumber
  FrameIntact
  InBounds
CHECK_DEADLOCK FALSE
