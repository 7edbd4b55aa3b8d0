SPECIFICATION Spec
CONSTANTS
  NodesPerPacket = 2
  Capacity = 1
  FailureLimit = 2
  ResetOnConnect = FALSE
  Totals = {2, 3}
  Garbage = {0}
  Lossy = TRUE
  Duplication = FALSE
  MaxSessions = 2
  MaxSeqNr = 3
  MaxInFlight = 2
  MaxConnects = 1
  MaxReboots = 1
  NoFrame = NoFrame
INVARIANTS
  Ascending
PROPERTIES
  LinkSpec
CHECK_DEADLOCK FALSE
