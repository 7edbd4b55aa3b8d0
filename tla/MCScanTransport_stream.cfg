SPECIFICATION FairSpec
CONSTANTS
  NodesPerPacket = 2
  Capacity = 1
  FailureLimit = 2
  ResetOnConnect = TRUE
  Totals = {0, 3}
  Garbage = {0}
  Lossy = FALSE
  Duplication = FALSE
  MaxSessions = 1
  MaxSeqNr = 4
  MaxInFlight = 6
  MaxConnects = 1
  MaxReboots = 0
  NoFrame = NoFrame
PROPERTIES
  StreamSpec
  GrabbedOnce
  NewestArrives
CHECK_DEADLOCK FALSE
