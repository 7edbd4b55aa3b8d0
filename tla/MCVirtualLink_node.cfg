CONSTANTS
  Bounds = {"node"}
  MaxSessions = 2
  MaxSwitches = 0
SPECIFICATION FairSpec
PROPERTIES
  ScansArrive
CHECK_DEADLOCK FALSE
