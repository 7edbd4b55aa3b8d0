CONSTANTS
  Backends = {"file"}
  MaxFrames = 5
  MaxStarts = 4
SPECIFICATION Spec
INVARIANTS
  TypeOK
  FramesAscend
  NothingLost
PROPERTIES LogSpec
CHECK_DEADLOCK FALSE
