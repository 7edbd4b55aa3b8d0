SPECIFICATION FairSpec
CONSTANTS
  Sources = {"local", "virtual", "file"}
INVARIANTS
  TypeOK
  DriverInUse
  FailureIsReported
  EnvScanRestores
PROPERTIES
  Opens
  Closes
  EnvScanEnds
  NoDataReported
