CONSTANTS
  Ids = {1, 2, 3}
  Regions = {1}
  Modes <- AllModes
  Commands = {"restart", "clear"}
  MinGap = 3
  Steps = {1, 2}
  Setups <- AllSetups
  Garbage = {0, 1}
  Unknown = Unknown
SPECIFICATION FairSpec
INVARIANTS TypeOK ViewCurrent CountFollows StopEmpties
PROPERTIES EventuallyShown
