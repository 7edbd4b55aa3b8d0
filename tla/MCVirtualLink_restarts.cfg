CONSTANTS
  Bounds = {"server", "node"}
  MaxSessions = 2
  MaxSwitches = 2
SPECIFICATION FairSpec
INVARIANTS
  TypeOK
  AskedOrKnown
PROPERTIES
  TypeLearned
  EnvFollows
CHECK_DEADLOCK FALSE
