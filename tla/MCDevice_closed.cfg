SPECIFICATION FairSpec
CONSTANTS
  Sources = {"virtual"}
PROPERTIES
  ClosedReported
