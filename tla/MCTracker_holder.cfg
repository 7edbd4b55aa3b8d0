CONSTANTS
  KeepTime = 2
  MinActiveTime = 1
  DropTime = 1
  LatentLifeTime = 2
  LatentIds = TRUE
  OpenOnStart = TRUE
  Steps = {1, 2}
  AgeCap = 3
  MaxTracks = 3
  MaxObjects = 2
  MaxPairs = 3
  MaxId = 3
  NoFrame = NoFrame
SPECIFICATION Spec
INVARIANTS OneHolder
