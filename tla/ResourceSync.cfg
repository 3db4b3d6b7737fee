SPECIFICATION SyncSpec
CONSTANTS
  MaxDirs = 2
  MaxEdits = 1
  BatchMax = 1
  BroadcastCap = 5
INVARIANTS
  StaleHasNews
PROPERTIES
  ResourcesFollowCalm
  DropEndsTasks
