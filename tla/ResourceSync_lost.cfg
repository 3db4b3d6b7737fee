SPECIFICATION SyncSpec
CONSTANTS
  MaxDirs = 2
  MaxEdits = 0
  BatchMax = 1
  BroadcastCap = 4
PROPERTY ResourcesFollow
