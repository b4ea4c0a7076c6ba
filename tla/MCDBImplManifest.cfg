SPECIFICATION Spec
CONSTANTS
  UserKey = {1}
  NumLevels = 3
  MaxMemCompactLevel = 1
  LevelLimit <- Limits
  MaxFileSize = 3
  MaxOverlap = 4
  ExpandedLimit = 6
  Thread = {t1}
  Reader = {}
  Handle = {}
  Batch <- Singles
  None = None
  WriteBufferSize = 0
  GroupLimit = 2
  L0StopWritesTrigger = 2
  Ranges <- FirstKey
  MaxSeq = 3
  Budget <- ManualAndManifest
  TotalBudget = 2
INVARIANT InstalledIsSaved
CHECK_DEADLOCK FALSE
