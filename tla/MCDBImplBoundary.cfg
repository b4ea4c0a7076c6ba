SPECIFICATION Spec
CONSTANTS
  UserKey = {1, 2}
  NumLevels = 3
  MaxMemCompactLevel = 1
  LevelLimit <- Limits
  MaxFileSize = 1
  MaxOverlap = 4
  ExpandedLimit = 6
  Thread = {t1}
  Reader = {}
  Handle = {h1}
  Batch <- Versions
  None = None
  WriteBufferSize = 0
  GroupLimit = 2
  L0StopWritesTrigger = 2
  Ranges <- FirstOrAll
  MaxSeq = 3
  Budget <- CrashAndSnapshot
  TotalBudget = 2
INVARIANT NewerAbove
CHECK_DEADLOCK FALSE
