SPECIFICATION Spec
CONSTANTS
  UserKey = {1, 2, 3}
  NumLevels = 3
  MaxMemCompactLevel = 1
  LevelLimit <- ThreeLimits
  MaxFileSize = 3
  MaxOverlap = 4
  ExpandedLimit = 6
  Thread = {t1}
  Reader = {}
  Handle = {}
  Batch <- Singles
  None = None
  WriteBufferSize = 0
  GroupLimit = 2
  L0StopWritesTrigger = 3
  Ranges <- FirstToThird
  MaxSeq = 4
  Budget <- CrashAndManual
  TotalBudget = 2
INVARIANT LevelsDisjointUnlessFailed
CHECK_DEADLOCK FALSE
