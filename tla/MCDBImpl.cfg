SPECIFICATION Spec
CONSTANTS
  UserKey = {1, 2}
  NumLevels = 3
  MaxMemCompactLevel = 1
  LevelLimit <- Limits
  MaxFileSize = 3
  MaxOverlap = 4
  ExpandedLimit = 6
  Thread = {t1, t2}
  Reader = {r1}
  Handle = {h1}
  Batch <- Overwrites
  None = None
  WriteBufferSize = 0
  GroupLimit = 2
  L0StopWritesTrigger = 2
  Ranges <- FirstKey
  MaxSeq = 3
  Budget <- NoAppend
  TotalBudget = 2
INVARIANTS TypeOK ReadsAreRight Durable ManifestIsBacked LevelsStayDisjoint NewerAbove WorkIsScheduled
CHECK_DEADLOCK FALSE
SYMMETRY Symmetry
