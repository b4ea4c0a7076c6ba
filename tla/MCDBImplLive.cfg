SPECIFICATION FairSpec
CONSTANTS
  UserKey = {1, 2}
  NumLevels = 3
  MaxMemCompactLevel = 1
  LevelLimit <- Limits
  MaxFileSize = 3
  MaxOverlap = 4
  ExpandedLimit = 6
  Thread = {t1, t2}
  Reader = {}
  Handle = {h1}
  Batch <- Overwrites
  None = None
  WriteBufferSize = 0
  GroupLimit = 2
  L0StopWritesTrigger = 2
  Ranges <- FirstOrAll
  MaxSeq = 3
  Budget <- Each
  TotalBudget = 1
CHECK_DEADLOCK FALSE
PROPERTIES ImplementsStore WritesReturn MemTableFlushed
