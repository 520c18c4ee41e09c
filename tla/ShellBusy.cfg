CONSTANTS
  MaxRuns = 1
  MaxCalls = 3
  MaxSets = 0
  MaxReads = 1
  Chunks = 4
  PipeCap = 1
  LocalCap = 1
  LineCap = 1
  InboxCap = 1
SPECIFICATION FairSpec
CHECK_DEADLOCK FALSE
PROPERTIES CallsReturn
