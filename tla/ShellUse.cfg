CONSTANTS
  MaxRuns = 2
  MaxCalls = 4
  MaxSets = 1
  MaxReads = 1
  Chunks = 2
  PipeCap = 1
  LocalCap = 1
  LineCap = 1
  InboxCap = 1
SPECIFICATION FairSpec
CHECK_DEADLOCK FALSE
INVARIANT DoneIsReal
PROPERTIES DrainEnds ShellIsFreed
