CONSTANTS
  Tasks = {ui}
  MaxUses = 1
  MaxDeltas = 1
SPECIFICATION FairSpec
CHECK_DEADLOCK FALSE
PROPERTY InterruptIsSeen
