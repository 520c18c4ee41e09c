CONSTANTS
  MaxInputs = 2
  MaxBatches = 2
  MaxInterrupts = 1
  MaxSelects = 1
  MaxFaults = 1
  Batches <- MCBatches
SPECIFICATION FairSpec
CHECK_DEADLOCK FALSE
INVARIANTS InputsAreKept RowsAreExact BatchIsSettled InterruptHolds ShellIsStopped
PROPERTIES InterruptEnds TurnEnds
