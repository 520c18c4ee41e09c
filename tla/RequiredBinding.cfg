CONSTANTS
  Ids <- MCIds
  ModelNames <- MCModelNames
  Found <- MCFound
  Stored <- MCStored
  Writes <- MCWrites
  Budgets <- ConfigBudgets
SPECIFICATION ProvidersSpec
CHECK_DEADLOCK FALSE
INVARIANT RequiredIsSticky
