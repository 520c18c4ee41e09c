CONSTANTS
  MaxAsks = 3
  Schemas <- MCSchemas
  Installed <- MCInstalled
  Programs <- MCPrograms
  Budgets <- DesktopBudgets
SPECIFICATION Spec
CHECK_DEADLOCK FALSE
INVARIANT CatchUpIsGapFree
