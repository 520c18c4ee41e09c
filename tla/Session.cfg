CONSTANTS
  MaxAsks = 3
  Schemas <- MCSchemas
  Installed <- MCInstalled
  Programs <- MCPrograms
  Ids <- MCIds
  ModelNames <- MCModelNames
  Found <- MCFound
  Stored <- MCStored
  Writes <- MCWrites
  Budgets <- MCBudgets
SPECIFICATION MCSpec
CHECK_DEADLOCK FALSE
INVARIANTS RecordIsExact SpliceIsExact LifeAgrees OldSectionsShownOnce AnswersItsPrompt BindingsFollow ReturnsCurrent
