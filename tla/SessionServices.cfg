SPECIFICATION Spec
INVARIANTS RequestsArePaired ShownOnce TokenIsRecoverable UsableIsCurrent SelectionIsWhole
PROPERTIES PrefixIsKept ProcessesStop
CONSTANTS
  MaxAttempts = 3
  MaxCalls = 2
  MaxDeltas = 1
  Us = "us"
  Others = {"cli"}
  Entries <- MCEntries
  Presets <- MCPresets
  Selections <- MCSelections
  Modern = {"shell", "web"}
  HasResources = {"host"}
  MaxRounds = 2
  Budgets <- MCBudgets
CHECK_DEADLOCK FALSE
