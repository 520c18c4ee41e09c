SPECIFICATION Spec
CONSTANTS
  Texts <- MCTexts
  Trimmed <- MCTrimmed
  Paths = {"src", "out"}
  Editable = {"src"}
  Ranges = {"none", "some"}
  Payloads <- MCPayloads
  Files <- MCFiles
  Budgets <- MCBudgets
INVARIANTS AnchorsNameOneLine StampsAreHonest
PROPERTY CarriedKeepAnchors
CHECK_DEADLOCK FALSE
