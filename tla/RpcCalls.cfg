CONSTANTS
  wait = wait
  stop = stop
  Call = {wait, stop}
  Endless = {wait}
  Pooled = {wait}
  Shutdowns = {stop}
  QueueCap = 1
  WireCap = 1
SPECIFICATION FairSpec
CHECK_DEADLOCK FALSE
INVARIANTS TypeOK AnswersAreReal RegistryIsExact ShutdownQuiesces PendingIsOwned
PROPERTIES CallEnds
