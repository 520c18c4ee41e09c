CONSTANTS
  f1 = f1
  f2 = f2
  Feed = {f1, f2}
  Origin <- BothFromWorker
  FeedCap = 1
  QueueCap = 1
  WireCap = 1
  MessageCap = 1
  MaxItems = 4
SPECIFICATION MCSpec
CHECK_DEADLOCK FALSE
INVARIANTS TypeOK AbortIsScoped
PROPERTIES KeepsPromise EndIsSeen
