SPECIFICATION FairSpec
CONSTANTS
  Jobs = {k1, k2, k3}
  Workers = {w1, w2}
  NoJob = NoJob
  MaxSize = 1
  MaxRetries = 3
  Interrupted = TRUE
CHECK_DEADLOCK FALSE
INVARIANTS OnePlace PendingIsTheTrace
PROPERTIES ImplementsLedger TasksEnd
