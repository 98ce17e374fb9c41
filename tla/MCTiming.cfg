SPECIFICATION Spec
CONSTANTS
  Calls <- ShippedCalls
  DagTimeoutMs = 250
  Instants <- EveryTenMs
INVARIANTS
  RunBudgetKept
  CancelledRunsRetryOnce
CHECK_DEADLOCK FALSE
