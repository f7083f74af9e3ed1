SPECIFICATION FairSpec
CONSTANTS
  Calls = {c1}
  Workers = {w1, w2}
  Pollers = {p1}
  JobIds = {j1, j2}
  NoCall = NoCall
  NoJob = NoJob
  Overrun = TRUE
  MaxAttempts = 2
  MaxWakeups = 1
  MaxReprocess = 1
  MaxFaults = 1
INVARIANTS TypeOK RunOwnsStage OneDriver RetryHasBudget FailureAccounted HeardOrSkipped
PROPERTIES SettledIsFinal ImplementsLifecycle EventuallySettles
CHECK_DEADLOCK FALSE
