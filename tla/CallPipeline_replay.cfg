SPECIFICATION Spec
CONSTANTS
  Calls = {c1}
  Workers = {w1, w2}
  Pollers = {p1}
  JobIds = {j1, j2, j3, j4}
  NoCall = NoCall
  NoJob = NoJob
  Overrun = FALSE
  MaxAttempts = 2
  MaxWakeups = 2
  MaxReprocess = 0
  MaxFaults = 1
SYMMETRY Interchangeable
PROPERTIES ReplayHarmless
CHECK_DEADLOCK FALSE
