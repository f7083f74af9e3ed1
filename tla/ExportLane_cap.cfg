SPECIFICATION Spec
CONSTANTS
  Jobs = {j1, j2}
  Workers = {w1, w2}
  NoJob = NoJob
  Overrun = {j1, j2}
  Asked = {}
  Cap = 1
  Budget = 2
  MaxWakeups = 1
  MaxFaults = 0
SYMMETRY Interchangeable
INVARIANTS CapHolds
CHECK_DEADLOCK FALSE
