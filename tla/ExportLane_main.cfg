SPECIFICATION FairSpec
CONSTANTS
  Jobs = {j1, j2}
  Workers = {w1, w2}
  NoJob = NoJob
  Overrun = {j1}
  Asked = {j2}
  Cap = 1
  Budget = 2
  MaxWakeups = 1
  MaxFaults = 1
INVARIANTS TypeOK RunsWithinBudget GivenUpStaysDown OneRun FileMatchesRow
PROPERTIES ExportEnds
CHECK_DEADLOCK FALSE
