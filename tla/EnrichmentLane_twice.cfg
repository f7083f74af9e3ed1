SPECIFICATION Spec
CONSTANTS
  Calls = {c1}
  Drains = {d1}
  Lanes = {consumer, sweep}
  Sweeps = {sweep}
  Null = Null
  MaxSends = 2
  MaxIssued = 2
  MaxActs = 0
  MaxFaults = 0
  MaxEnrichAttempts = 2
  MaxClaims = 3
  MaxWakeups = 1
CHECK_DEADLOCK FALSE
INVARIANTS OneSendPerCall
