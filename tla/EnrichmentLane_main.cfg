SPECIFICATION FairSpec
CONSTANTS
  Calls = {c1}
  Drains = {d1, d2}
  Lanes = {consumer, sweep}
  Sweeps = {sweep}
  Null = Null
  MaxSends = 2
  MaxIssued = 2
  MaxActs = 1
  MaxFaults = 1
  MaxEnrichAttempts = 2
  MaxClaims = 3
  MaxWakeups = 1
INVARIANTS TypeOK OneReader SendWaits VerdictReleases SyncedWasAccepted
CHECK_DEADLOCK FALSE
PROPERTIES LaneConcludes SendConcludes
