SPECIFICATION FairSpec
CONSTANTS
  Recordings = {r1, r2}
  Rows = {c1, c2, c3, c4}
  Slots = {s1, s2}
  None = None
  KeepsLocal = FALSE
  MaxRewinds = 1
  MaxFaults = 1
INVARIANTS TypeOK ReceivedHasAudio AckIsForThis
PROPERTIES ImplementsDelivery LeavesTheQueue
CHECK_DEADLOCK FALSE
