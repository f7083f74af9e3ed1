SPECIFICATION Spec
CONSTANTS
  Recordings = {r1}
  Rows = {c1, c2, c3}
  Slots = {s1, s2}
  None = None
  KeepsLocal = FALSE
  MaxRewinds = 0
  MaxFaults = 2
SYMMETRY Interchangeable
INVARIANTS NothingLost
CHECK_DEADLOCK FALSE
