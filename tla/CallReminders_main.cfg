SPECIFICATION Spec
CONSTANTS
  Slots = {s1}
  Last = 2
  Deferrable = {1}
  Sweepers = {w1}
  Ticks = {t1, t2}
  MaxAttempts = 2
  Null = Null
  MaxFaults = 1
SYMMETRY Interchangeable
INVARIANTS TypeOK Covered SentOnce
CHECK_DEADLOCK FALSE
