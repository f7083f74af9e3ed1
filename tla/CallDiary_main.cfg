SPECIFICATION Spec
CONSTANTS
  Slots = {s1, s2}
  Leads = {ann, bob}
  Bookings = {b1, b2, b3}
  Linked = {b1, b2, b3}
  Requests = {r1, r2}
  Operators = {o1}
  Null = Null
  MaxFaults = 1
SYMMETRY Interchangeable
INVARIANTS TypeOK RecordedIsReal
PROPERTIES StandingStays ImplementsDiary
CHECK_DEADLOCK FALSE
