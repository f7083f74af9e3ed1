SPECIFICATION Spec
CONSTANTS
  Payments = {p1, p2, p3}
  Foreign = {p3}
  Links = {l1, l2}
  Hooks = {h1, h2}
  Providers = {razorpay, stripe}
  Clerks = {k1}
  None = None
  Amounts = {2, 4}
  Totals = {0, 3}
  MaxFaults = 1
SYMMETRY Interchangeable
INVARIANTS TypeOK MoneyAccounted NothingForgotten StatusTellsMoney WaitsEnd
PROPERTIES ImplementsLedger
CHECK_DEADLOCK FALSE
