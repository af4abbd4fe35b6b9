CONSTANTS
  Process = {p1, p2}
  Request = {r1, r2}
  Order = {o1, o2}
  Budget = 1
  MaxOutages = 2
SPECIFICATION Spec
SYMMETRY MCSymmetry
INVARIANTS TypeOK OrdersAreHeeded UsageIsCounted
CHECK_DEADLOCK FALSE
