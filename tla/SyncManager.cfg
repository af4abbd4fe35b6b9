SPECIFICATION Spec
CONSTANTS
  Process = {p1}
  Connector = {c1}
  Sync = {s1, s2}
  Engagement = {e1}
  Item = {i1}
  Linked = FALSE
  None = None
  Interval = 0
  MaxTime = 2
  MaxRequests = 3
SYMMETRY MCSymmetry
INVARIANTS
  TypeOK
  LaterSyncCovers
  RunningIsUnderWay
CHECK_DEADLOCK FALSE
