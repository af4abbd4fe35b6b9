CONSTANTS
  Chunk = {c1, c2, c3}
  Entity = {n1, n2}
  Engagement = {e1, e2}
  DocType = {t1, t2}
  EntityType = {control}
  Control = control
  Near = {7, 9}
  Hit = {0, 10}
  Text <- MCText
  Name <- MCName
  Filters <- MCFilters
  TopK = 2
  Kept = 1
  Fetched = 2
  MaxNodes = 4
SPECIFICATION Spec
SYMMETRY MCSymmetry
INVARIANTS TypeOK AnswerStaysInScope AnswerIsARanking LeftOutForBetter
CHECK_DEADLOCK FALSE
