CONSTANTS
  Doc = {d1, d2}
  Name = {"x", "y", "z"}
  Type = {"t1", "t2"}
  Extraction <- MCExtraction
  EntityEmbedding = TRUE
  MaxAttempts = 2
  MaxFaults = 2
SPECIFICATION Spec
SYMMETRY MCSymmetry
INVARIANTS TypeOK MentionsSurvive OnlyUsedAreMissed MergedAtRest
CHECK_DEADLOCK FALSE
