SPECIFICATION Spec
CONSTANTS
  Call = {c1, c2, c3}
  NoCall = NoCall
  Content <- MCSameContent
SYMMETRY MCSymmetry
INVARIANTS
  AnswerAgreesWithRecords
  SomebodyIngests
PROPERTY
  ImplementsIntake
CHECK_DEADLOCK FALSE
