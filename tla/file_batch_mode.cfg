SPECIFICATION Spec
CONSTANTS
  d1 = d1
  d2 = d2
  Data <- TwoValues
  MaxPages = 2
  MayFail <- AnyRejection
INVARIANTS
  BatchModeEnds
