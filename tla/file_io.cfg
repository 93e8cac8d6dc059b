SPECIFICATION Spec
CONSTANTS
  d1 = d1
  d2 = d2
  Data <- TwoValues
  MaxPages = 3
  MayFail <- AnyRejection
INVARIANTS
  TypeOK
  UnmarkedIsCurrent
  SizeIsRight
PROPERTIES
  WorksLikeDurableFile
