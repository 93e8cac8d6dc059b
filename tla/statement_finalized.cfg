SPECIFICATION Spec
CONSTANTS
  q1 = q1
  q2 = q2
  Queries <- TwoQueries
  MaxStmts = 2
  MaxOpens = 2
  AsyncUnlock = TRUE
INVARIANTS
  FinalizedIsLeftAlone
CHECK_DEADLOCK FALSE
