SPECIFICATION FairSpec
CONSTANTS
  t1 = t1
  t2 = t2
  t3 = t3
  Tasks <- ThreeTasks
  MaxStacks = 3
  MaxAsync = 5
INVARIANTS
  TypeOK
  StackOwnership
  EnteredOnlyInNone
PROPERTIES
  ResultsReachTheirCaller
  EveryExportSettles
CHECK_DEADLOCK FALSE
