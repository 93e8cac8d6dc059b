SPECIFICATION FairSpec
CONSTANTS
  c1 = c1
  c2 = c2
  c3 = c3
  c4 = c4
  Calls <- AllCalls
  MaxConns = 2
  MaxDelays <- AnyDelay
  GivenOptions <- AnyOption
  Nestings <- SomeNestings
  Nobody = Nobody
  MayFail <- AnyFailure
INVARIANTS
  TypeOK
  ExclusiveLoan
  WaitOnlyWhenFull
  CapacityLedger
  InitializedFirst
PROPERTIES
  CleanStart
  NoOvertaking
  PoolLends
  EveryCallSettles
CHECK_DEADLOCK FALSE
