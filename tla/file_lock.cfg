SPECIFICATION FairSpec
CONSTANTS
  f1 = f1
  f2 = f2
  f3 = f3
  Files <- ThreeFiles
  Attachments <- ApartOrAttached
  MaxWrites = 1
  CommitKinds <- Synced
  GetFileMayFail = TRUE
INVARIANTS
  TypeOK
  CompatibleLevels
  LockIsHeld
  SnapshotIsCurrent
  OneExchange
PROPERTIES
  LocksLikeSqlite
  CallsSettle
CHECK_DEADLOCK FALSE
