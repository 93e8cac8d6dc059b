SPECIFICATION Spec
CONSTANTS
  f1 = f1
  f2 = f2
  f3 = f3
  Files <- TwoFiles
  Attachments <- AllApart
  MaxWrites = 1
  CommitKinds <- Synced
  GetFileMayFail = FALSE
INVARIANTS
  ReservedIsReleased
