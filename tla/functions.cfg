SPECIFICATION Spec
CONSTANTS
  copy = copy
  call = call
  p1 = p1
  p2 = p2
  Stmts <- MCStmts
  BlobCalls <- MCBlobCalls
  Ptrs <- MCPtrs
  Readable <- MCReadable
  BufferSizes <- MCBufferSizes
  BlobSize = 3
  StreamSize = 2
  MaxOffset = 1
INVARIANTS
  TypeOK
  CellsAreCounted
  CopiedInOrder
  ChunkFitsBuffer
PROPERTIES
  DestroyedWhenUnheld
  BlobIOEnds
CHECK_DEADLOCK FALSE
