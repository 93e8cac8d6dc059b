SPECIFICATION Spec
CONSTANTS
  c1 = c1
  c2 = c2
  a = a
  x = x
  root = root
  void = void
  Conns <- MCConns
  Keys <- MCKeys
  Paths <- MCPaths
  Roots <- MCRoots
  Names <- MCNames
  Handles <- MCHandles
PROPERTY
  SubHandlesTraversed
CHECK_DEADLOCK FALSE
