SPECIFICATION VfsSpec
CONSTANTS
  Programs = {p1}
  None = None
  Config <- MCConfig
  Paths <- MCPaths
  MaxFailures = 1
  SfsThreads = {t1, t2}
  SfsFileNames = {n1, n2}
  NBlocks = 2
  MaxRefs = 2
  MaxErrors = 2
SYMMETRY Symmetry
CHECK_DEADLOCK FALSE
INVARIANTS
  VnodesAccounted
  
  CountsExact
PROPERTIES
  ImplementsNamespace
