SPECIFICATION KernelSpec
CONSTANTS
  Threads = {t1, t2}
  Types = {"small", "large"}
  BlocksPerPage <- TwoSizes
  NPages = 4
  NPAGEREFS_PER_PAGE = 2
  NUM_PAGEREFPAGES = 2
  SemThreads = {s1, s2, s3}
  SemNames = {n1}
  NoThread = NoThread
  NSems = 2
  CountMod = 3
  MaxAmount = 2
SYMMETRY Symmetry
INVARIANTS
  HeapExact
  
