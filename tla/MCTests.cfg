SPECIFICATION TestsSpec
CONSTANTS
  BLOCKSIZE = 2
  Ndb = 3
  DbPerIdb = 2
  DATA_MAXSIZE = 10
  NumFiles = 4
  NumHalf = 2
  NumThings = 2
  NumOps = 2
  Draws = 3
  RandPos = {3}
  RandLen = {3}
  RandTrunc = {1, 3}
  Workloads <- MCWorkloads
  MaxDamaged = 8
  FsThreads = 2
  NCHUNKS = 4
  NLONG = 2
  NCREATE = 2
  ROT = 3
  PfBuf = 2
  MaxFaults = 1
  NUMJOBS = 3
  ONCELOOPS = 1
  TWICELOOPS = 1
  THRICELOOPS = 1
  PONGLOOPS = 2
  MaxForkFails = 1
  numprocs = 2
  NumKeys = {1, 3, 4}
  WORKNUM = 2
  RANDOM_MAX = 5
  CatBuf = 1
  NTHREADS = 3
  KernLoops = 2
  UMAX = 4
  Pids = {p1, p2, p3}
  NoPid = nopid
  Stranger = stranger
  MAXBG = 2
  CMDLINE_MAX = 3
  Codes = {0, 1}
  MaxJobs = 4
  PAGE_SIZE = 2
  NFRAMES = 16
  HUGESIZE = 32
  num = 2
  BIG = 7
  SmallPages = 2
  SmallMax = 1
  LargePages = 3
  LargeMax = 3
  loops = 2
  MaxRuns = 2
SYMMETRY Symmetry
CHECK_DEADLOCK FALSE
INVARIANTS
  
  
  
  JobsAccounted
