SPECIFICATION LiveFairSpec
CONSTANTS
  allcpus = {c1, c2}
  TLBSHOOTDOWN_MAX = 1
  Threads = {t1, t2}
  Names = {n1, n2}
  NBlocks = 1
  MaxRefs = 2
  NameErrors = 1
  None = None
  Values = {v1}
  NSect = 1
  MaxTries = 1
  MaxErrors = 1
  NHandles = 1
  MaxIO = 1
  MaxRetry = 1
  EmuErrors = 1
  BufSize = 2
  MaxIn = 1
  MaxPolled = 1
  HwCpus = 1
  LB_NSLOTS = 3
  lser = lser
  ltimer = ltimer
  Drivers <- MCDrivers
  Odd = odd
  MaxDuds = 1
CHECK_DEADLOCK FALSE
PROPERTIES
  
  EventuallyFreed
  DriversAnswer
  Serviced
