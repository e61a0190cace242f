SPECIFICATION DevicesSpec
CONSTANTS
  Threads = {t1, t2}
  Values = {v1, v2}
  NSect = 2
  MaxTries = 1
  MaxErrors = 1
  None = None
  NHandles = 2
  MaxIO = 2
  MaxRetry = 1
  EmuErrors = 2
  BufSize = 3
  MaxIn = 4
  MaxPolled = 2
  HwCpus = 3
  LB_NSLOTS = 4
  lser = lser
  ltimer = ltimer
  Drivers <- MCDrivers
  Odd = odd
  MaxDuds = 2
  Sleepers = {s1, s2}
  Second = 4
  Turnover = 2
  ReadTime = 1
  MaxTime = 13
  MaxSecs = 2
  LHD_SECTSIZE = 2
  RawSectors = 3
  WordSize = 2
  Iovs <- MCIovs
  Offsets = {0, 1, 2, 4, 6}
  Flags <- MCFlags
  MaxRequests = 2
INVARIANTS
  Served
  AnswersOwned
  
  Wired
  
  IoExact
