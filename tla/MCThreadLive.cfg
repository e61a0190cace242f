CONSTANTS
  NumCpus = 2
  Threads = {t1, t2, t3}
  MaxCount = 1
  Null = Null
SPECIFICATION LongLivedFairSpec
PROPERTY
  ReadyRuns
  ImplementsFairSemaphore
