CONSTANTS
  NumCpus = 2
  Threads = {t1, t2, t3, t4}
  MaxCount = 2
  Null = Null
SPECIFICATION Spec
SYMMETRY Symmetry
INVARIANTS
  ThreadsKept
  WakeupsArrive
PROPERTY
  ImplementsSemaphore
