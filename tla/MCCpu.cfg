SPECIFICATION CpuSpec
CONSTANTS
  Cpus = {c1, c2, c3}
  Spinlocks = {l1, l2, l3}
  Null = Null
  Threads = {b1, b2, b3}
  Boot = b1
  MaxLocks = 2
  MaxNest = 2
  allcpus = {c1, c2, c3}
  TLBSHOOTDOWN_MAX = 1
SYMMETRY Symmetry
INVARIANTS
  MutualExclusion
  NoUndetectedDeadlock
  OnlyDeadlocksPanic
  SpinlockCount
  Balanced
  PendingExact
