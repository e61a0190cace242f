SPECIFICATION Spec
CONSTANTS
  Threads = {t1, t2, t3}
  Names = {n1}
  NoThread = NoThread
  NSems = 2
  CountMod = 3
  MaxAmount = 2
CHECK_DEADLOCK FALSE
INVARIANTS
  NoLostWakeup
