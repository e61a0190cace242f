SPECIFICATION Spec
CONSTANTS
  Threads = {t1, t2}
  Values = {v1, v2}
  NSect = 2
  MaxTries = 1
  MaxErrors = 1
INVARIANTS
  WriteHonest
