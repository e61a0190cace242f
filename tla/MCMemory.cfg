SPECIFICATION MemorySpec
CONSTANTS
  Procs = {p1, p2}
  Special = q1
  Other = q2
  Menu = menu
  CPUs = {c1, c2}
  Uni = u1
  None = none
  Execs <- MCExecs
  OddExecs <- MCOddExecs
  Pointers = {4, 8, 13}
  PAGE_SIZE = 2
  NUM_TLB = 2
  DUMBVM_STACKPAGES = 1
  USERSTACK = 12
  KSEG = 16
  RamPages = 8
  MBLOCKSIZE = 2
  PageBlocks = 4
  HeapLimit = 12
  Sizes = {0, 3, 7}
  Members = {m1, m2, m3}
  NULL = null
  Unset = unset
  Lists = {l1, l2}
  MaxNum = 5
  BITS_PER_WORD = 3
  MaxBits = 7
  HALF_BITS = 2
  IntBits = 3
  LLBits = 7
  LLValues = {0, 7, 8, 63, 64, 100, 127}
  Strings <- MCStrings
  Null = nullstring
  Lengths = {0, 1, 4}
  MaxFields = 1
  MaxSpacing = 10
  MaxLiteral = 1
SYMMETRY Symmetry
INVARIANTS
  Isolated
  StartsAsWritten
  HeapWhole
  ContainersAgree
  ArithmeticExact
