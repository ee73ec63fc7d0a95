CONSTANTS
  Threads = {t1, t2, t3}
  Values = {v1, v2}
  EMPTY_VALUE = EMPTY_VALUE
  Addr = {a1, a2, a3}
  NULL = NULL
SPECIFICATION FairSpec
INVARIANTS
  IInv
  MemorySafe
PROPERTIES
  IsFifoQueue
  Progress
