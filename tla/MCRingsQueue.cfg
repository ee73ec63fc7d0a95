CONSTANTS
  Threads = {t1, t2}
  Values = {v1, v2}
  EMPTY_VALUE = EMPTY_VALUE
  Addr = {a1, a2, a3}
  NULL = NULL
  RING_SIZE = 2
  IndexBound = 4
SPECIFICATION FairSpec
INVARIANTS
  RingsInv
PROPERTIES
  IsFifoQueue
  Progress
