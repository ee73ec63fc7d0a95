CONSTANTS
  Threads = {t1, t2, t3}
  Pushers = {t1, t2}
  Poppers = {t2, t3}
  Values = {v1}
  EMPTY_VALUE = EMPTY_VALUE
  Addr = {a1, a2, a3}
  NULL = NULL
  RETIRED_THRESHOLD = 4
SPECIFICATION FairSpec
INVARIANTS
  LLInv
PROPERTIES
  IsFifoQueue
  LockFree
