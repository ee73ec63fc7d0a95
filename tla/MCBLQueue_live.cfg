CONSTANTS
  Threads = {t1, t2}
  Values = {v1, v2}
  EMPTY_VALUE = EMPTY_VALUE
  TAKEN_VALUE = TAKEN_VALUE
  Addr = {a1, a2, a3}
  NULL = NULL
  RETIRED_THRESHOLD = 0
  BUFFER_SIZE = 1
  IndexBound = 2
SPECIFICATION FairSpec
PROPERTIES
  LockFree
