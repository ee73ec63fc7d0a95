CONSTANTS
  Threads = {t1, t2}
  Pushers = {t1, t2}
  Poppers = {t1, t2}
  Values = {v1, v2}
  EMPTY_VALUE = EMPTY_VALUE
  Addr = {a1, a2, a3}
  NULL = NULL
  RETIRED_THRESHOLD = 0
SPECIFICATION Spec
SYMMETRY Symmetry
INVARIANTS
  MemorySafe
PROPERTIES
  FifoUntilSpoilt
