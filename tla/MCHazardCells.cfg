CONSTANTS
  Threads = {t1, t2}
  Cells = {c1, c2}
  Addr = {a1, a2, a3, a4, a5, a6}
  NULL = NULL
  RETIRED_THRESHOLD = 0
SPECIFICATION Spec
SYMMETRY Symmetry
INVARIANTS
  HazardInv
  ProtectedIsLive
  BoundedGarbage
