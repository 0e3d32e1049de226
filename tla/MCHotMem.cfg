SPECIFICATION Spec
CONSTANTS
  Requests = {r1, r2, r3, r4}
  Keys = {k1, k2}
  NoKey = NoKey
  MaxBatch = 3
  Cap = 2
SYMMETRY Symmetry
INVARIANTS
  TypeOK
  WindowIsRecent
  AtMostOncePerKey
  RefusedMeansFull
  IdsIncrease
\* every call returns
CHECK_DEADLOCK FALSE
