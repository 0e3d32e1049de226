SPECIFICATION Spec
CONSTANTS
  Requests = {r1, r2, r3}
  Keys = {k1, k2}
  NoKey = NoKey
  MaxBatch = 2
  Cap = 2
SYMMETRY Symmetry
INVARIANT ReplayMeansApplied
CHECK_DEADLOCK FALSE
