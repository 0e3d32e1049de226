SPECIFICATION Spec
CONSTANTS
  MaxInputs = 3
  MaxHits = 2
  Pages = {0, 2}
  Parallelisms = {0, 2}
INVARIANTS
  TypeOK
  PermitsConserved
  OnePartEach
  SkippedOnlyWhenFull
  AtMostOneLate
PROPERTIES
  Implements
  Finishes
\* the search ends
CHECK_DEADLOCK FALSE
