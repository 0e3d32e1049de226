SPECIFICATION Spec
CONSTANTS
  N = 2
  Histories <- MCHistories
  MaxDoc = 2
  Ext <- MCExt
  Shapes <- MCShapes
  HotWindows <- MCHot
  Pages = {0, 2, 3}
  Budgets = {0, 1, 3}
  HitCap = 2
  MaxFaults = 1
INVARIANTS
  TypeOK
  OncePerSteadySegment
  AmplePagesLoseNothing
PROPERTIES
  NoPageWasted
  ReachesEnd
