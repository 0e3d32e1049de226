SPECIFICATION Spec
CONSTANTS
  N = 2
  Histories <- MCHistories
  MaxDoc = 2
  Ext <- MCOwnExt
  Shapes <- MCAllMatch
  HotWindows <- MCNoHot
  Pages = {2}
  Budgets = {3}
  HitCap = 3
  MaxFaults = 0
INVARIANT NextPageIsTheRest
