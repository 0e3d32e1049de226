SPECIFICATION MSpec
CONSTANTS
  Appenders = {a1, a2, a3}
  Shards = {0, 1}
  Paths = {p1, p2}
  OldPath = old
  Found = {"none", "empty", "braces", "v1", "flat"}
  Inodes = {1, 2, 3, 4, 5}
  MaxInFlight = 2
  MaxFaults = 2
SYMMETRY Symmetry
INVARIANTS
  MTypeOK
  
  ErrorMeansUnpublished
  GenerationsInOrder
PROPERTIES
  StaysReadable
  HistoryKept
\* every append ends
CHECK_DEADLOCK FALSE
