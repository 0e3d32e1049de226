SPECIFICATION MSpec
CONSTANTS
  Appenders = {a1, a2}
  Shards = {0}
  Paths = {p1, p2}
  OldPath = old
  Found = {"none", "empty", "braces", "v1", "flat"}
  Inodes = {1, 2, 3, 4}
  MaxInFlight = 2
  MaxFaults = 0
SYMMETRY Symmetry
INVARIANT AckedKept
CHECK_DEADLOCK FALSE
