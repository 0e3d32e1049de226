SPECIFICATION Spec
CONSTANTS
  Requests = {r1}
  Keys = {k1}
  NoKey = NoKey
  MaxBatch = 1
  Cap = 2
  Shards = {0}
  OldPath = old
  Found = {"none", "empty", "braces", "v1", "flat"}
  Inodes = {1, 2, 3, 4, 5}
  MaxInFlight = 2
  MaxFaults = 0
  Nobody = nobody
  MaxTime = 1
INVARIANT PublishedIsReadable
\* every request is answered
CHECK_DEADLOCK FALSE
