SPECIFICATION Spec
CONSTANTS
  Requests = {r1, r2}
  Keys = {k1}
  NoKey = NoKey
  MaxBatch = 1
  Cap = 1
  Shards = {0}
  OldPath = old
  Found = {"none"}
  Inodes = {1, 2, 3, 4, 5}
  MaxInFlight = 2
  MaxFaults = 2
  Nobody = nobody
  MaxTime = 1
SYMMETRY Symmetry
CONSTRAINT FewBatches
INVARIANTS
  TypeOK
  AnswerMatchesDisk
  PublishedIsBuilt
  OwnIndexAlone
  KeyStoredOncePerLife
  StoredIsPublished
\* every request is answered
CHECK_DEADLOCK FALSE
