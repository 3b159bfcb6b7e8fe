\* An insert of each key; one worker, one select, a failure, the garbage collection.
CONSTANTS
  s1 = s1
  s2 = s2
  r1 = r1
  Insert = {1, 2}
  KeysOf <- OneEach
  Slot = {s1}
  Reader = {r1}
  MaxPartition = 2
  MaxChunk = 4
  MaxChildren = 1
  MaxFailures = 1
  Collected = {"chunk", "file"}
  UniqueKey = FALSE
  StaleWorkers = FALSE
  SlowInserts = FALSE
SPECIFICATION FairSpec
INVARIANTS
  SelectFindsItsFiles
  NotBroken
PROPERTIES
  ActiveChunksStay
  LeftoversGo
CHECK_DEADLOCK FALSE
