\* A unique key and three inserts, the later two of the middle key; one worker.
CONSTANTS
  s1 = s1
  s2 = s2
  r1 = r1
  Insert = {1, 2, 3}
  KeysOf <- Gap
  Slot = {s1}
  Reader = {}
  MaxPartition = 5
  MaxChunk = 4
  MaxChildren = 2
  MaxFailures = 0
  Collected = {}
  UniqueKey = TRUE
  StaleWorkers = FALSE
  SlowInserts = FALSE
SPECIFICATION Spec
INVARIANTS
  NotBroken
CHECK_DEADLOCK FALSE
