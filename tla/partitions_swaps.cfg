\* Two inserts of both keys; two workers, one of which may run an orphaned job.
CONSTANTS
  s1 = s1
  s2 = s2
  r1 = r1
  Insert = {1, 2}
  KeysOf <- BothTwice
  Slot = {s1, s2}
  Reader = {}
  MaxPartition = 4
  MaxChunk = 4
  MaxChildren = 2
  MaxFailures = 0
  Collected = {"partition", "middleman"}
  UniqueKey = FALSE
  StaleWorkers = TRUE
  SlowInserts = FALSE
SPECIFICATION Spec
INVARIANTS
  AcknowledgedIsVisible
  RowsOnce
  RangesAreSound
  HierarchyIsWhole
PROPERTIES
  ImplementsContents
CHECK_DEADLOCK FALSE
