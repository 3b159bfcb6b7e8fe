\* Logs are disabled, as they are for the cachestore; an operator truncates the
\* store and chooses snapshots.
CONSTANTS
  k1 = k1
  k2 = k2
  Keys = {k1, k2}
  LogEnabled = FALSE
  LogLimit = 2
  MinSnapshots = 0
  Faults = {"disk", "interrupt", "truncate", "rewind"}
  MaxWrites = 3
  MaxTime = 3
  MaxStarts = 3
SPECIFICATION Spec
INVARIANT TruncateIsFinal
PROPERTY ChosenSnapshotStands
CHECK_DEADLOCK FALSE
