\* Uploads fail.
CONSTANTS
  k1 = k1
  k2 = k2
  Keys = {k1, k2}
  LogEnabled = TRUE
  LogLimit = 2
  MinSnapshots = 1
  Faults = {"upload"}
  MaxWrites = 3
  MaxTime = 2
  MaxStarts = 1
SPECIFICATION FairSpec
PROPERTY WritesReachRemote
CHECK_DEADLOCK FALSE
