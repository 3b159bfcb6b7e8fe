\* The local files are lost, processes are killed, logs and check points are
\* torn; no old snapshot need be kept.
CONSTANTS
  k1 = k1
  k2 = k2
  Keys = {k1, k2}
  LogEnabled = TRUE
  LogLimit = 2
  MinSnapshots = 0
  Faults = {"disk", "kill", "torn"}
  MaxWrites = 3
  MaxTime = 2
  MaxStarts = 3
SPECIFICATION Spec
INVARIANTS
  TypeOK
  RestoredIsPrefix
  UploadedIsRestorable
  StoreHasItsWrites
  CurrentIsComplete
PROPERTY ContractHolds
CHECK_DEADLOCK FALSE
