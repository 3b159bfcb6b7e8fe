\* Two commands, one may retry; two workers, a file of two frames,
\* which may be a temporary upload; a fault.
CONSTANTS
  c1 = c1
  c2 = c2
  w1 = w1
  w2 = w2
  l1 = l1
  Location = {l1}
  Frames = 2
  Worker = {w1, w2}
  Creator = {c1, c2}
  IfNotExists = {c1, c2}
  MaxRetries = 1
  MaxTable = 2
  MaxFaults = 1
  Faults = {"crash", "slow", "error", "lag", "timeout", "restart"}
SPECIFICATION FairSpec
INVARIANTS
  ReadyTableIsComplete
  FailureLeavesNothing
PROPERTIES
  CreatedTableStays
  CreateReturns
  ImportsSettle
CHECK_DEADLOCK FALSE
