\* Two queries, one slot; p1 runs the refresh scheduler, clients may not come
\* back, users cancel, executions stall.
CONSTANTS
  k1 = k1
  k2 = k2
  k3 = k3
  w1 = w1
  w2 = w2
  w3 = w3
  p1 = p1
  e1 = e1
  None = None
  Paths <- TwoPaths
  Asked <- Jobs
  Priority <- Urgent
  Home <- Shared
  Externals = {}
  Processes = {p1, p2}
  Anonymous = {}
  Exclusives = {FALSE}
  Waiters = {w1, w2}
  Concurrency = 1
  BlockingBy = {"id"}
  Extras = {}
  Replies = {"value"}
  Deadlines = {"heartbeat", "orphaned"}
  Faults = {"cancel", "stall"}
  Refreshers = {p1}
  MaxId = 2
SPECIFICATION FairRefresh
INVARIANT SlotsAreInUse
PROPERTY PendingIsServed
CHECK_DEADLOCK FALSE
