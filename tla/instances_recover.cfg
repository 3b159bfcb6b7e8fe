\* A persistent query and a job, one slot; instances crash, calls fail,
\* clients come back.
CONSTANTS
  k1 = k1
  k2 = k2
  k3 = k3
  w1 = w1
  w2 = w2
  w3 = w3
  p1 = p1
  e1 = e1
  None = None
  Paths <- TwoPaths
  Asked <- QueryAndJob
  Priority <- Urgent
  Home <- FirstAtP1
  Externals = {}
  Processes = {p1, p2}
  Anonymous = {}
  Exclusives = {FALSE, TRUE}
  Waiters = {w1, w2}
  Concurrency = 1
  BlockingBy = {"id"}
  Extras = {}
  Replies = {"value"}
  Deadlines = {"heartbeat"}
  Faults = {"crash", "storage"}
  Refreshers = {}
  MaxId = 2
SPECIFICATION FairClients
INVARIANT ExecutionsRespectConcurrency
PROPERTY AwaitedIsServed
CHECK_DEADLOCK FALSE
