\* Three jobs, one of them persistent, one of them urgent, one slot, no faults.
CONSTANTS
  k1 = k1
  k2 = k2
  k3 = k3
  w1 = w1
  w2 = w2
  w3 = w3
  p1 = p1
  e1 = e1
  None = None
  Paths <- ThreePaths
  Asked <- Jobs
  Priority <- Urgent
  Home <- FirstAtP1
  Externals = {}
  Processes = {p1, p2}
  Anonymous = {}
  Exclusives = {FALSE, TRUE}
  Waiters = {w1, w2, w3}
  Concurrency = 1
  BlockingBy = {"id"}
  Extras = {}
  Replies = {"value"}
  Deadlines = {}
  Faults = {}
  Refreshers = {}
  MaxId = 3
SPECIFICATION SystemSpec
VIEW WorkView
INVARIANT WorkIsNotForgotten
CHECK_DEADLOCK FALSE
