\* Two processes, one without an id, race for two paths of one prefix with one
\* slot; items may be exclusive and expire.
CONSTANTS
  k1 = k1
  k2 = k2
  None = None
  Paths <- TwoPaths
  Externals = {}
  Processes = {p1, p2}
  Anonymous = {p2}
  Exclusives = {FALSE, TRUE}
  BlockingBy = {"id"}
  Waiters = {}
  Concurrency = 1
  Extras = {x1}
  Replies = {"empty"}
  Deadlines = {"heartbeat", "item"}
  MaxId = 3
SPECIFICATION Spec
INVARIANTS
  OneItemPerPath
  ConcurrencyRespected
  PayloadOfVisibleItem
VIEW ClaimView
PROPERTY ClaimJumpsOverNoOne
CHECK_DEADLOCK FALSE
