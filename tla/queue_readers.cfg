\* Readers by id and by path race with claims, acknowledgements, events and
\* deletion; an item may have an external id.
CONSTANTS
  k1 = k1
  k2 = k2
  None = None
  Paths <- OnePath
  Externals = {e1}
  Processes = {p1, p2}
  Anonymous = {p2}
  Waiters = {w1}
  Exclusives = {FALSE}
  Concurrency = 2
  BlockingBy = {"id", "path"}
  Extras = {}
  Replies = {"value", "empty"}
  Deadlines = {"orphaned", "item", "result"}
  MaxId = 2
SPECIFICATION FairSpec
INVARIANTS
  OneExecutor
  ItemXorResult
  NoLostWakeup
  AnswerIsOutcome
  OneResultPerRequest
PROPERTIES
  ImplementsContract
  ResultsKeptForReaders
  StoredResultWakesReader
CHECK_DEADLOCK FALSE
