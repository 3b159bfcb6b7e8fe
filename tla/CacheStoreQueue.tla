--------------------------- MODULE CacheStoreQueue ---------------------------
(***************************************************************************)
(* The query queue that Cube Store keeps for the API instances: three      *)
(* RocksDB tables (items, payloads, results), the commands that change     *)
(* them, the acknowledgement events and the blocked readers they wake, and *)
(* the background deletion of results.                                     *)
(*                                                                         *)
(* Every command is one closure on the single thread of the queue's        *)
(* read/write loop: it reads one snapshot and commits one write batch, or  *)
(* nothing when it fails.  One command is therefore one action.  Events of *)
(* a batch are sent afterwards by the task that issued the command, so     *)
(* they are a step of their own (Broadcast).                               *)
(*                                                                         *)
(* A row carries an expiry time: secondary indexes stop returning it once  *)
(* it has passed, a read by row id still finds it, and a RocksDB           *)
(* compaction removes it at some later moment.  Clocks are abstracted to   *)
(* the deadlines that have passed (Deadlines names those a run lets pass). *)
(***************************************************************************)
EXTENDS Naturals, FiniteSets

CONSTANTS
  Paths,        \* queue paths, as <<prefix, key>>
  Externals,    \* external ids (request ids) a caller may attach
  Processes,    \* API instances that add, claim and execute queries
  Anonymous,    \* those that connect without the x-process-id header
  Waiters,      \* tasks serving QUEUE RESULT and QUEUE RESULT_BLOCKING
  Exclusives,   \* subset of BOOLEAN: the EXCLUSIVE flags used
  Concurrency,  \* the CONCURRENCY argument of the claiming commands
  BlockingBy,   \* subset of {"id", "path"}: keys of QUEUE RESULT_BLOCKING
  Extras,       \* what QUEUE MERGE_EXTRA may merge into an item
  Replies,      \* what is acknowledged, subset of {"value", "empty"}
  Deadlines,    \* subset of {"heartbeat", "orphaned", "item", "result"}
  MaxId,        \* bound: row ids handed out by a run
  None          \* absent external id, process id, value or event

Ids  == 1..MaxId
Open == "open"

VARIABLES
  items,     \* QueueItem rows by id
  payloads,  \* ids with a QueueItemPayload row
  expired,   \* ids whose item and payload rows have passed their expiry
  results,   \* QueueResult rows, by the id of the item they answer
  nextId,    \* the row id sequence of the items table
  outbox,    \* committed acknowledgements not yet sent to the listeners
  gc,        \* ids in the scheduler's deadline queue (GCTask::DeleteQueue)
  waiter,    \* one record per task reading a result
  running,   \* per process, the ids it was given to execute
  outcome    \* history: what the accepted acknowledgement of an id said

tables == <<items, payloads, expired, results, nextId>>
vars   == <<tables, outbox, gc, waiter, running, outcome>>

NoRow == [status |-> "absent"]

ItemRow ==
  [path : Paths, external : Externals \cup {None},
   owner : Processes \cup {None}, exclusive : Exclusives,
   status : {"pending", "active"},
   lapsed : BOOLEAN,    \* no heartbeat (or creation) within the timeout
   orphaned : BOOLEAN,  \* the orphan deadline has passed
   extra : SUBSET Extras]

ResultRow ==
  [path : Paths, external : Externals \cup {None}, value : Processes,
   status : {"ready", "deleted"}, expired : BOOLEAN]

AckEvent == [id : Ids, path : Paths, value : Processes \cup {None}]

ASSUME QueueAssumption ==
  /\ Anonymous \subseteq Processes /\ Exclusives \subseteq BOOLEAN
  /\ None \notin Processes \cup Externals \cup AckEvent
  /\ Open \notin Processes \cup {None}
  /\ Concurrency \in Nat /\ MaxId \in Nat

ById(i)   == [by |-> "id", id |-> i]
ByPath(p) == [by |-> "path", path |-> p]
Keys      == [by : {"id"}, id : Ids] \cup [by : {"path"}, path : Paths]

\* A reader is idle, or has subscribed, found nothing and waits, has been
\* woken and still has to retire the row, or has returned an answer.
NoReader == [pc |-> "idle"]
Reader ==
  [pc : {"subscribed", "waiting"}, key : Keys, first : AckEvent \cup {None}]
    \cup [pc : {"retiring", "done"}, key : Keys, id : Ids,
          value : Processes \cup {None}]

TypeOK ==
  /\ items    \in [Ids -> ItemRow \cup {NoRow}]
  /\ results  \in [Ids -> ResultRow \cup {NoRow}]
  /\ payloads \subseteq Ids /\ expired \subseteq Ids /\ gc \subseteq Ids
  /\ nextId   \in 1..(MaxId + 1)
  /\ outbox   \subseteq AckEvent
  /\ waiter   \in [Waiters -> Reader \cup {NoReader}]
  /\ running  \in [Processes -> SUBSET Ids]
  /\ outcome  \in [Ids -> Processes \cup {None, Open}]

Init ==
  /\ items    = [i \in Ids |-> NoRow]
  /\ results  = [i \in Ids |-> NoRow]
  /\ payloads = {} /\ expired = {} /\ gc = {} /\ outbox = {}
  /\ nextId   = 1
  /\ waiter   = [w \in Waiters |-> NoReader]
  /\ running  = [p \in Processes |-> {}]
  /\ outcome  = [i \in Ids |-> Open]

-----------------------------------------------------------------------------
(* Rows and indexes.                                                       *)

Prefix(path) == path[1]
PidOf(p)     == IF p \in Anonymous THEN None ELSE p

HasItem(i)   == items[i].status # "absent"
HasResult(i) == results[i].status # "absent"

\* What an index lookup on the items table returns: rows not yet expired.
Visible(i) == HasItem(i) /\ i \notin expired
\* Mutant of At: forgets the active items of the path.
AtPending(path) ==
  {i \in Ids : Visible(i) /\ items[i].path = path
                          /\ items[i].status = "pending"}
At(path)   == {i \in Ids : Visible(i) /\ items[i].path = path}
Counted(prefix, status) ==
  {i \in Ids : Visible(i) /\ Prefix(items[i].path) = prefix
                          /\ items[i].status = status}

\* A read by id ignores the expiry of the row, a read by path does not.
ItemsByKey(key) ==
  IF key.by = "id" THEN {i \in {key.id} : HasItem(i)} ELSE At(key.path)

LiveResult(i) == HasResult(i) /\ ~results[i].expired
ResultsAt(path) == {i \in Ids : LiveResult(i) /\ results[i].path = path}

\* Rows of the unique index (path, external id), which skips rows without one.
ResultsOfRequest(path, external) ==
  {i \in ResultsAt(path) : external # None /\ results[i].external = external}

NewItem(path, external, pid, exclusive, status) ==
  [path |-> path, external |-> external, owner |-> pid,
   exclusive |-> exclusive, status |-> status,
   lapsed |-> FALSE, orphaned |-> FALSE, extra |-> {}]

Claimed(row) == [row EXCEPT !.status = "active", !.lapsed = FALSE]

Insert(row) ==
  /\ nextId <= MaxId
  /\ items'    = [items EXCEPT ![nextId] = row]
  /\ payloads' = payloads \cup {nextId}
  /\ nextId'   = nextId + 1

Execute(p, i) == running' = [running EXCEPT ![p] = @ \cup {i}]

-----------------------------------------------------------------------------
(* Adding and claiming.                                                    *)

\* QUEUE ADD of a path that is not queued (of a queued one it only reads).
Add(p, path, external, exclusive) ==
  /\ exclusive => PidOf(p) # None
  /\ At(path) = {}
  /\ Insert(NewItem(path, external, PidOf(p), exclusive, "pending"))
  /\ UNCHANGED <<expired, results, outbox, gc, waiter, running, outcome>>

\* Mutant of TryClaim: without the status check.
TryClaimAnyStatus(p, i) ==
  /\ i \in payloads
  /\ items[i].exclusive => items[i].owner = PidOf(p)
  /\ items' = [items EXCEPT ![i] = Claimed(@)]
  /\ Execute(p, i)
  /\ UNCHANGED <<payloads, nextId>>
\* Moves a pending item to active for p; an item that lost its payload is
\* dropped instead.
TryClaim(p, i) ==
  /\ items[i].status = "pending"
  /\ items[i].exclusive => items[i].owner = PidOf(p)
  /\ \/ /\ i \in payloads
        /\ items' = [items EXCEPT ![i] = Claimed(@)]
        /\ Execute(p, i)
     \/ /\ i \notin payloads
        /\ items' = [items EXCEPT ![i] = NoRow]
        /\ UNCHANGED running
  /\ UNCHANGED <<payloads, nextId>>

\* Mutant of SpareSlot: does not count the backlog.
SpareSlotOfActive(path) ==
  Cardinality(Counted(Prefix(path), "active")) < Concurrency
\* The budget of QUEUE ADD_AND_RETRIEVE: a slot is left over for every other
\* pending item of the prefix.
SpareSlot(path) ==
  LET active  == Counted(Prefix(path), "active")
      backlog == Counted(Prefix(path), "pending") \ At(path)
  IN  Cardinality(active) + Cardinality(backlog) < Concurrency

AddClaimed(p, path, external, exclusive) ==
  /\ At(path) = {} /\ SpareSlot(path)
  /\ Insert(NewItem(path, external, PidOf(p), exclusive, "active"))
  /\ Execute(p, nextId)

AddUnclaimed(p, path, external, exclusive) ==
  /\ At(path) = {} /\ ~SpareSlot(path)
  /\ Insert(NewItem(path, external, PidOf(p), exclusive, "pending"))
  /\ UNCHANGED running

ClaimQueued(p, path) ==
  /\ SpareSlot(path)
  /\ \E i \in At(path) : TryClaim(p, i)

AddAndRetrieve(p, path, external, exclusive) ==
  /\ exclusive => PidOf(p) # None
  /\ \/ AddClaimed(p, path, external, exclusive)
     \/ AddUnclaimed(p, path, external, exclusive)
     \/ ClaimQueued(p, path)
  /\ UNCHANGED <<expired, results, outbox, gc, waiter, outcome>>

\* Mutant of Retrieve: off by one.
RetrieveAtLimit(p, path) ==
  /\ Cardinality(Counted(Prefix(path), "active")) <= Concurrency
  /\ \E i \in At(path) : TryClaim(p, i)
  /\ UNCHANGED <<expired, results, outbox, gc, waiter, outcome>>
\* QUEUE RETRIEVE CONCURRENCY.
Retrieve(p, path) ==
  /\ Cardinality(Counted(Prefix(path), "active")) < Concurrency
  /\ \E i \in At(path) : TryClaim(p, i)
  /\ UNCHANGED <<expired, results, outbox, gc, waiter, outcome>>

-----------------------------------------------------------------------------
(* Commands on a queued item.                                              *)

Heartbeat(key) ==
  /\ \E i \in ItemsByKey(key) : items' = [items EXCEPT ![i].lapsed = FALSE]
  /\ UNCHANGED <<payloads, expired, results, nextId, outbox, gc, waiter,
                 running, outcome>>

MergeExtra(key, x) ==
  /\ \E i \in ItemsByKey(key) :
       items' = [items EXCEPT ![i].extra = @ \cup {x}]
  /\ UNCHANGED <<payloads, expired, results, nextId, outbox, gc, waiter,
                 running, outcome>>

Cancel(key) ==
  /\ \E i \in ItemsByKey(key) :
       /\ items'    = [items EXCEPT ![i] = NoRow]
       /\ payloads' = payloads \ {i}
  /\ UNCHANGED <<expired, results, nextId, outbox, gc, waiter, running,
                 outcome>>

\* Mutant of Clear: restarts the row ids.
ClearRestartsIds ==
  /\ items'    = [i \in Ids |-> NoRow]
  /\ results'  = [i \in Ids |-> NoRow]
  /\ payloads' = {} /\ nextId' = 1
  /\ UNCHANGED <<expired, outbox, gc, waiter, running, outcome>>
\* QUEUE TRUNCATE: the three tables in one batch.
Clear ==
  /\ items'    = [i \in Ids |-> NoRow]
  /\ results'  = [i \in Ids |-> NoRow]
  /\ payloads' = {}
  /\ UNCHANGED <<expired, nextId, outbox, gc, waiter, running, outcome>>

\* Mutant of AckConflicts: no unique index on the request.
AckConflictsOfId(i) == HasResult(i)
\* The result takes the row id of the item, so it must be free in the results
\* table, and the item's (path, external id) must not be answered already.
AckConflicts(i) ==
  \/ HasResult(i)
  \/ ResultsOfRequest(items[i].path, items[i].external) # {}

\* Mutant of AckAccepted: leaves the item queued.
AckKeepsItem(i, value) ==
  /\ HasItem(i) /\ ~AckConflicts(i) /\ value # None
  /\ results'  = [results EXCEPT ![i] =
                    [path |-> items[i].path, value |-> value,
                     external |-> items[i].external,
                     status |-> "ready", expired |-> FALSE]]
  /\ outbox'   = outbox \cup
                   {[id |-> i, path |-> items[i].path, value |-> value]}
  /\ outcome'  = [outcome EXCEPT ![i] = value]
  /\ UNCHANGED <<items, payloads>>
AckAccepted(i, value) ==
  /\ HasItem(i)
  /\ value = None \/ ~AckConflicts(i)
  /\ items'    = [items EXCEPT ![i] = NoRow]
  /\ payloads' = payloads \ {i}
  /\ results'  = IF value = None THEN results
                 ELSE [results EXCEPT ![i] =
                         [path |-> items[i].path, value |-> value,
                          external |-> items[i].external,
                          status |-> "ready", expired |-> FALSE]]
  /\ outbox'   = outbox \cup
                   {[id |-> i, path |-> items[i].path, value |-> value]}
  /\ outcome'  = [outcome EXCEPT ![i] = value]

\* Nothing is written for an unknown item, nor when the batch fails.
AckRefused(i, value) ==
  /\ HasItem(i) => value # None /\ AckConflicts(i)
  /\ UNCHANGED <<items, payloads, results, outbox, outcome>>

\* A process reports what it computed for an item it was given: its own
\* answer, or no value.  Either way it is done with the item.
Ack(p, i, value) ==
  /\ i \in running[p]
  /\ (IF value = None THEN "empty" ELSE "value") \in Replies
  /\ AckAccepted(i, value) \/ AckRefused(i, value)
  /\ running' = [running EXCEPT ![p] = @ \ {i}]
  /\ UNCHANGED <<expired, nextId, gc, waiter>>

\* An execution ends without an acknowledgement; the tables know nothing of it.
Abandon(p, i) ==
  /\ i \in running[p]
  /\ running' = [running EXCEPT ![p] = @ \ {i}]
  /\ UNCHANGED <<tables, outbox, gc, waiter, outcome>>

Crash(p) ==
  /\ running[p] # {}
  /\ running' = [running EXCEPT ![p] = {}]
  /\ UNCHANGED <<tables, outbox, gc, waiter, outcome>>

-----------------------------------------------------------------------------
(* Reading results.                                                        *)

Answered(w, key, i, value) ==
  waiter' = [waiter EXCEPT ![w] =
               [pc |-> "done", key |-> key, id |-> i, value |-> value]]

MarkDeleted(i) == results' = [results EXCEPT ![i].status = "deleted"]

\* By path: the latest live row, once; reading it marks it deleted.
LatestResult(path) ==
  {i \in ResultsAt(path) : \A j \in ResultsAt(path) : j <= i}

FoundByPath(w, path) ==
  \E i \in LatestResult(path) :
    /\ results[i].status = "ready"
    /\ MarkDeleted(i)
    /\ Answered(w, ByPath(path), i, results[i].value)

\* By id: whatever is stored, marked or not.
FoundById(w, i) ==
  /\ LiveResult(i)
  /\ Answered(w, ById(i), i, results[i].value)
  /\ UNCHANGED results

NothingFound(key) ==
  IF key.by = "id" THEN ~LiveResult(key.id)
  ELSE \A i \in LatestResult(key.path) : results[i].status = "deleted"

Free(w) == waiter[w].pc \in {"idle", "done"}

\* QUEUE RESULT, which does not wait.  With an external id, the row of that
\* very request comes first and is not marked.
QueryResult(w, key, external) ==
  /\ Free(w)
  /\ \/ /\ key.by = "id" /\ FoundById(w, key.id)
        /\ external \in {None, results[key.id].external}
     \/ /\ key.by = "path"
        /\ \E i \in ResultsOfRequest(key.path, external) :
             Answered(w, key, i, results[i].value)
        /\ UNCHANGED results
     \/ /\ key.by = "path"
        /\ ResultsOfRequest(key.path, external) = {}
        /\ FoundByPath(w, key.path)
  /\ UNCHANGED <<items, payloads, expired, nextId, outbox, gc, running,
                 outcome>>

\* QUEUE RESULT_BLOCKING opens its listener before it looks into the table.
Subscribe(w, key) ==
  /\ Free(w) /\ key.by \in BlockingBy
  /\ waiter' = [waiter EXCEPT ![w] =
                  [pc |-> "subscribed", key |-> key, first |-> None]]
  /\ UNCHANGED <<tables, outbox, gc, running, outcome>>

\* Mutant of Lookup: waits on what a lookup before the subscription found.
LookupStale(w) ==
  /\ waiter[w].pc = "subscribed"
  /\ waiter' = [waiter EXCEPT ![w].pc = "waiting"]
  /\ UNCHANGED <<tables, outbox, gc, running, outcome>>

Lookup(w) ==
  /\ waiter[w].pc = "subscribed"
  /\ LET key == waiter[w].key IN
     \/ key.by = "id" /\ FoundById(w, key.id)
     \/ key.by = "path" /\ FoundByPath(w, key.path)
     \/ /\ NothingFound(key)
        /\ waiter' = [waiter EXCEPT ![w].pc = "waiting"]
        /\ UNCHANGED results
  /\ UNCHANGED <<items, payloads, expired, nextId, outbox, gc, running,
                 outcome>>

\* Mutant of Matches: any event wakes a reader by id.
MatchesPath(key, e) == key.by = "id" \/ key.path = e.path
Matches(key, e) == IF key.by = "id" THEN key.id = e.id ELSE key.path = e.path
Listening(w)    == waiter[w].pc \in {"subscribed", "waiting"}

\* The listener returns its first matching event; later ones are never read.
Deliver(w, e) ==
  IF Listening(w) /\ waiter[w].first = None /\ Matches(waiter[w].key, e)
  THEN [waiter[w] EXCEPT !.first = e] ELSE waiter[w]

\* The scheduler hears the event too, unless its channel lagged behind.
Broadcast(e) ==
  /\ e \in outbox
  /\ outbox' = outbox \ {e}
  /\ waiter' = [w \in Waiters |-> Deliver(w, e)]
  /\ gc' \in {gc, gc \cup {e.id}}
  /\ UNCHANGED <<tables, running, outcome>>

Wake(w) ==
  /\ waiter[w].pc = "waiting" /\ waiter[w].first # None
  /\ LET e == waiter[w].first IN
     waiter' = [waiter EXCEPT ![w] =
                  [pc |-> IF e.value = None THEN "done" ELSE "retiring",
                   key |-> waiter[w].key, id |-> e.id, value |-> e.value]]
  /\ UNCHANGED <<tables, outbox, gc, running, outcome>>

\* Mutant of Retire: every reader deletes the row.
RetireDeletes(w) ==
  /\ waiter[w].pc = "retiring"
  /\ results' = [results EXCEPT ![waiter[w].id] = NoRow]
  /\ waiter' = [waiter EXCEPT ![w].pc = "done"]
  /\ UNCHANGED <<items, payloads, expired, nextId, outbox, gc, running,
                 outcome>>
\* A reader by path deletes the row, a reader by id only marks it.
Retire(w) ==
  /\ waiter[w].pc = "retiring"
  /\ LET i == waiter[w].id IN
     IF ~HasResult(i) THEN UNCHANGED results
     ELSE IF waiter[w].key.by = "path"
          THEN results' = [results EXCEPT ![i] = NoRow]
          ELSE MarkDeleted(i)
  /\ waiter' = [waiter EXCEPT ![w].pc = "done"]
  /\ UNCHANGED <<items, payloads, expired, nextId, outbox, gc, running,
                 outcome>>

\* The wait times out, or the reader's channel lagged or closed.
GiveUp(w) ==
  /\ waiter[w].pc = "waiting"
  /\ waiter' = [waiter EXCEPT ![w] = NoReader]
  /\ UNCHANGED <<tables, outbox, gc, running, outcome>>

\* The scheduler deletes the results whose delay has passed, in one batch.
CollectResults(due) ==
  /\ due # {} /\ due \subseteq gc
  /\ gc' = gc \ due
  /\ results' = [i \in Ids |-> IF i \in due THEN NoRow ELSE results[i]]
  /\ UNCHANGED <<items, payloads, expired, nextId, outbox, waiter, running,
                 outcome>>

-----------------------------------------------------------------------------
(* Time, and the compaction that follows it.                               *)

HeartbeatLapses(i) ==
  /\ "heartbeat" \in Deadlines
  /\ HasItem(i) /\ ~items[i].lapsed
  /\ items' = [items EXCEPT ![i].lapsed = TRUE]
  /\ UNCHANGED <<payloads, expired, results, nextId, outbox, gc, waiter,
                 running, outcome>>

OrphanDeadline(i) ==
  /\ "orphaned" \in Deadlines
  /\ HasItem(i) /\ items[i].status = "pending" /\ ~items[i].orphaned
  /\ items' = [items EXCEPT ![i].orphaned = TRUE]
  /\ UNCHANGED <<payloads, expired, results, nextId, outbox, gc, waiter,
                 running, outcome>>

\* Item and payload share the expiry; it lies hours behind the orphan deadline.
ItemExpires(i) ==
  /\ "item" \in Deadlines
  /\ HasItem(i) /\ i \notin expired
  /\ items[i].status = "pending" /\ "orphaned" \in Deadlines => items[i].orphaned
  /\ expired' = expired \cup {i}
  /\ UNCHANGED <<items, payloads, results, nextId, outbox, gc, waiter,
                 running, outcome>>

ResultExpires(i) ==
  /\ "result" \in Deadlines
  /\ LiveResult(i)
  /\ results' = [results EXCEPT ![i].expired = TRUE]
  /\ UNCHANGED <<items, payloads, expired, nextId, outbox, gc, waiter,
                 running, outcome>>

\* Mutant of Compact: takes payloads of rows that are still wanted.
CompactAnyPayload(i) ==
  /\ i \in payloads
  /\ payloads' = payloads \ {i}
  /\ UNCHANGED <<items, results, expired, nextId, outbox, gc, waiter,
                 running, outcome>>
\* Compaction drops expired rows, each on its own.
Compact(i) ==
  /\ \/ /\ i \in expired /\ HasItem(i)
        /\ items' = [items EXCEPT ![i] = NoRow]
        /\ UNCHANGED <<payloads, results>>
     \/ /\ i \in expired \cap payloads
        /\ payloads' = payloads \ {i}
        /\ UNCHANGED <<items, results>>
     \/ /\ HasResult(i) /\ results[i].expired
        /\ results' = [results EXCEPT ![i] = NoRow]
        /\ UNCHANGED <<items, payloads>>
  /\ UNCHANGED <<expired, nextId, outbox, gc, waiter, running, outcome>>

-----------------------------------------------------------------------------
ProcessStep(p) ==
  \/ \E path \in Paths, e \in Externals \cup {None}, x \in Exclusives :
       Add(p, path, e, x) \/ AddAndRetrieve(p, path, e, x)
  \/ \E path \in Paths : Retrieve(p, path)
  \/ \E i \in Ids, v \in {p, None} : Ack(p, i, v)
  \/ \E i \in Ids : Abandon(p, i)
  \/ Crash(p)

KeyStep(key) ==
  \/ Heartbeat(key)
  \/ \E x \in Extras : MergeExtra(key, x)
  \/ Cancel(key)

ReaderStep(w) ==
  \/ \E key \in Keys, e \in Externals \cup {None} : QueryResult(w, key, e)
  \/ \E key \in Keys : Subscribe(w, key)
  \/ Lookup(w) \/ Wake(w) \/ Retire(w) \/ GiveUp(w)

ClockStep(i) ==
  \/ HeartbeatLapses(i) \/ OrphanDeadline(i) \/ ItemExpires(i)
  \/ ResultExpires(i) \/ Compact(i)

Next ==
  \/ \E p \in Processes : ProcessStep(p)
  \/ \E key \in Keys : KeyStep(key)
  \/ Clear
  \/ \E w \in Waiters : ReaderStep(w)
  \/ \E e \in outbox : Broadcast(e)
  \/ \E due \in SUBSET gc : CollectResults(due)
  \/ \E i \in Ids : ClockStep(i)

Spec == Init /\ [][Next]_vars

\* The task that issued a command always runs on to send its events, and a
\* reader's task is polled whenever it can move; nothing forces a timeout.
Fairness ==
  /\ \A i \in Ids : WF_vars(\E e \in outbox : e.id = i /\ Broadcast(e))
  /\ \A w \in Waiters : WF_vars(Lookup(w)) /\ WF_vars(Wake(w))
                          /\ WF_vars(Retire(w))

FairSpec == Spec /\ Fairness

-----------------------------------------------------------------------------
(* Safety.                                                                 *)

\* A path is queued once: items.ByPath is unique among the rows an index can
\* see, although an expired item and its successor may share the table
\* (queue_add, queue_add_and_retrieve and the expiry of queue items).
OneItemPerPath ==
  \A i, j \in Ids :
    Visible(i) /\ Visible(j) /\ items[i].path = items[j].path => i = j

\* The budget is shared by both claiming commands: a prefix never has more
\* active items than the concurrency they all pass (queue_prefix_counters).
ConcurrencyRespected ==
  \A path \in Paths :
    Cardinality(Counted(Prefix(path), "active")) <= Concurrency

\* An item is given to one process only, whatever is cancelled, expires, is
\* added again or crashes in between (try_claim_queue_item).
OneExecutor ==
  \A p, q \in Processes : p # q => running[p] \cap running[q] = {}

\* An exclusive item is only ever given to the process that added it.
ExclusiveStaysHome ==
  \A p \in Processes : \A i \in running[p] :
    HasItem(i) /\ items[i].exclusive => items[i].owner = PidOf(p)

\* No command finds a visible item without its payload, so the branches that
\* log "Unable to find payload" are dead for lookups by path.
PayloadOfVisibleItem == \A i \in Ids : Visible(i) => i \in payloads

\* An acknowledgement never meets a result row under the id it is about to
\* use: ids are not reused and the item and its result swap in one batch.
ItemXorResult == \A i \in Ids : ~(HasItem(i) /\ HasResult(i))

\* At most one live result answers a (path, external id) pair.
OneResultPerRequest ==
  \A i, j \in Ids :
    /\ LiveResult(i) /\ LiveResult(j)
    /\ results[i].path = results[j].path
    /\ results[i].external = results[j].external
    /\ results[i].external # None
    => i = j

\* No lost wake-up: a reader never waits for an id whose result is readable
\* unless the event that wakes it is on its way or has been delivered.  The
\* listener must be opened before the table is read (queue_result_blocking).
NoLostWakeup ==
  \A w \in Waiters : \A i \in Ids :
    /\ waiter[w].pc = "waiting" /\ waiter[w].key = ById(i)
    /\ LiveResult(i)
    => waiter[w].first # None \/ \E e \in outbox : e.id = i

\* Every answer is what the process that executed the item reported, for the
\* item the reader asked for.
AnswerIsOutcome ==
  \A w \in Waiters :
    waiter[w].pc \in {"retiring", "done"} =>
      /\ outcome[waiter[w].id] = waiter[w].value
      /\ waiter[w].key.by = "id" => waiter[w].key.id = waiter[w].id

-----------------------------------------------------------------------------
(* What makes the safety properties inductive.                             *)

\* Row ids are handed out in order, so nothing knows an id before its turn.
UnusedIds ==
  \A i \in Ids : i >= nextId =>
    /\ items[i] = NoRow /\ results[i] = NoRow
    /\ i \notin payloads /\ i \notin expired
    /\ outcome[i] = Open
    /\ \A p \in Processes : i \notin running[p]

\* An item given to a process is never pending again.
GivenIsNotPending ==
  \A p \in Processes : \A i \in running[p] : items[i].status # "pending"

\* Results and events repeat the outcome of their id, which stays as it is
\* because the item is gone.
OutcomeRepeated ==
  /\ \A i \in Ids : HasItem(i) => outcome[i] = Open
  /\ \A i \in Ids : HasResult(i) => outcome[i] = results[i].value
  /\ \A e \in outbox : outcome[e.id] = e.value
  /\ \A w \in Waiters : Listening(w) /\ waiter[w].first # None =>
       /\ outcome[waiter[w].first.id] = waiter[w].first.value
       /\ Matches(waiter[w].key, waiter[w].first)

QueueInvariant ==
  /\ TypeOK /\ UnusedIds /\ GivenIsNotPending
  /\ OneItemPerPath /\ PayloadOfVisibleItem /\ ItemXorResult
  /\ OneExecutor /\ ExclusiveStaysHome /\ OneResultPerRequest
  /\ OutcomeRepeated /\ AnswerIsOutcome /\ NoLostWakeup

-----------------------------------------------------------------------------
(* Steps and progress.                                                     *)

\* QUEUE ADD_AND_RETRIEVE claims only when every pending item of the prefix
\* still finds a slot, so that it cannot jump over one of higher priority.
ClaimJumpsOverNoOne ==
  [][\A p \in Processes, path \in Paths, e \in Externals \cup {None},
       x \in Exclusives :
       running' # running /\ AddAndRetrieve(p, path, e, x) =>
         Cardinality(Counted(Prefix(path), "active"))' +
           Cardinality(Counted(Prefix(path), "pending"))' <= Concurrency]_vars

\* A result that readers by id may still ask for is removed by the delayed
\* deletion, after its expiry, or by a reader that asked for it by path, and
\* never by another reader.
ResultsKeptForReaders ==
  [][\A i \in Ids : HasResult(i) /\ ~HasResult(i)' =>
       \/ results[i].expired \/ i \in gc \/ items' = [j \in Ids |-> NoRow]
       \/ \E w \in Waiters : /\ waiter[w].pc = "retiring" /\ waiter[w].id = i
                             /\ waiter[w].key.by = "path"
     ]_vars

\* A waiting reader whose result has been stored is woken without the help
\* of its timeout.
StoredResultWakesReader ==
  \A w \in Waiters : \A i \in Ids :
    waiter[w].pc = "waiting" /\ waiter[w].key = ById(i) /\ LiveResult(i)
      ~> waiter[w].pc \in {"done", "idle"}
=============================================================================
