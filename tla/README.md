# Cube Store verification

TLA+ specifications of the core of Cube Store and of the query queue that the
Cube API instances run on it, model-checked with TLC and, where it matters
most, proved with TLAPS. The repository is the reference: a definition is
translated from the lines that `PROJECT.json` ("map") names for it.

Paths below are relative to `src/`. `CS` stands for
`rust/cubestore/cubestore/src` and `QO` for
`packages/cubejs-query-orchestrator/src/orchestrator`.

1. The system
2. What is modelled, and in which modules
3. The runs
4. Bounds, views and fairness
5. The proofs
6. Where code and documentation disagree
7. Abstractions, and what is not modelled
8. Plan

## 1. The system

Cube answers analytical queries through API instances (Node.js). They share
nothing but Cube Store (Rust), which is their queue, their cache, and the store
of pre-aggregations. A Cube Store router owns two RocksDB databases, the
metastore and the cachestore; workers hold partitions, execute parts of selects
and process jobs; files live on a remote file system (S3, GCS, a directory).

    client --> API instance (QueryQueue, reconciler, executions)
                  |   SQL over a websocket: QUEUE ..., CACHE ..., SELECT ...
                  v
               router: SqlService --> cachestore (queue, cache) --+
                  |             \--> metastore (tables, jobs) ----+--> RocksStore --> remote fs
                  |                                                   (logs, check points)
                  v
               workers: jobs (import, compaction, repartition), selects, chunk files --> remote fs

### Components

| component | state | operations | interacts with |
|---|---|---|---|
| Query queue of Cube Store (`CS/cachestore`) | items, payloads and results (RocksDB tables), event channel, deadline queue of deletions | QUEUE ADD, ADD_AND_RETRIEVE, RETRIEVE, HEARTBEAT, MERGE_EXTRA, CANCEL, ACK, TRUNCATE, LIST, TO_CANCEL, RESULT, RESULT_BLOCKING | API instances; its scheduler (result deletion); RocksStore |
| Query queue of the API instances (`QO/QueryQueue.ts`) | per instance the reconcile promise and its repeat flag, executions, blocked requests | executeInQueue, reconcileQueue, processQuery, executeQuery, cancelQuery, forceReconcile | QUEUE commands; refresh scheduler |
| RocksStore (`CS/metastore/rocks_store.rs`, `rocks_fs.rs`) | local RocksDB, upload sequence numbers, remote logs, snapshots, the pointer to the current one | write_operation, run_upload, upload_check_point, load_from_remote, truncate, SET_CURRENT, deletion of old snapshots | remote fs; everything stored in it |
| Row tables (`rocks_table.rs`) | rows, secondary indexes, row id sequences, expiry | insert, update, delete, index lookups, compaction filter | RocksStore |
| Cache items and eviction | rows with sizes and access times; an asynchronous estimate of totals | CACHE SET/GET/REMOVE/INCR, the eviction loop | RocksStore |
| Lazy cachestore | initialised or not, its loops | init, WIPE, shutdown | RocksStore, upload loop |
| Metastore | schemas, tables, indexes, partitions, chunks, multi-partitions, jobs, replay handles, sources | create, activate, swap, deactivate, delete; claims and heartbeats of jobs | scheduler, workers, planner |
| Scheduler | event listeners, GC deadline queue, reconcile loops | schedule jobs, reconcile tables and partitions, remove files | metastore, cluster, remote fs |
| Cluster, job runner | worker pools, job loops, notification of jobs | route selects, warm up, take and run jobs | metastore, chunk store |
| Chunk store, compaction | in-memory chunks, files under construction | compact, repartition, in-memory chunk persistence | metastore, remote fs |
| Remote fs queue and cleanup | pending uploads and downloads, local files | upload, download with deduplication, cleanup loop | everything with files |
| SQL service, result cache | running and cached selects | join a running query, invalidate | planner, cluster |
| HTTP server | table of messages in flight | answer, reconnect to a running message | SQL service |
| Streaming | offsets and replay handles | import of a stream | metastore, chunk store |
| Planner, sketches, drivers, schema compiler, SQL API, front ends | none shared with the above | translation and calculation | |

`PROJECT.json` ("components") lists these with their files and status.

### What is hard about it

* One router serialises each command of the queue (one closure on one thread,
  one snapshot, one write batch), but clients compose several commands:
  look, add, list, claim, execute, acknowledge. Other instances act in
  between, rows expire, users cancel, and an answer that was read is stale when
  it is used.
* Waiting is by events: a reader must open its listener before it reads the
  table, the event of a batch is sent after it was committed, and the deletion
  of a result is delayed behind the event.
* Instances die with a slot in their hands; heartbeats, orphan deadlines and
  the reconcile of somebody else must bring it back.
* The reconcile of an instance is single-flight: callers join the one in
  flight, and what changed since it read its list needs another run.
* RocksStore uploads logs and check points while writes go on, may be killed
  between any two awaits, and must load a state that existed.
* Chunks and partitions are swapped by compaction, repartition and splits while
  selects read their files and a scheduler deletes files. A compaction works
  for minutes on rows it read once; the swap decides in one write operation
  whether they are still what they were.
* Garbage is deleted by the clock: a delay longer than any select or job is all
  that keeps a file, or a row that is deleted without a second look, from being
  needed.
* An import is a job of another process: its events may be lost, it may be
  taken for dead while it runs, and what it started goes on after it was given
  up, on a table that may be dropped or created again.

### What makes each part correct

* Queue in Cube Store: a path is queued once; an item has one executor and
  its payload; a prefix stays within its concurrency; the claiming add jumps
  over no pending item; an acknowledgement turns an item into its result
  atomically; no wake-up is lost; an answer is what the execution reported; a
  result stays for readers by id.
* Queue of the instances: pending work is noticed when a slot becomes free; a
  slot belongs to an execution; what executes stays within the concurrency;
  pending and awaited queries are served.
* RocksStore: what can be loaded is a prefix of the writes, with everything
  that was counted as uploaded; a running process has its writes; the pointer
  names a complete snapshot; an operator's choice and a truncate stand; every
  write reaches the remote fs.
* Partitions and chunks: acknowledged rows are visible exactly once across
  swaps, nothing else is; ranges cover every key once; a select finds the files
  it was planned on; nothing active is deleted, and what is left behind goes.
* Import: a table that is ready has every row once; a command that failed leaves
  no table; a table that was reported stays; commands, jobs and half imported
  tables come to an end.
* Eviction (planned): the estimate cannot grow beyond the limits for ever;
  nothing but unneeded items goes.
* SQL result cache (planned): a reader that joins a run gets an answer for its own data
  version.

## 2. What is modelled, and in which modules

| module | what it is |
|---|---|
| `JobContract` | abstract: jobs are submitted, claimed once, finished once, lost or answered |
| `CacheStoreQueue` | the query queue of Cube Store: tables, commands, events, readers, delayed deletion, expiry and compaction |
| `CacheStoreQueueContract` | the refinement mapping from `CacheStoreQueue` to `JobContract` |
| `QueryQueue` | the API instances: requests, reconcilers, executions; EXTENDS `CacheStoreQueue` and calls its commands |
| `RocksStoreContract` | abstract: a history of writes and the length of its saved prefix |
| `RocksStore` | persistence: writes, logs, check points, restart, restore, operator commands; refines `RocksStoreContract` |
| `TableContents` | abstract: the rows of an insert appear in a table, at once and once |
| `Partitions` | partitions and chunks of an index: inserts, compactions, repartitions, selects, garbage collection; refines `TableContents` |
| `TableImport` | CREATE TABLE with locations: commands, import jobs, runners, the scheduler's sweeps |
| `CacheStoreQueueProofs`, `QueryQueueProofs`, `RocksStoreProofs`, `TableImportProofs` | the theorems about each of them |
| `PartitionsProofs`, `PartitionsContentsProofs`, `PartitionsRangesProofs` | the theorems about partitions: files and garbage collection; the rows a select reads; the ranges |
| `NumberSets` | lemmas on finite sets of numbers, for the least rows and smallest chunks of a compaction |
| `MCCacheStoreQueue`, `MCQueryQueue`, `MCRocksStore`, `MCPartitions`, `MCTableImport` | constants and views of the runs |

The modules that interact are composed where one calls the other: `QueryQueue`
EXTENDS `CacheStoreQueue`. `Partitions` and `TableImport` meet in
`activate_chunks`: `Partitions` shows that the rows of an insert become visible
at once and once, which is how `TableImport` counts the frames of an import.

### CacheStoreQueue

*State.* `items`, `payloads` and `results` are the three RocksDB tables, by row
id; the payload of an item is only there or not. `expired` says whose expiry
has passed: secondary indexes stop returning such a row (`Visible`), a read by
id still finds it, compaction removes it some time (`Compact`). `outbox` holds
the acknowledgement events of committed batches that the issuing task has not
sent yet. `gc` is the deadline queue of the cachestore's scheduler. `waiter` is
the task of each reader. `running` is what the callers do with claims: the ids
each process was given. `outcome` is a history variable for the properties.

*Actions.* Each QUEUE command that writes is one action, because the code runs it
as one closure with one batch on the queue's single read/write thread:

| command | action | code |
|---|---|---|
| ADD | `Add` | `queue_add` |
| ADD_AND_RETRIEVE | `AddAndRetrieve`: `AddClaimed`, `AddUnclaimed`, `ClaimQueued` | `queue_add_and_retrieve`, `queue_prefix_counters`, `try_claim_queue_item` |
| RETRIEVE | `Retrieve`, `TryClaim` | `queue_retrieve_by_path` |
| HEARTBEAT, MERGE_EXTRA, CANCEL | `Heartbeat`, `MergeExtra`, `Cancel` | same names |
| ACK | `Ack`: `AckAccepted`, `AckRefused` | `queue_ack`, unique index of the results |
| TRUNCATE | `Clear` | `queue_clear` |
| none: an execution that ends without acknowledgement | `Abandon` | the catch of `executeQuery` (`QO/QueryQueue.ts`) |
| RESULT | `QueryResult` | `queue_result` |
| RESULT_BLOCKING | `Subscribe`, `Lookup`, `Wake`, `Retire`, `GiveUp` | `queue_result_blocking`, `CacheStoreListener` |
| events, deletion | `Broadcast`, `CollectResults` | the sends of `write_operation_impl` after its answer, the cachestore's scheduler (`queue_results_multi_delete`) |
| time | `HeartbeatLapses`, `OrphanDeadline`, `ItemExpires`, `ResultExpires`, `Compact` | deadlines of LIST and TO_CANCEL, row expiry, compaction filter |

LIST and TO_CANCEL only read; they appear in `QueryQueue` as `Listed`, `Before`
and `ToCancel`, where somebody acts on what they return.

### QueryQueue

An API instance is a single-threaded event loop and every `await` of the queue
is one command, so an action is one command together with the code that runs
when its answer arrives, up to the next `await`.

* `executeInQueue`: `Call`, `Ask`, `Enqueue` (add, then ask for a reconcile),
  the wait for the reconcile promise (`Settled`), `Block`, `Serve`,
  `ContinueWait`. A client told to continue waiting calls again, at any
  instance; a persistent query only at the instance it is keyed with.
* `reconcileQueue`: `Requested` is the single-flight promise with its repeat
  flag. `FindCancels` and `CancelListed` are TO_CANCEL and CANCEL; `ListQueue`
  is LIST with the limit, the priority order and the filter of persistent
  queries, in the code's order; `Claim` is RETRIEVE, answered with a claim or
  nothing; `EndReconcile` repeats or settles.
* `executeQuery`: `Beat` (heartbeat interval) and `Finish` (acknowledgement
  and reconcile, or the catch that only logs).
* A call that Cube Store fails (`CallFails`): before the claims it rejects the
  reconcile (`ReconcileFails`), a failed claim is logged and dropped
  (`ClaimFails`), one inside an execution is logged by its catch, which leaves
  the item active with nobody executing it and does not reconcile
  (`ExecutionFails`), and one of a request ends it (`RequestFails`). A heartbeat
  that fails is one that is not sent (the fault "stall").
* `cancelQuery` is `UserCancels`, `forceReconcile` is `ForceReconcile`,
  `InstanceCrashes` ends an instance with its promises and executions.

### RocksStore

A store is the sequence of writes it applied; its RocksDB sequence number is the
length. `StateOf` takes
the last write of each key, `Loaded` what a new process would have of it. The upload loop of
the owner is a program counter (`upload`): `CollectLog` and `UploadLog`
(`run_upload`), `BeginCheckpoint`, `CreateCheckpoint`, `UploadFiles`,
`WriteCurrent`, `FinishCheckpoint` (`upload_check_point`,
`upload_checkpoint`, `delete_old_snapshots`), one action from each await to the
next, with `UploadLogFails` and `CheckpointFails` for errors at each of them.
A process starts from nothing, from local files or from the remote fs
(`StartFromScratch`, `StartFromDisk`, `StartFromRemote`, `OpenFetched`,
`ReplayLog`, `LoadDone`: `load_from_remote` and `load_metastore_logs`) and dies
between any two steps (`Die`), its local files kept or lost, a file in upload
torn or not. `Truncate` is `truncate`, `SetCurrentSnapshot` is SYS METASTORE
SET_CURRENT. The fields `lastCheckpointTime`, `lastUploadSeq`, `lastCheckSeq`,
`snapshotUploaded` and `uploadStopped` keep their names. `timeline` is history:
the writes each process acknowledged or started from.

### Partitions

One index of one table. *State.* `partition` and `chunk` are the rows of the
metastore (state, parent or partition, range, and the rows of data their file
holds), `remote` the files. `ins`, `job` and `sel` are the tasks under way: what
an insert, a worker or a select has read and will still use. `events` and `gc`
belong to the scheduler: events it has not handled, and its delayed tasks.
`broken` says that the table was deactivated as corrupt.

| task | actions | code |
|---|---|---|
| insert | `InsertRoute`, `InsertUpload`, `InsertActivate`, `InsertFails` | `partition_rows_for_index`, `add_chunk_columns`, `activate_chunks` |
| compaction | `CompactRead`, `CompactPlan`, `CompactWrite`, `CompactSwap` | `compact`, `write_to_files`, `swap_active_partitions_impl` |
| repartition | `RepartitionRead`, `RepartitionUpload`, `RepartitionSwap` | `repartition_chunk`, `swap_chunks_impl` |
| worker | `JobFails` | errors, the time limit, the death of a worker (`run_local`) |
| select | `SelectPlan`, `SelectEnd` | `get_active_partitions_and_chunks_by_index_id_for_select`, `deactivate_table_on_corrupt_data` |
| scheduler | `HandleEvent`; `RemoveInactiveChunks`, `RemoveInactiveNotUploadedChunks`, `DeleteCreatedButNotWrittenPartitions`, `DeleteMiddleManPartitions`; `SchedulerRestart` | `process_event`, the reconcile loop |
| delayed tasks | `CheckChunk`, `DeleteChunk`, `RemoveRemoteFile`, `DeletePartition`, `DeleteMiddleManPartition` | `process_gc_tasks`, `delete_chunks_without_checks`, `delete_partition`, `delete_middle_man_partition` |

An action is one write operation of the metastore, which one thread runs, or
what a task does between two of them. A row is a key and the number of its
insert, which is also its sequence number; `Merge` is what compactions and
selects do to rows of one key when the table has a unique key. A delayed task
does not hold a time but `wait`, the tasks that were under way when it was
scheduled and whose limit its delay exceeds (`AfterQueries`, `AfterJobs`): it is
due when they have ended (`Ended`).

### TableImport

CREATE TABLE with locations. *State.* `table` and `rows` are the tables of one
name in the metastore, each creation with an id of its own, and how often the
rows of each data frame are active in them; `uploads` the files of the
locations; `job` the rows of the jobs table. `creator` is a command
(`create_table_loop`): the locations it waits for (`pending`), the events its
listener has received (`news`), the first result that was no success
(`verdict`). `worker` is a job runner, `frames` the tasks that upload and
activate a data frame, which outlive their job. `inserted`, `placing` and
`sweep` are what the scheduler has under way.

| part | actions | code |
|---|---|---|
| command | `Begin`, `Join`, `Create`, `Receive`, `Poll`, `TableReady`, `DropTable`, `TimesOut` | `TableCreator`, `SqlResultCache::create_table`, `wait_for_job_results_with_poll`, `resolve_pending_from_metastore` |
| scheduler | `HandleInsert`, `AddJob`, `ScanOrphans`, `MarkOrphan`, `DeleteOrphan`, `DropNotReadyTable` | `process_event`, `add_job`, `remove_orphaned_jobs`, `drop_not_ready_tables` |
| runner | `StartJob`, `ReadTable`, `QueueDataFrame`, `FinishImport`, `Complete`, `DeleteCompleted`, `JobFails`, `HeartBeat` | `run_local`, `import_table_part`, `Ingestion` |
| frames | `ActivateFrame`, `FrameFails` | the tasks of `queue_data_frame`, `activate_chunks` |
| faults | `Crash`, `JobAborted`, `NobodyBeats`, `LoseInsert`, `LoseNews`, `RouterRestart` | death of a runner, errors and the limit of a job, missed heart beats, lagging event channels, restart of the router |

## 3. The runs

| run | question | result |
|---|---|---|
| `queue_claims` | two processes, one of them anonymous, both claiming commands, two paths of one prefix, one slot, exclusive items, heartbeats, expiry and compaction: `OneItemPerPath`, `ConcurrencyRespected`, `PayloadOfVisibleItem`, `ClaimJumpsOverNoOne` | hold |
| `queue_readers` | a reader by id or by path, request ids, claims, acknowledgements with and without a value, events, deletion, orphan deadlines and expiry: `OneExecutor`, `ItemXorResult`, `NoLostWakeup`, `AnswerIsOutcome`, `OneResultPerRequest`, `ResultsKeptForReaders`, the refinement `ImplementsContract`, and `StoredResultWakesReader` under fairness | hold |
| `instances_work` | three jobs at two instances, one of them persistent, one urgent, one slot: `WorkIsNotForgotten` | holds |
| `instances_recover` | instances crash, any call of Cube Store fails, clients come back: `ExecutionsRespectConcurrency`, `AwaitedIsServed` | hold |
| `instances_refresh` | users cancel, executions stall, orphans are removed and no client comes back, one instance runs the refresh scheduler: `SlotsAreInUse`, `PendingIsServed` | hold |
| `store_durable` | local files lost, processes killed at any step of an upload, torn files, no snapshot that must be kept: `TypeOK`, `RestoredIsPrefix`, `UploadedIsRestorable`, `StoreHasItsWrites`, `CurrentIsComplete`, and the refinement `ContractHolds` | hold |
| `store_operator` | logs disabled as for the cachestore, truncate, SET_CURRENT, deaths during uploads and loads: `TruncateIsFinal`, `ChosenSnapshotStands` | hold |
| `store_progress` | logs and check points fail at any step: `WritesReachRemote` | holds |
| `partitions_swaps` | two inserts of two keys, compactions that split, repartitions and the deletion of partitions by two workers, one of which may run a job that was given to the other: `AcknowledgedIsVisible`, `RowsOnce`, `RangesAreSound`, `HierarchyIsWhole`, and the refinement `ImplementsContents` | hold |
| `partitions_drain` | a select, a worker, a failure or restart, and the garbage collection of chunks and files: `SelectFindsItsFiles`, `NotBroken`, `ActiveChunksStay`, and `LeftoversGo` under fairness | hold |
| `partitions_gaps` | a unique key, three inserts, the later two of one key: `NotBroken` | violated, see 6 |
| `table_import` | two commands, two runners, a file of two frames that stays or is a temporary upload, any one fault: `ReadyTableIsComplete`, `FailureLeavesNothing`, `CreatedTableStays`, and `CreateReturns`, `ImportsSettle` under fairness | hold |

Every property of a passing run has a mutant in `PROJECT.json`: a plausible bug
of the code (a dropped guard, a wrong order, an off-by-one), written as an
operator next to the one it mutates, under which TLC finds the property
violated. The mutants show that the bounds reach the cases the properties are
about.

Some of what the runs say needs its context:

* `WorkIsNotForgotten` needs that nobody cancels: `cancelQuery` does not
  reconcile, so a pending query cancelled between the list and its claim leaves
  an idle slot until the next request. `PendingIsServed` shows what repairs it,
  the forced reconcile of the refresh scheduler, and `AwaitedIsServed` that a
  client that comes back does too.
* `ExecutionsRespectConcurrency` is about what really executes, not about the
  rows: it needs heartbeats that arrive and no cancellation, because a
  cancelled or stalled query may go on executing beside its successor. It
  also needs that no orphan deadline passes: the list of what to cancel is read
  in one command and acted on in later ones, and a pending item on it may be
  claimed by another instance in between. The cancellation then frees a slot
  whose query runs on (`Deadlines = {"orphaned"}` shows it).
* `SlotsAreInUse` holds with cancellations and stalls, but not when an instance
  dies, nor when Cube Store fails the acknowledgement or another call of an
  execution (`Faults` with "storage" shows it): the item then stays active and
  nobody executes it. `AwaitedIsServed`, whose run has both faults, says that
  the slot comes back through the missed heartbeats.
* `ResultsKeptForReaders`: a stored result goes after its delay, its expiry or a
  truncate, or with a reader that asked for it by path, never by a reader by id.
* `NotBroken` holds without a unique key and when no job runs twice; a job that
  outlived its partition may find the file of the partition removed, while the
  row is still there, and deactivate a healthy table.
* `ActiveChunksStay` needs that an insert is shorter than the delay of the
  garbage collection (`SlowInserts` FALSE): the import jobs of a file have a
  limit, INSERT itself has none.
* `CreatedTableStays` is about commands that all say IF NOT EXISTS. A command without it, next to one with it, may find
  its table replaced while it is imported.
* `FailureLeavesNothing` takes `drop_table` to succeed. When the metastore refuses it,
  the command logs that, returns its error and leaves the table to
  `drop_not_ready_tables`, which `ImportsSettle` is about.
* `CreateReturns` says that a command ends, not that it succeeds: a retry whose
  temporary upload the first attempt has removed fails, and so does a second
  command for the same upload. The initial states of `table_import` have a file
  that stays or a temporary one, so both cases are checked. A command that the bound
  `MaxTable` stops is not in progress.

## 4. Bounds, views and fairness

*Bounds.* They are constants, named where they are declared, and appear in guards only.

* `MaxId`: row ids handed out. Two suffice for an item, its deletion or expiry,
  and its successor on the same path, which is what stale ids, results and
  events can be confused with; `queue_claims` and `instances_work` use three,
  for an executing item, a pending one, and one more that competes with it.
* `Concurrency` is 1 where slots must run out, 2 in `queue_readers`, where two
  executions must overlap. `Processes` are two: every race of the queue is
  between somebody who acts and somebody else; the proofs are for any number.
* `MaxWrites` 3, `MaxTime` 2 or 3 check points, `MaxStarts` 3 processes,
  `LogLimit` 2 batches a log: enough for a check point with writes before,
  during and after it, a log cut by its limit, a second check point after which
  the first is deleted, and a process that restores what a restored process
  wrote.
* One prefix per queue in `QueryQueue`, as `redisQueuePrefix` is one per queue.

* `Partitions`: `MaxPartition` and `MaxChunk` are the rows of the metastore ever
  created, `MaxChildren` the files a compaction may cut (16 in the code).
  `partitions_swaps` has room for a split in two and a compaction of a child, or
  for two compactions of one partition, with the chunks of two inserts and their
  repartition; `partitions_drain` for a compaction, the insert it raced with, and
  the repartition of its chunk. `Collected` names the kinds of garbage a run
  collects. `SlowInserts` and `StaleWorkers` are assumptions about time: an
  insert may outlast the collection's delay; a job that was given to another
  worker may still run.
* `TableImport`: `MaxTable` 2 is a table and its retry or replacement, `MaxFaults`
  1 any single fault at any moment; two frames are needed for one that goes on
  after its job ended. The proofs are for any numbers.

A system whose counters are used up stops, so the runs do not check for deadlock.

*Views.* `ClaimView` hides results, events, readers and the history in a run
that has no readers and acknowledges without a value, so that no result is
ever stored, and of an item what was merged and whether its heartbeat is missed;
no guard and no property reads what is hidden. `WorkView`
hides results, events and readers in a run of jobs, which read no results. Both
runs check safety only.

*Clocks.* Time is the set of deadlines that have passed. A deadline may pass at
any moment unless a run's `Deadlines` leave it out; two orders are kept from
the code: an item expires long after its orphan deadline (two hours behind
it), and a heartbeat misses its deadline only when nobody sends it
(`Lapses`), except in runs with the fault "stall".

*The delays of the garbage collection.* `not_used_timeout` is twice the query
timeout, `import_job_timeout` and two snapshot intervals are longer than any job:
a delayed task waits for the tasks whose limit its delay exceeds, and may run at
any moment after that. Nothing else orders the collection and the rest.

*Fairness.* Only what the code's scheduling gives:

* `Fairness` of the queue: the task that committed a batch goes on to send its
  events, and the task of a reader is polled when it can move. No command, no
  timeout and no deletion is fair.
* `SystemFairness`: the event loop of a live instance goes on with its
  reconcile and its requests; an execution ends, by the execution timeout at
  the latest; an item that nobody executes misses its heartbeat. A crashed
  instance has no reconcile, requests or executions, so nothing is asked of it.
* `SchedulerRuns`, in `instances_refresh` only: the refresh scheduler of an
  instance that runs one calls `forceReconcile` again and again. `ClientsRetry`,
  in `instances_recover` only: a client told to continue waiting asks again, as
  the client libraries do, and its wait ends by its timeout.
* `ClaimsAreAnswered`, in `instances_recover` only: Cube Store does not fail the
  claims of a query for ever (SF). Without it a reconcile may drop each of its
  claims, and TLC finds `AwaitedIsServed` violated. Nothing is assumed of the
  other failing calls.
* `Fairness` of the store: the upload loop goes on (WF); the snapshot interval
  passes between some runs, not each (SF on `BeginCheckpoint`, beside
  `SkipCheckpoint`); an upload that is repeated for ever succeeds some time (SF).

* `Fairness` of the partitions: inserts, jobs and selects that began go on (they
  may fail), a chunk on an inactive partition is picked up by some worker, the
  reconcile loop runs, and due tasks run. Events and their order are not needed.
* `Fairness` of the import: commands, the sweeps of the scheduler, runners, heart
  beats and frames go on; a scheduled job is taken; a job that nobody runs misses
  its heart beats. No command, no fault and no event is fair.

*Faults of the runs.* A crash of an instance, a failing call of Cube Store
in a reconcile, a claim, an execution or a request, a stalled instance, a user's cancellation; loss
of local files, kills, torn uploads, failed uploads, an operator's truncate and
SET_CURRENT, a kill during a load; a failing or dying insert or job, a restart
of the scheduler; a runner that dies, stalls or meets an error, a lost event, the
timeout of a command, a restart of the router. Each run names its faults.

## 5. The proofs

For every number of paths, processes, readers and row ids, and every
concurrency, from `QueueAssumption` (None and Open are nobody's names, numbers
are numbers) and for the instances `SystemAssumption` (the queries asked are
queries; a queue has one prefix).

*Types.* `TypeCorrect`: `Spec => []TypeOK`, one lemma per group of commands.
`SystemTypeCorrect` adds requests and reconciles.

*The tables.* No property of the queue is inductive by itself: that an
acknowledgement finds no result under its id needs that ids are not reused;
that an item is given once needs that given items are never pending again.
`TableInvariant` joins `OneItemPerPath`, `PayloadOfVisibleItem`,
`ItemXorResult`, `OneExecutor`, `ExclusiveStaysHome`, `OneResultPerRequest`
with `UnusedIds` (nothing knows an id before its turn), `GivenIsNotPending` and
the part of `OutcomeRepeated` about the tables. Most steps only lose rows or
change fields the invariant does not read; they are `Quiet`, and one lemma,
`QuietKeepsTables`, is the proof for all of them. Inserts, claims and
acknowledgements have a lemma each. From it follow `PathQueuedOnce`,
`ExecutedOnce`, `ExclusiveKept`, `PayloadKept`, `ItemOrResult` and
`RequestAnsweredOnce`.

*The readers.* `ReaderInvariant` is `NoLostWakeup`, `AnswerIsOutcome` and the
rest of `OutcomeRepeated`: events in flight and delivered repeat the outcome of
their id. `QueueConsistent` joins everything as `[]QueueInvariant`; from it
follow `NoWakeupIsLost` and `AnswersAreOutcomes`.

*The budget.* `BudgetRespected` counts: a step that claims nothing leaves a
subset of the active items, one that claims adds one (`OneMore`) to a set below
the concurrency (`ClaimsWithinBudget`, `SpareSlotIsFree`). `NoJumping` proves
the action property of the claiming add from the same lemmas. `ResultsAreKept`
says why a result is removed at all (`RemovedForAReason`): only a reader that
asked by path takes its own.

*The contract.* `QueueImplementsContract`: every command is a step of
`JobContract` or stutters. Quiet steps lose jobs (`QuietLoses`), inserts submit
(`InsertSubmits`), claims claim (`ClaimClaims`), accepted acknowledgements
finish (`AckFinishes`), refused ones, executions that end without one and
crashes abandon (`RefusalAbandons`), readers answer (`ReaderAnswers`).

*The instances.* `InstancesUseQueue` proves `SystemSpec => Spec`: whatever the
instances do is some sequence of commands, so every theorem about the queue
holds in the system (`SystemKeepsQueue`). `SlotsGivenBack` proves
`[]SlotsAreInUse` when instances do not crash, Cube Store fails no call and no
request ids are used, although users cancel, instances stall and items expire:
`SlotsPassOn` says that a step which makes an item active gives it to somebody
and one that ends an execution removes the item; the acknowledgement needs
`ItemXorResult` and the absence of request ids to be accepted, and that the call
does not fail (`CallsSucceed`). Each hypothesis is needed: section 3 says what a
failing call leaves, section 6 what happens with request ids.

* `ExecutionsWithinBudget` proves `[]ExecutionsRespectConcurrency` when nobody
  cancels, no execution stalls and no item is orphaned or expires, although
  instances crash and calls fail, which only loses executions
  (`FailureLosesRuns`). The rows are within the budget
  (`BudgetRespected`); what must be shown is that an execution of a live
  instance has its row. `AliveRuns` says that it has one, active and with a
  heartbeat that has not lapsed. It is only inductive with `ListedIsIdle`: what
  an instance has read as to be cancelled, some commands ago, is still neither
  pending nor executed by anybody. Section 3 says why orphaned items are left
  out.
* `NoWorkForgotten` proves `[]WorkIsNotForgotten` when instances do not crash, calls do
  not fail, nobody cancels and no item expires. `WorkIsNoticed`: when a query
  of no particular instance waits and a slot is free, some instance has a
  reconcile ahead of it, will repeat the one it runs, or has the item, or enough
  others to fill the slots, on the list it is working through (`Notices`). The
  cut of the list to the free slots needs that a cut list is full:
  `FirstIsFull`, from the ranks of the list being a bijection (`RanksFill`).
  `AtHome` says that exclusive work is listed where it belongs.

*The partitions.* For any number of inserts, keys, workers, selects, splits and
failures, from `PartitionsAssumption`. The proofs share `Shape`, the types
without the bounds of the ranges, and lemmas that say which step may change what
(`PartitionSteps`, `ChunkSteps`, `RemoteSteps`, `EventSteps`, `TaskSteps`,
`KidSteps`), so that each conjunct of an invariant is proved from the changes
it reads and not action by action.

* `SelectsFindTheirFiles`. `FileInv`: the files of everything stored, and those a
  compaction is about to swap in, are there (`FilesAreThere`); the children of
  a compaction were never active and belong to it alone (`KidsAreFresh`);
  events and tasks that remove a file name one that nothing will need again
  (`DeadAreCollected`), and a task waits for each select that was planned on its
  file (`RemovalsWait`). The third needs that a partition or chunk that has
  left is never active again, which the second gives for partitions.
* `ActiveChunksAreKept`, without `SlowInserts`. `ChunkInv`: the chunks an insert or
  a repartition has created are its own and still just created (`HeldAreCreated`),
  and the deletion of a chunk waits for whoever may activate it
  (`DeletionsWait`); without that hypothesis nothing waits for an insert.
* `HierarchyStaysWhole`. `WholeInv`: parents are older than their children, and
  whatever is there has its parent, its chunks their partition.

*The contents of partitions*, without `SlowInserts`: nothing keeps the
collection from the chunk of an insert that lasts longer than its delay, and
then its rows are lost. What a compaction reads, minutes before it swaps, is
described by `Keeps(A, B)`: A has rows of B only, and of every row of B it has
that row or a later one of its key. It is transitive and survives unions, so
merging twice or merging parts is no loss.

* `PlanInv`, `WorkInv`: what a worker knows is still known to the metastore, and what it
  has written keeps what it read. The children of a compaction divide the rows
  of their partition (`SplitsAreWhole`), the chunks of a repartition or of an
  insert have all its rows (`UploadsAreWhole`).
* `ContentsInv` is `RowsOnce` with `Keeps(Visible, Acknowledged)`. A swap is
  accepted only if all it replaces is still active, so it exchanges rows for
  rows that keep them. From it follow `RowsAreReadOnce`, `AcknowledgedStaysVisible`
  (with `KeepsSameMerge`: what a select merges is the same), and, without a
  unique key, the step of `IndexImplementsContents`: the one thing that changes
  `Visible` is the activation by an insert, which adds all its rows.

*The ranges of partitions*, without a unique key; with one they have the gaps of
section 6.

* `RangesStaySound`. `RangeInv`: rows and chunks are in the range of their partition
  (`RowsAreInRange`, `ChunksAreInRange`), and stay there while they are merged
  (`MergesAreInRange`); a partition that starts somewhere starts at a row it
  has (`StartsAtRow`), which is why a compaction that cuts at its rows leaves
  nothing out; what a task has listed covers every key (`ListsCover`), the
  active partitions cover each once (`KeysOnce`).
* `TableIsNotBroken` needs also that a job runs once (`StaleWorkers` FALSE). A
  compaction that was given to another worker and goes on may read the main
  file of its partition after the successor has swapped it and the collection
  has removed it, and deactivate the table; TLC finds this in a few steps with
  `Collected = {"file"}`. `JobsAreApart`: the partition of a compaction stays
  active until it swaps, and two workers have two targets.

*The store.* Writes are ordered by their ids, so that a store, a log and a
check point are compared as sets of writes (`WritesOf`), and the last write of a
key is the one with the largest id; no induction over sequences is needed.
`Shape` gives the types (`StoreTypeCorrect`), `InFlight` says what a check point in flight has
and has not written yet.

* `OperatorsChoiceStands` and `PointerIsComplete`. The second
  assumes that no operator sets the pointer, or that no upload of files ends half
  way: SET_CURRENT asks only that the snapshot is there, not that it is complete.
* `RestoredStaysPrefix`, `UploadedStaysRestorable`, `StoreKeepsItsWrites`.
  `UploadInv`: the history of each process continues a prefix of an earlier one
  (`Timelines`); every check point with its logs is a prefix of the history of
  its process (`RemoteIsSound`); a running store is its history
  (`StoreIsTimeline`), and a check point in flight a prefix of it
  (`UploadIsOfStore`); logs follow the check point and one another without a gap
  (`LogsContinue`); what is counted is saved (`UploadedIsSaved`).
* `StoreImplementsContract`: the saved prefix of `RocksStoreContract` only grows, as
  the pointer moves only to a check point that has all that was saved
  (`SavedIsOfStore`, `SavedCounts`, `StepOfContract`).
* `TruncatesAreFinal`, without logs and whatever fails. A check point is not
  always a prefix any more, but it has no gap: `ConvexInv` says that with two
  writes of its process it has every write between them, the truncate included
  (`RemoteIsConvex`, `UploadIsConvex`), and that the store has the latest
  writes (`StoreIsLate`).

The second and third group assume `Losses`: local files are lost, processes are
killed and files torn at any step, but no upload reports an error and goes on, no
operator truncates and no load is interrupted. Each is needed. After a check
point that failed, logs go to a directory that no pointer names: TLC finds
`RestoredIsPrefix` violated with "upload" among the faults, a `LogLimit` of 1
and 4 writes, `UploadedIsRestorable` with a `LogLimit` of 2 and 3 writes, and
`StoreHasItsWrites` with 4 writes. Section 6 has the other two.

Without logs, which is how the cachestore runs, these faults do no harm, and a
second set of theorems says so. They start from `ConvexInv`.

* `CheckPointsArePrefixes` and `StoreWithoutLogsIsWhole` exclude interrupted
  loads only. `WholeInv`: every check point has an initial part of the writes of its
  process, and a store has all of its history (`RemoteIsInitial`,
  `UploadIsInitial`, `StoreIsWhole`).
* `CheckPointsAreRestorable` excludes nothing. `CheckPointsCount`: a check point
  in flight has the batches of the store up to its last one, and the current
  one those that count as uploaded; it is left alone until another replaces it
  (`CurrentIsLeft`).

*The import.* For any number of tables, locations, frames, commands, runners,
retries and faults, from `TableImportAssumption`. `TypeCorrect`, and `InvHolds`
for `Inv`: a job of a table is added once (`AddedOnce`) and started once
(`StartedOnce`), so a frame is under way or active once (`FramesOnce`); a runner
knows which of its frames are active (`RunnerKnows`); the event and the status
"completed" are only there for a location that is imported
(`CompletedIsImported`); a table belongs to one command (`TablesOfCommands`). From
it follow `ReadyIsComplete`, `FailedLeaveNothing`, and, when all commands say IF
NOT EXISTS so that one at a time runs (`OneRuns`), `CreatedStays`. That a job
is started once although orphans are given up and tables created again rests
on `add_job` after the insertion of the table being the only source of jobs,
and on each attempt having a table id of its own.

*Model-checked only.* Every invariant, action property and refinement that a passing run
checks is stated by a theorem, under the hypotheses above, which the constants of its run
satisfy. The liveness properties are not: `StoredResultWakesReader`,
`PendingIsServed`, `AwaitedIsServed`, `WritesReachRemote`, `LeftoversGo`,
`CreateReturns` and `ImportsSettle` rest on fairness, and ENABLED is out of the
prover's reach.

## 6. Where code and documentation disagree

* `partitions_gaps`. In a table with a unique key, a compaction drops a
  superseded row. When it was the first of a bounded partition, the child that
  replaces the partition starts at the next row (`compaction.rs:806`, `:831` take
  the minimum of the file, not the bound of the parent), and the range between
  is in no active partition. A row with a key and an older sequence number in
  that range, inserted or moved later, fits nowhere, and the table is
  deactivated as corrupt (`store/mod.rs:2785`), where `store/mod.rs:1016` says
  that such gaps are expected and benign.

Three more are not among the runs; the constants show them:

* Request ids. With request ids in use (`CUBEJS_QUEUE_EXTERNAL_ID`),
  a request asked a second time while the result of its first execution is
  stored is executed again, and QUEUE ACK of that execution violates the unique
  index on (path, external id). The batch fails, `executeQuery` logs the error,
  and the slot stays taken until the heartbeat timeout, where `DEVELOPMENT.md`
  of the query orchestrator says that the freed slot is immediately given to
  the next query (`SlotsAreInUse` in
  `instances_refresh` with `Externals = {e1}` and `Asked <- SameRequest`).
* Truncate. SYS METASTORE TRUNCATE writes a range deletion, which is in
  no uploaded log; a restore from an earlier check point and the logs brings the
  old rows back, beside those written later. The SQL reference says that the
  command erases the keyspace and cannot be undone (`TruncateIsFinal` in
  `store_operator` with `LogEnabled = TRUE`).
* Interrupted load. `load_from_remote` takes an existing local directory for
  the store, also the one it had created itself and not filled when it was
  killed. The architecture page says that state survives a restart
  (`StoreHasItsWrites` in `store_durable` with `"interrupt"` among the faults).

What else was met while modelling is under "hazards" in `PROJECT.json`, among
others a check point that fails after its time became the directory of the logs:
until the next check point succeeds, logs count as
uploaded that no restore reads.

## 7. Abstractions, and what is not modelled

*Abstractions of the queue.* Paths, external ids and processes are model
values; a payload is present or not; the value of a result is the process that
reported it, which tells the properties whose word an answer is; `extra` is a
set of merged marks. The event channel is unbounded (2048 in the code; a reader
that lags behind gets an error, like `GiveUp`). The scheduler may miss an event
(`Broadcast`), as its channel is bounded too.

*Abstractions of the instances.* An answer of Cube Store is not lost: a call
either fails without effect (`CallFails`) or is answered. When a call before the
claims fails, the cancellations not sent yet are dropped with the reconcile. A
request that failed is over: the blocked reader Cube Store may still have for it
is left out, and a client that got an error and asks again is another waiter. A
client of a persistent query ends with the instance its query is keyed to. At
least one instance stays up. Streaming queries, `skipQueue` and the display of
queue stages are left out; the fast track through ADD_AND_RETRIEVE is a command
of the store model but no step of the instances' model.

*Abstractions of the store.* A write batch has one entry and the log limit is
in batches. Files of a check point are all there, partly there, or absent; nobody loads a partial one. Only the last log of
a process can be torn. Rows and indexes are not modelled: a batch is atomic,
which is RocksDB's promise. Clocks do not go back between check points.

*Abstractions of the partitions.* One index of one table: multi-partitions,
aggregate indexes, in-memory chunks and DROP TABLE are left out, and of the
repartition strategies the default, a job for each chunk. A compaction may cut
its rows between any two keys, where the code counts rows and bytes; it takes
any set of smallest chunks, where the code has limits. The files of an upload
appear in one step, and an upload that fails half way leaves, like one that
fails after it, chunks that nobody will activate. The content of a file is the
set of its rows.

*Abstractions of the import.* All tables have one name. A location is there or
not; stream locations and the parsing of files are left out, and so is a
`drop_table` that fails. The commands of a run name the same locations. The rows of a data
frame are activated together. The statistics and the retention of jobs are not
modelled.

*Not modelled*, with the reason in `PROJECT.json`: components planned below; the
planner, sketches, drivers, schema compiler, SQL API, front ends and libraries
(functional code or I/O without shared state); the local queue driver (a
stand-in for one instance); the MySQL frontend; the configuration.

## 8. Plan

What is left, in this order:

1. *Multi-partitions*: split of a multi-partition against inserts and
   compaction of its children.
2. *Partitions composed with `RocksStore`*: a deleted file is named by no
   snapshot that can still be loaded.
3. *Lazy cachestore*: init, WIPE and shutdown; two uploaders of one store.
4. *Cache and eviction*: CACHE commands against the eviction loop and its
   asynchronous totals.
5. *Remote fs queue and cleanup*: deduplicated downloads, uploads, deletion.
6. *SQL result cache and HTTP messages*: joined queries, reconnects.
7. *Streaming*: replay handles and offsets; no row of a stream imported twice
   nor skipped across restarts.
8. *More proofs*: the contract of the store without logs when uploads fail; what
   is still true of ranges and gaps with a unique key; the theorems of the
   modules above.
