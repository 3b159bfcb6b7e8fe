----------------------------- MODULE Partitions -----------------------------
(***************************************************************************)
(* The partitions and chunks of one index of a Cube Store table, as the    *)
(* rows of the metastore describe them, and everything that rewrites them  *)
(* at the same time: inserts, compactions that split a partition,          *)
(* repartitions of the chunks left behind, the garbage collection of the   *)
(* scheduler, and the selects that read the files meanwhile.               *)
(*                                                                         *)
(* Each action is one write operation of the metastore (atomic: one thread *)
(* runs them all) or one stretch of a task between two awaits.             *)
(***************************************************************************)
EXTENDS Integers, FiniteSets, FiniteSetsExt

CONSTANTS
  Insert,         \* inserts of the history, numbered: 1..n
  KeysOf,         \* the sort keys of the rows of an insert
  Slot,           \* workers that run compactions and repartitions
  Reader,         \* selects
  MaxPartition,   \* bound: rows of the partitions table ever created
  MaxChunk,       \* bound: rows of the chunks table ever created
  MaxChildren,    \* partitions a compaction may create (16 in the code)
  MaxFailures,    \* bound: failures of tasks and restarts of the scheduler
  Collected,      \* bound: kinds of garbage the scheduler gets to collect
  UniqueKey,      \* the table keeps the last row of a key, by sequence column
  StaleWorkers,   \* an orphaned job may still run when its successor starts
  SlowInserts     \* an insert may outlast the delay of the garbage collection

PId == 1 .. MaxPartition
CId == 1 .. MaxChunk
Key == UNION {KeysOf[i] : i \in Insert}
Row == Key \X Insert

ASSUME PartitionsAssumption ==
  /\ Insert \subseteq Nat /\ IsFiniteSet(Insert)
  /\ KeysOf \in [Insert -> SUBSET (Nat \ {0})]
  /\ \A i \in Insert : IsFiniteSet(KeysOf[i]) /\ KeysOf[i] # {}
  /\ Insert \cap Slot = {} /\ Insert \cap Reader = {} /\ Slot \cap Reader = {}
  /\ MaxPartition \in Nat \ {0} /\ MaxChunk \in Nat
  /\ MaxChildren \in Nat \ {0} /\ MaxFailures \in Nat
  /\ Collected \subseteq {"chunk", "file", "partition", "middleman"}
  /\ UniqueKey \in BOOLEAN /\ StaleWorkers \in BOOLEAN /\ SlowInserts \in BOOLEAN

VARIABLES
  partition,      \* rows of the partitions table
  chunk,          \* rows of the chunks table
  remote,         \* data files of the remote file system
  ins,            \* progress of the inserts
  job,            \* progress of the workers
  sel,            \* files a running select was planned on, {} when none runs
  events,         \* events of the metastore the scheduler has not handled
  gc,             \* queue of delayed tasks of the scheduler
  broken,         \* the table was deactivated as corrupt
  failures        \* failures so far

data  == <<partition, chunk, remote>>
tasks == <<ins, job, sel>>
sched == <<events, gc>>
vars  == <<partition, chunk, remote, ins, job, sel, events, gc, broken, failures>>

-----------------------------------------------------------------------------
(* Rows and their order.  A row is <<key, insert>>.  Bounds of partitions   *)
(* compare the whole sort key, which ends with the sequence column when the *)
(* table has a unique key; a split never separates rows of one key.         *)

NoLow == 0
Width == Max(Insert \cup {0}) + 1
Pos(r) == r[1] * Width + (IF UniqueKey THEN r[2] ELSE 0)
NoHigh == (Max(Key \cup {0}) + 1) * Width
RowsOf(i) == KeysOf[i] \X {i}
LowPos(rows) == Min({Pos(r) : r \in rows})

\* merge_chunks: sorts, and keeps the last row of a key when it is unique
Merge(rows) ==
  IF UniqueKey
  THEN {r \in rows : \A s \in rows : s[1] = r[1] => s[2] <= r[2]}
  ELSE rows

\* Ranges of partitions are closed below and open above
InRange(p, r) == partition[p].lo <= Pos(r) /\ Pos(r) < partition[p].hi

Active(p) == partition[p].state = "active"
Exists(p) == partition[p].state \in {"inactive", "active"}
MainFile(p) == <<"main", p>>
ChunkFile(c) == <<"chunk", c>>
HasMainFile(p) == Active(p) /\ partition[p].rows # {}

Live(c)   == chunk[c].state = "active"
Stored(c) == chunk[c].state \in {"created", "active", "inactive"}
ChunksOf(p) == {c \in CId : Stored(c) /\ chunk[c].part = p}
LiveChunksOf(p) == {c \in ChunksOf(p) : Live(c)}
ChildrenOf(p) == {q \in PId : Exists(q) /\ partition[q].parent = p}

NoPartition == [state |-> "free", parent |-> 0, lo |-> NoLow, hi |-> NoHigh, rows |-> {}]
NoChunk == [state |-> "free", part |-> 0, rows |-> {}]
NewChild(p) == [NoPartition EXCEPT !.state = "inactive", !.parent = p]

\* Identifiers grow and are not reused: the last one of each table
LastPartition == Max({0} \cup {p \in PId : partition[p].state # "free"})
LastChunk == Max({0} \cup {c \in CId : chunk[c].state # "free"})

-----------------------------------------------------------------------------
(* Tasks and the time they may take.  A select ends before query_timeout,   *)
(* a job is aborted after import_job_timeout; a task of the garbage         *)
(* collection waits for the tasks whose limit its own delay exceeds.        *)

Idle == [pc |-> "idle", target |-> <<>>]
NotInserted == [pc |-> "idle"]

Readers == {r \in Reader : sel[r] # {}}
Inserting == {i \in Insert : ins[i].pc \in {"routing", "uploaded"}}
Working == {s \in Slot : job[s].pc # "idle"}

\* not_used_timeout is twice query_timeout
AfterQueries == Readers
\* Mutant of AfterJobs: the delay is shorter than an insert
AfterJobsOnly == Readers \cup Working

\* import_job_timeout and two snapshot intervals are no less than any limit
AfterJobs == Readers \cup Working \cup (IF SlowInserts THEN {} ELSE Inserting)

\* DeadlineQueue: a task that is already pending keeps its place
Schedule(kind, ids, wait) ==
  gc \cup {[kind |-> kind, id |-> x, wait |-> wait, checked |-> FALSE] :
             x \in {y \in ids : \A t \in gc : ~(t.kind = kind /\ t.id = y /\ ~t.checked)}}

\* Mutant of Ended: the first task that ends releases the queue
EndedAny(queue, who) == {[t EXCEPT !.wait = {}] : t \in queue}

\* A task that has ended no longer holds anything back
Ended(queue, who) == {[t EXCEPT !.wait = @ \ {who}] : t \in queue}

Due(t) == t \in gc /\ t.wait = {}

\* create_chunk for each partition that gets rows, then the upload of its file
NewChunks(ps, rows) ==
  LET home(r) == Min({p \in ps : InRange(p, r)})
      parts == {home(r) : r \in rows}
      num(p) == LastChunk + Cardinality({q \in parts : q <= p})
  IN  {[id |-> num(p), part |-> p, rows |-> {r \in rows : home(r) = p}] : p \in parts}

Routable(ps, rows) == \A r \in rows : \E p \in ps : InRange(p, r)

\* Rows of the chunks table that news describes, just created and uploaded
WithChunks(news) ==
  [c \in CId |-> IF \E n \in news : n.id = c
                 THEN LET n == CHOOSE x \in news : x.id = c
                      IN  [state |-> "created", part |-> n.part, rows |-> n.rows]
                 ELSE chunk[c]]
Ids(news) == {n.id : n \in news}
SetState(cs, st) == [c \in CId |-> IF c \in cs THEN [chunk[c] EXCEPT !.state = st] ELSE chunk[c]]
ActivePartitions == {p \in PId : Active(p)}

Init ==
  /\ partition = [p \in PId |-> IF p = 1 THEN [NoPartition EXCEPT !.state = "active"]
                                ELSE NoPartition]
  /\ chunk = [c \in CId |-> NoChunk]
  /\ remote = {}
  /\ ins = [i \in Insert |-> NotInserted]
  /\ job = [s \in Slot |-> Idle]
  /\ sel = [r \in Reader |-> {}]
  /\ events = {} /\ gc = {}
  /\ broken = FALSE /\ failures = 0

-----------------------------------------------------------------------------
(* INSERT (and the import of a file): the rows are routed to the partitions *)
(* that were active when they were listed, written to a chunk for each, and *)
(* all the chunks are activated in one write operation.                     *)

InsertEnds(i, pc) ==
  /\ ins' = [ins EXCEPT ![i] = [pc |-> pc]]
  /\ gc' = Ended(gc, i)

InsertRoute(i) ==
  /\ ins[i].pc = "idle"
  /\ ins' = [ins EXCEPT ![i] = [pc |-> "routing", parts |-> ActivePartitions]]
  /\ UNCHANGED <<data, job, sel, sched, broken, failures>>

\* partition_rows_for_index; rows that fit no partition deactivate the table
InsertUpload(i) ==
  /\ ins[i].pc = "routing"
  /\ IF Routable(ins[i].parts, RowsOf(i))
     THEN LET news == NewChunks(ins[i].parts, RowsOf(i)) IN
          /\ Ids(news) \subseteq CId
          /\ chunk' = WithChunks(news)
          /\ remote' = remote \cup {ChunkFile(c) : c \in Ids(news)}
          /\ ins' = [ins EXCEPT ![i] = [pc |-> "uploaded", chunks |-> Ids(news)]]
          /\ UNCHANGED <<gc, broken>>
     ELSE /\ InsertEnds(i, "failed")
          /\ broken' = TRUE
          /\ UNCHANGED <<chunk, remote>>
  /\ UNCHANGED <<partition, job, sel, events, failures>>

\* activate_chunks looks every chunk and its partition up
CanActivate(cs) ==
  \A c \in cs : Stored(c) /\ Exists(chunk[c].part)

InsertActivate(i) ==
  /\ ins[i].pc = "uploaded"
  /\ IF CanActivate(ins[i].chunks)
     THEN chunk' = SetState(ins[i].chunks, "active") /\ InsertEnds(i, "done")
     ELSE InsertEnds(i, "failed") /\ UNCHANGED chunk
  /\ UNCHANGED <<partition, remote, job, sel, events, broken, failures>>

\* An upload fails or the process dies: what was created stays behind
InsertFails(i) ==
  /\ ins[i].pc \in {"routing", "uploaded"} /\ failures < MaxFailures
  /\ InsertEnds(i, "failed")
  /\ failures' = failures + 1
  /\ UNCHANGED <<data, job, sel, events, broken>>

-----------------------------------------------------------------------------
(* Workers.  A job names a partition to compact or a chunk to move; job     *)
(* rows are unique, so that two workers run the same one only when the      *)
(* first was taken for dead.                                                *)

Free(s, target) ==
  /\ job[s].pc = "idle"
  /\ ~StaleWorkers => \A t \in Slot : job[t].target # target

JobEnds(s) ==
  /\ job' = [job EXCEPT ![s] = Idle]
  /\ gc' = Ended(gc, s)

\* An error, the time limit, or the death of the worker
JobFails(s) ==
  /\ job[s].pc # "idle" /\ failures < MaxFailures
  /\ JobEnds(s)
  /\ failures' = failures + 1
  /\ UNCHANGED <<data, ins, sel, events, broken>>

\* compact: the partition row.  Bounds and rows of a partition that was once
\* active do not change any more, only its state and its parent do.
CompactRead(s, p) ==
  /\ Active(p) /\ LiveChunksOf(p) # {} /\ Free(s, MainFile(p))
  /\ LastPartition + MaxChildren <= MaxPartition   \* bound
  /\ job' = [job EXCEPT ![s] = [pc |-> "planning", target |-> MainFile(p), part |-> p]]
  /\ UNCHANGED <<data, ins, sel, sched, broken, failures>>

\* The smallest of the chunks, up to a limit of rows and bytes
Smallest(cs) ==
  {d \in SUBSET cs : d # {} /\ \A a \in d, b \in cs \ d :
                                Cardinality(chunk[a].rows) <= Cardinality(chunk[b].rows)}

\* ... its chunks and their files, and children for the split
CompactPlan(s) ==
  /\ job[s].pc = "planning"
  /\ LET p == job[s].part IN
     \/ /\ LiveChunksOf(p) = {}
        /\ JobEnds(s) /\ UNCHANGED <<partition, broken>>
     \/ \E cs \in Smallest(LiveChunksOf(p)) :
          IF \A c \in cs : ChunkFile(c) \in remote
          THEN \E n \in 1 .. MaxChildren :
                 LET base == LastPartition + 1
                     kids == base .. base + n - 1
                 IN  /\ kids \subseteq PId
                     /\ partition' = [q \in PId |-> IF q \in kids THEN NewChild(p)
                                                   ELSE partition[q]]
                     /\ job' = [job EXCEPT ![s] =
                                  [pc |-> "merging", target |-> @.target, part |-> p,
                                   chunks |-> cs, kids |-> kids]]
                     /\ UNCHANGED <<gc, broken>>
          ELSE JobEnds(s) /\ broken' = TRUE /\ UNCHANGED partition
  /\ UNCHANGED <<chunk, remote, ins, sel, events, failures>>

MergedRows(j) == Merge(partition[j.part].rows \cup UNION {chunk[c].rows : c \in j.chunks})

\* write_to_files: rows of the i-th file when it is cut before these keys
Slice(rows, cuts, i) ==
  {r \in rows : Cardinality({k \in cuts : k <= r[1]}) = i - 1}

\* get_full_name in the row the job has read
MissesMainFile(j) == partition[j.part].rows # {} /\ MainFile(j.part) \notin remote

\* Mutant of CanDropChildren: only the children of a partition are looked at
CanDropChildless(ps) == \A p \in ps : Exists(p) /\ ChildrenOf(p) = {}

CanDropChildren(ps) ==
  \A p \in ps : partition[p].state = "inactive" /\ ChunksOf(p) = {} /\ ChildrenOf(p) = {}

\* The old main file, the files of the children that get rows; the other
\* children are deleted
CompactWrite(s) ==
  /\ job[s].pc = "merging"
  /\ LET j == job[s]
         keys == {r[1] : r \in MergedRows(j)}
     IN  IF MissesMainFile(j)
         THEN /\ JobEnds(s)
              /\ broken' = (broken \/ Exists(j.part))
              /\ UNCHANGED <<partition, remote>>
         ELSE \E cuts \in SUBSET (keys \ {Min(keys)}) :
                LET m == Cardinality(cuts) + 1
                    used == {q \in j.kids : q < Min(j.kids) + m}
                IN  /\ m <= Cardinality(j.kids)
                    /\ remote' = remote \cup {MainFile(q) : q \in used}
                    /\ IF CanDropChildren(j.kids \ used)
                       THEN /\ partition' = [q \in PId |->
                                 IF q \in j.kids \ used
                                 THEN [partition[q] EXCEPT !.state = "deleted"]
                                 ELSE partition[q]]
                            /\ job' = [job EXCEPT ![s] =
                                 [pc |-> "swapping", target |-> j.target, part |-> j.part,
                                  chunks |-> j.chunks,
                                  out |-> [q \in used |->
                                     Slice(MergedRows(j), cuts, q - Min(j.kids) + 1)]]]
                            /\ UNCHANGED gc
                       ELSE JobEnds(s) /\ UNCHANGED partition
                    /\ UNCHANGED broken
  /\ UNCHANGED <<chunk, ins, sel, events, failures>>

\* Mutant of ChildLow: every child starts at its first row
ChildLowAtFirstRow(j, q) == LowPos(j.out[q])

\* The first child of an unbounded range stays unbounded; of a bounded one it
\* starts at its first row.  The last one ends where the range ended.
ChildLow(j, q) ==
  IF q = Min(DOMAIN j.out) /\ (Cardinality(DOMAIN j.out) = 1 \/ partition[j.part].lo = NoLow)
  THEN partition[j.part].lo
  ELSE LowPos(j.out[q])
ChildHigh(j, q) ==
  IF q = Max(DOMAIN j.out) THEN partition[j.part].hi ELSE LowPos(j.out[q + 1])

CountRows(cs) == MapThenSumSet(LAMBDA c : Cardinality(chunk[c].rows), cs)

\* swap_active_partitions_impl
CanSwapPartitions(j) ==
  /\ Active(j.part)
  /\ \A c \in j.chunks : Live(c)
  /\ \A q \in DOMAIN j.out : partition[q].state = "inactive"
  /\ \/ UniqueKey
     \/ MapThenSumSet(LAMBDA q : Cardinality(j.out[q]), DOMAIN j.out)
          = Cardinality(partition[j.part].rows) + CountRows(j.chunks)

\* Mutant of TakesOver: the first of several children gets the chunks, too
TakesOverAlways(j) == partition[j.part].lo = NoLow

\* One child of an unbounded partition takes over the chunks that came since:
\* the bounds of a child are none in the row the job has read
TakesOver(j) ==
  /\ Cardinality(DOMAIN j.out) = 1
  /\ partition[j.part].lo = NoLow /\ partition[j.part].hi = NoHigh

\* Mutant of SwappedPartitions: only the first child becomes active
SwappedPartitionsFirst(j) ==
  [q \in PId |->
     IF q = j.part THEN [partition[q] EXCEPT !.state = "inactive"]
     ELSE IF q = Min(DOMAIN j.out)
          THEN [partition[q] EXCEPT !.state = "active", !.rows = j.out[q],
                                    !.lo = ChildLow(j, q), !.hi = ChildHigh(j, q)]
          ELSE partition[q]]

SwappedPartitions(j) ==
  [q \in PId |->
     IF q = j.part THEN [partition[q] EXCEPT !.state = "inactive"]
     ELSE IF q \in DOMAIN j.out
          THEN [partition[q] EXCEPT !.state = "active", !.rows = j.out[q],
                                    !.lo = ChildLow(j, q), !.hi = ChildHigh(j, q)]
          ELSE partition[q]]

\* Mutant of SwappedChunks: chunks that came since the plan are swapped out
SwappedChunksOfPartition(j) == SetState(ChunksOf(j.part), "inactive")

SwappedChunks(j) ==
  [c \in CId |->
     IF c \in j.chunks THEN [chunk[c] EXCEPT !.state = "inactive"]
     ELSE IF TakesOver(j) /\ c \in ChunksOf(j.part)
          THEN [chunk[c] EXCEPT !.part = Min(DOMAIN j.out)]
          ELSE chunk[c]]

CompactSwap(s) ==
  /\ job[s].pc = "swapping"
  /\ IF CanSwapPartitions(job[s])
     THEN /\ partition' = SwappedPartitions(job[s])
          /\ chunk' = SwappedChunks(job[s])
          /\ events' = events \cup {<<"deactivated", job[s].part>>}
     ELSE UNCHANGED <<partition, chunk, events>>
  /\ JobEnds(s)
  /\ UNCHANGED <<remote, ins, sel, broken, failures>>

\* repartition_chunk: the chunk of an inactive partition, its file, and the
\* partitions that are active now
MovesFrom(c) == Live(c) /\ partition[chunk[c].part].state = "inactive"

RepartitionRead(s, c) ==
  /\ MovesFrom(c) /\ Free(s, ChunkFile(c))
  /\ IF ChunkFile(c) \in remote
     THEN /\ job' = [job EXCEPT ![s] = [pc |-> "routing", target |-> ChunkFile(c),
                                       chunk |-> c, parts |-> ActivePartitions]]
          /\ UNCHANGED broken
     ELSE broken' = TRUE /\ UNCHANGED job
  /\ UNCHANGED <<data, ins, sel, sched, failures>>

RepartitionUpload(s) ==
  /\ job[s].pc = "routing"
  /\ LET j == job[s] IN
     IF Routable(j.parts, chunk[j.chunk].rows)
     THEN LET news == NewChunks(j.parts, chunk[j.chunk].rows) IN
          /\ Ids(news) \subseteq CId
          /\ chunk' = WithChunks(news)
          /\ remote' = remote \cup {ChunkFile(c) : c \in Ids(news)}
          /\ job' = [job EXCEPT ![s] = [pc |-> "moving", target |-> j.target,
                                       chunk |-> j.chunk, chunks |-> Ids(news)]]
          /\ UNCHANGED <<gc, broken>>
     ELSE JobEnds(s) /\ broken' = TRUE /\ UNCHANGED <<chunk, remote>>
  /\ UNCHANGED <<partition, ins, sel, events, failures>>

\* Mutants of CanSwapChunks: a chunk that was moved already, or only one that
\* is still on an active partition
CanSwapChunksTwice(j) ==
  /\ Exists(chunk[j.chunk].part)
  /\ \A c \in j.chunks : Stored(c) /\ ~Live(c) /\ Exists(chunk[c].part)
CanSwapChunksOfActive(j) ==
  /\ Live(j.chunk) /\ Active(chunk[j.chunk].part)
  /\ \A c \in j.chunks : Stored(c) /\ ~Live(c) /\ Exists(chunk[c].part)

\* swap_chunks_impl, with its check of the number of rows
CanSwapChunks(j) ==
  /\ Live(j.chunk) /\ Exists(chunk[j.chunk].part)
  /\ \A c \in j.chunks : Stored(c) /\ ~Live(c) /\ Exists(chunk[c].part)
  /\ CountRows(j.chunks) = Cardinality(chunk[j.chunk].rows)

RepartitionSwap(s) ==
  /\ job[s].pc = "moving"
  /\ IF CanSwapChunks(job[s])
     THEN chunk' = [c \in CId |->
            IF c = job[s].chunk THEN [chunk[c] EXCEPT !.state = "inactive"]
            ELSE IF c \in job[s].chunks THEN [chunk[c] EXCEPT !.state = "active"]
                 ELSE chunk[c]]
     ELSE UNCHANGED chunk
  /\ JobEnds(s)
  /\ UNCHANGED <<partition, remote, ins, sel, events, broken, failures>>

-----------------------------------------------------------------------------
(* Selects are planned on the rows of one moment, and read the files later. *)

VisibleFiles ==
  {MainFile(p) : p \in {q \in PId : HasMainFile(q)}}
    \cup {ChunkFile(c) : c \in {d \in CId : Live(d) /\ Exists(chunk[d].part)}}

HasItsParent(p) == partition[p].parent # 0 => Exists(partition[p].parent)

SelectPlan(r) ==
  /\ sel[r] = {} /\ VisibleFiles # {}
  /\ \A p \in PId : Exists(p) => HasItsParent(p)
  /\ sel' = [sel EXCEPT ![r] = VisibleFiles]
  /\ UNCHANGED <<data, ins, job, sched, broken, failures>>

\* Whether the worker found them all, or deactivated the table for one missing
SelectEnd(r) ==
  /\ sel[r] # {}
  /\ sel' = [sel EXCEPT ![r] = {}]
  /\ gc' = Ended(gc, r)
  /\ broken' = (broken \/ \E f \in sel[r] : /\ f \notin remote
                                           /\ \/ f[1] = "main" /\ Exists(f[2])
                                              \/ f[1] = "chunk" /\ Stored(f[2]))
  /\ UNCHANGED <<data, ins, job, events, failures>>

-----------------------------------------------------------------------------
(* The scheduler: events of the metastore, the reconcile loop, and the      *)
(* queue of delayed tasks, which a restart forgets.                         *)

\* The files of a swapped partition and of a deleted chunk
HandleEvent(e) ==
  /\ e \in events /\ "file" \in Collected
  /\ events' = events \ {e}
  /\ gc' = CASE e[1] = "deactivated" /\ partition[e[2]].state = "inactive"
                  /\ partition[e[2]].rows # {}
                -> Schedule("file", {MainFile(e[2])}, AfterQueries)
           [] e[1] = "deleted" -> Schedule("file", {ChunkFile(e[2])}, AfterJobs)
           [] OTHER -> gc
  /\ UNCHANGED <<data, tasks, broken, failures>>

JustCreated(p) ==
  /\ partition[p].state = "inactive" /\ partition[p].rows = {}
  /\ partition[p].lo = NoLow /\ partition[p].hi = NoHigh

\* An inactive partition without chunks between a parent of the same range and
\* its children
MiddleMan(p) ==
  /\ partition[p].state = "inactive" /\ ChunksOf(p) = {}
  /\ partition[p].parent # 0 /\ Exists(partition[p].parent)
  /\ partition[partition[p].parent].lo = partition[p].lo
  /\ partition[partition[p].parent].hi = partition[p].hi

Reconcile(kind, ids, wait) ==
  /\ kind \in Collected
  /\ gc' = Schedule(kind, ids, wait)
  /\ gc' # gc
  /\ UNCHANGED <<data, tasks, events, broken, failures>>

RemoveInactiveChunks ==
  Reconcile("chunk", {c \in CId : chunk[c].state = "inactive"}, AfterQueries)
RemoveInactiveNotUploadedChunks ==
  Reconcile("chunk", {c \in CId : chunk[c].state = "created"}, AfterJobs)
DeleteCreatedButNotWrittenPartitions ==
  Reconcile("partition", {p \in PId : JustCreated(p)}, AfterJobs)
DeleteMiddleManPartitions ==
  Reconcile("middleman", {p \in PId : MiddleMan(p)}, AfterJobs)

\* process_gc_tasks: a chunk is looked at, and deleted later without a check
CheckChunk(t) ==
  /\ Due(t) /\ t.kind = "chunk" /\ ~t.checked
  /\ gc' = (gc \ {t}) \cup (IF Live(t.id) THEN {} ELSE {[t EXCEPT !.checked = TRUE]})
  /\ UNCHANGED <<data, tasks, events, broken, failures>>

DeleteChunk(t) ==
  /\ Due(t) /\ t.kind = "chunk" /\ t.checked
  /\ gc' = gc \ {t}
  /\ IF Stored(t.id)
     THEN /\ chunk' = SetState({t.id}, "deleted")
          /\ events' = IF chunk[t.id].state = "created" THEN events
                       ELSE events \cup {<<"deleted", t.id>>}
     ELSE UNCHANGED <<chunk, events>>
  /\ UNCHANGED <<partition, remote, tasks, broken, failures>>

RemoveRemoteFile(t) ==
  /\ Due(t) /\ t.kind = "file"
  /\ gc' = gc \ {t}
  /\ remote' = remote \ {t.id}
  /\ UNCHANGED <<partition, chunk, tasks, events, broken, failures>>

DeletePartition(t) ==
  /\ Due(t) /\ t.kind = "partition"
  /\ gc' = gc \ {t}
  /\ partition' = IF CanDropChildren({t.id})
                  THEN [partition EXCEPT ![t.id].state = "deleted"]
                  ELSE partition
  /\ UNCHANGED <<chunk, remote, tasks, events, broken, failures>>

DeleteMiddleManPartition(t) ==
  /\ Due(t) /\ t.kind = "middleman"
  /\ gc' = gc \ {t}
  /\ IF MiddleMan(t.id)
     THEN /\ partition' = [q \in PId |->
               IF q = t.id THEN [partition[q] EXCEPT !.state = "deleted"]
               ELSE IF q \in ChildrenOf(t.id)
                    THEN [partition[q] EXCEPT !.parent = partition[t.id].parent]
                    ELSE partition[q]]
          /\ events' = events \cup {<<"deactivated", q>> :
                          q \in {x \in ChildrenOf(t.id) : ~Active(x)}}
     ELSE UNCHANGED <<partition, events>>
  /\ UNCHANGED <<chunk, remote, tasks, broken, failures>>

SchedulerRestart ==
  /\ failures < MaxFailures
  /\ failures' = failures + 1
  /\ events' = {} /\ gc' = {}
  /\ UNCHANGED <<data, tasks, broken>>

-----------------------------------------------------------------------------
InsertStep(i) == InsertRoute(i) \/ InsertUpload(i) \/ InsertActivate(i)
CompactStep(s) == CompactPlan(s) \/ CompactWrite(s) \/ CompactSwap(s)
RepartitionStep(s) == RepartitionUpload(s) \/ RepartitionSwap(s)
GcStep(t) ==
  \/ CheckChunk(t) \/ DeleteChunk(t) \/ RemoveRemoteFile(t)
  \/ DeletePartition(t) \/ DeleteMiddleManPartition(t)

Next ==
  \/ \E i \in Insert : InsertStep(i) \/ InsertFails(i)
  \/ \E s \in Slot, p \in PId : CompactRead(s, p)
  \/ \E s \in Slot, c \in CId : RepartitionRead(s, c)
  \/ \E s \in Slot : CompactStep(s) \/ RepartitionStep(s) \/ JobFails(s)
  \/ \E r \in Reader : SelectPlan(r) \/ SelectEnd(r)
  \/ \E e \in events : HandleEvent(e)
  \/ RemoveInactiveChunks \/ RemoveInactiveNotUploadedChunks
  \/ DeleteCreatedButNotWrittenPartitions \/ DeleteMiddleManPartitions
  \/ \E t \in gc : GcStep(t)
  \/ SchedulerRestart

Spec == Init /\ [][Next]_vars

Fairness ==
  /\ \A i \in Insert : WF_vars(InsertUpload(i) \/ InsertActivate(i))
  /\ \A s \in Slot : WF_vars(CompactStep(s) \/ RepartitionStep(s))
  /\ \A c \in CId : WF_vars(\E s \in Slot : RepartitionRead(s, c))
  /\ \A r \in Reader : WF_vars(SelectEnd(r))
  /\ WF_vars(RemoveInactiveChunks) /\ WF_vars(RemoveInactiveNotUploadedChunks)
  /\ WF_vars(DeleteCreatedButNotWrittenPartitions)
  /\ \A c \in CId : /\ WF_vars(\E t \in gc : CheckChunk(t) /\ t.id = c)
                    /\ WF_vars(\E t \in gc : DeleteChunk(t) /\ t.id = c)
  /\ \A p \in PId : WF_vars(\E t \in gc : DeletePartition(t) /\ t.id = p)

FairSpec == Spec /\ Fairness

-----------------------------------------------------------------------------
(* Properties *)

Tasks == Insert \cup Slot \cup Reader
File == {MainFile(p) : p \in PId} \cup {ChunkFile(c) : c \in CId}

InsertState ==
  [pc : {"idle", "done", "failed"}] \cup [pc : {"routing"}, parts : SUBSET PId]
    \cup [pc : {"uploaded"}, chunks : SUBSET CId]
Split == UNION {[ps -> SUBSET Row] : ps \in SUBSET PId}
Compaction ==
  [pc : {"planning"}, target : File, part : PId]
    \cup [pc : {"merging"}, target : File, part : PId, chunks : SUBSET CId, kids : SUBSET PId]
    \cup [pc : {"swapping"}, target : File, part : PId, chunks : SUBSET CId, out : Split]
Repartition ==
  [pc : {"routing"}, target : File, chunk : CId, parts : SUBSET PId]
    \cup [pc : {"moving"}, target : File, chunk : CId, chunks : SUBSET CId]
Garbage ==
  [kind : {"chunk"}, id : CId, wait : SUBSET Tasks, checked : BOOLEAN]
    \cup [kind : {"file"}, id : File, wait : SUBSET Tasks, checked : {FALSE}]
    \cup [kind : {"partition", "middleman"}, id : PId, wait : SUBSET Tasks, checked : {FALSE}]

TypeOK ==
  /\ partition \in [PId -> [state : {"free", "inactive", "active", "deleted"},
                            parent : {0} \cup PId, lo : 0 .. NoHigh, hi : 0 .. NoHigh,
                            rows : SUBSET Row]]
  /\ chunk \in [CId -> [state : {"free", "created", "active", "inactive", "deleted"},
                        part : {0} \cup PId, rows : SUBSET Row]]
  /\ remote \subseteq File
  /\ ins \in [Insert -> InsertState]
  /\ job \in [Slot -> {Idle} \cup Compaction \cup Repartition]
  /\ sel \in [Reader -> SUBSET File]
  /\ events \subseteq ({"deactivated"} \X PId) \cup ({"deleted"} \X CId)
  /\ gc \subseteq Garbage
  /\ broken \in BOOLEAN /\ failures \in 0 .. MaxFailures

\* Places a select reads rows from: main tables of active partitions and
\* active chunks, of whatever partition
Place == ({"main"} \X PId) \cup ({"chunk"} \X CId)
RowsAt(x) ==
  IF x[1] = "main"
  THEN IF Active(x[2]) THEN partition[x[2]].rows ELSE {}
  ELSE IF Live(x[2]) THEN chunk[x[2]].rows ELSE {}
Visible == UNION {RowsAt(x) : x \in Place}
Acknowledged == UNION {RowsOf(i) : i \in {k \in Insert : ins[k].pc = "done"}}

\* Whatever compactions, repartitions, failures and collections are under way,
\* a select sees every acknowledged row, and none of an insert that is not
\* finished or failed (swap_active_partitions, swap_chunks, activate_chunks).
AcknowledgedIsVisible == Merge(Visible) = Merge(Acknowledged)

\* No row is read twice: two workers that rewrite the same rows, or a
\* repartition of a chunk that a compaction has merged, cannot both win.
RowsOnce ==
  \A x, y \in Place : x # y => RowsAt(x) \cap RowsAt(y) = {}

\* The ranges of the active partitions cover every key once, so that routing
\* of an insert or of a repartitioned chunk never fails and is unambiguous, and
\* hold the rows of their partition, so that a select that skips partitions by
\* their range misses none.  The first child of a split starts at its first
\* row and not where the range of its parent starts: this is the same as long
\* as no row goes away.  A swap moves chunks to a child only when it covers all.
KeysCovered ==
  \A r \in Row : Cardinality({p \in PId : Active(p) /\ InRange(p, r)}) = 1
RowsInRange ==
  /\ \A p \in PId : Active(p) => \A r \in partition[p].rows : InRange(p, r)
  /\ \A c \in CId : Live(c) => \A r \in chunk[c].rows : InRange(chunk[c].part, r)
RangesAreSound == KeysCovered /\ RowsInRange

\* A select that was planned finds all of its files until it ends, while the
\* scheduler removes the files of swapped partitions and chunks.
SelectFindsItsFiles == \A r \in Reader : sel[r] \subseteq remote

\* A select walks from each partition to the root and fails on a missing row,
\* and an active chunk without its partition is dropped: deletions of just
\* created and of middle man partitions leave no orphan.
HierarchyIsWhole ==
  /\ \A p \in PId : Exists(p) => HasItsParent(p)
  /\ \A c \in CId : Live(c) => Exists(chunk[c].part)

\* The table is never deactivated as corrupt while its data is fine.
NotBroken == ~broken

\* An active row of the chunks table is not deleted, though the deletion does
\* not look at the row again.
ActiveChunksStay ==
  [][\A c \in CId : Live(c) => chunk[c]'.state # "deleted"]_chunk

\* The index implements the abstract table.
Contents == INSTANCE TableContents WITH contents <- Visible, RowsOf <- RowsOf
ImplementsContents == Contents!Spec

\* What swaps and failed tasks leave behind disappears, whatever failed in
\* between: chunks on an inactive partition move to the active ones, rows of the
\* metastore that nothing will use are deleted.
Stranded == {c \in CId : Live(c) /\ ~Active(chunk[c].part)}
Debris ==
  {p \in PId : JustCreated(p) /\ CanDropChildren({p}) /\ "partition" \in Collected}
    \cup {c \in CId : chunk[c].state \in {"created", "inactive"} /\ "chunk" \in Collected}
LeftoversGo == []<>(Stranded = {} /\ Debris = {})

=============================================================================
