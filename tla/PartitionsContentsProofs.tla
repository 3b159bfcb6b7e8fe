---------------------- MODULE PartitionsContentsProofs ----------------------
(***************************************************************************)
(* What a select reads is what inserts have acknowledged, for any number   *)
(* of inserts, keys, workers, selects, failures and collections, as long   *)
(* as no insert outlasts the delay of the garbage collection: rows are     *)
(* neither lost nor read twice nor read too early, however compactions,    *)
(* repartitions, jobs that run twice and deletions overtake one another.   *)
(***************************************************************************)
EXTENDS PartitionsProofs

(* Sets of rows.  A keeps B when it has the last row of each key of B, and  *)
(* all rows of B when the table has no unique key.                          *)

Keeps(A, B) ==
  /\ A \subseteq B
  /\ \A r \in B : \E s \in A : s = r \/ (UniqueKey /\ s[1] = r[1] /\ s[2] > r[2])

\* A row is a key and the number of an insert.
LEMMA RowParts == \A r \in Row : r[1] \in Key /\ r[2] \in Insert /\ r[2] \in Nat /\ r = <<r[1], r[2]>>
<1>1. Insert \subseteq Nat
  BY PartitionsAssumption
<1>2. \A r \in Row : r[1] \in Key /\ r[2] \in Insert
  BY DEF Row
<1>3. \A r \in Row : r = <<r[1], r[2]>>
  BY DEF Row
<1> QED BY <1>1, <1>2, <1>3

\* A merge drops no row that is the last one of its key.
LEMMA MergeKeeps ==
  ASSUME NEW A \in SUBSET Row
  PROVE  Keeps(Merge(A), A)
<1>1. CASE ~UniqueKey
  BY <1>1 DEF Keeps, Merge
<1>2. CASE UniqueKey
  <2>1. Merge(A) \subseteq A
    BY DEF Merge
  <2>2. ASSUME NEW r \in A
        PROVE  \E s \in Merge(A) : s = r \/ (s[1] = r[1] /\ s[2] > r[2])
    <3> DEFINE N == {i \in Insert : <<r[1], i>> \in A}
    <3>1. r[2] \in N
      BY RowParts
    <3>2. IsFiniteSet(N) /\ N \in SUBSET Int
      <4>1. IsFiniteSet(Insert) /\ Insert \subseteq Nat
        BY PartitionsAssumption
      <4>2. N \subseteq Insert
        OBVIOUS
      <4> HIDE DEF N
      <4>3. IsFiniteSet(N)
        BY <4>1, <4>2, FS_Subset
      <4>4. N \in SUBSET Int
        BY <4>1, <4>2
      <4> QED BY <4>3, <4>4
    <3>3. \A i \in N : <<r[1], i>> \in A
      OBVIOUS
    <3>4. \A s \in A : s[1] = r[1] => s[2] \in N /\ s = <<r[1], s[2]>>
      BY RowParts
    <3> HIDE DEF N
    <3>5. Max(N) \in N /\ \A i \in N : i <= Max(N)
      BY <3>1, <3>2, FiniteHasMax
    <3> DEFINE m == Max(N)
           s == <<r[1], m>>
    <3> HIDE DEF m
    <3>6. s \in A /\ m \in Int /\ r[2] \in Int /\ r[2] <= m
      BY <3>1, <3>2, <3>3, <3>5 DEF m
    <3>7. \A t \in A : t[1] = s[1] => t[2] <= s[2]
      BY <3>4, <3>5 DEF m
    <3>8. s \in Merge(A)
      BY <1>2, <3>6, <3>7 DEF Merge
    <3>9. s = r \/ (s[1] = r[1] /\ s[2] > r[2])
      <4>1. r = <<r[1], r[2]>>
        BY RowParts
      <4> QED BY <3>6, <4>1
    <3> QED BY <3>8, <3>9
  <2> QED BY <1>2, <2>1, <2>2 DEF Keeps
<1> QED BY <1>1, <1>2

\* Rows that keep others have the same merge.
LEMMA KeepsSameMerge ==
  ASSUME NEW B \in SUBSET Row, NEW A, Keeps(A, B)
  PROVE  Merge(A) = Merge(B)
<1>1. CASE ~UniqueKey
  <2>1. A = B
    BY <1>1 DEF Keeps
  <2> QED BY <2>1
<1>2. CASE UniqueKey
  <2>0. \A r \in B : r[2] \in Nat
    BY RowParts
  <2>1. ASSUME NEW r \in A, \A s \in A : s[1] = r[1] => s[2] <= r[2],
               NEW s \in B, s[1] = r[1]
        PROVE  s[2] <= r[2]
    <3>1. PICK t \in A : t = s \/ (t[1] = s[1] /\ t[2] > s[2])
      BY DEF Keeps
    <3>2. t[2] <= r[2]
      BY <2>1, <3>1
    <3>3. t \in B /\ r \in B
      BY DEF Keeps
    <3> QED BY <2>0, <3>1, <3>2, <3>3
  <2>2. ASSUME NEW r \in B, \A s \in B : s[1] = r[1] => s[2] <= r[2]
        PROVE  r \in A
    <3>1. PICK t \in A : t = r \/ (t[1] = r[1] /\ t[2] > r[2])
      BY DEF Keeps
    <3>2. t \in B
      BY DEF Keeps
    <3> QED BY <2>0, <2>2, <3>1, <3>2
  <2>3. A \subseteq B
    BY DEF Keeps
  <2> QED BY <1>2, <2>1, <2>2, <2>3 DEF Merge
<1> QED BY <1>1, <1>2

\* What keeps the keeper keeps what it keeps.
LEMMA KeepsTransitive ==
  ASSUME NEW C \in SUBSET Row, NEW B, NEW A, Keeps(A, B), Keeps(B, C)
  PROVE  Keeps(A, C)
<1>0. \A r \in C : r[2] \in Nat
  BY RowParts
<1>1. A \subseteq B /\ B \subseteq C
  BY DEF Keeps
<1>2. ASSUME NEW r \in C
      PROVE  \E t \in A : t = r \/ (UniqueKey /\ t[1] = r[1] /\ t[2] > r[2])
  <2>1. PICK s \in B : s = r \/ (UniqueKey /\ s[1] = r[1] /\ s[2] > r[2])
    BY DEF Keeps
  <2>2. PICK t \in A : t = s \/ (UniqueKey /\ t[1] = s[1] /\ t[2] > s[2])
    BY DEF Keeps
  <2>3. r[2] \in Nat /\ s[2] \in Nat /\ t[2] \in Nat
    BY <1>0, <1>1
  <2> QED BY <2>1, <2>2, <2>3
<1> QED BY <1>1, <1>2 DEF Keeps

-----------------------------------------------------------------------------
(* Where rows are read *)

MainRows(p) == IF Active(p) THEN partition[p].rows ELSE {}
ChunkRows(c) == IF Live(c) THEN chunk[c].rows ELSE {}

\* A select reads the main tables of active partitions and active chunks.
LEMMA PlacesAre ==
  /\ \A x \in Place : \/ \E p \in PId : x = <<"main", p>> /\ RowsAt(x) = MainRows(p)
                      \/ \E c \in CId : x = <<"chunk", c>> /\ RowsAt(x) = ChunkRows(c)
  /\ \A p \in PId : <<"main", p>> \in Place /\ RowsAt(<<"main", p>>) = MainRows(p)
  /\ \A c \in CId : <<"chunk", c>> \in Place /\ RowsAt(<<"chunk", c>>) = ChunkRows(c)
BY DEF Place, RowsAt, MainRows, ChunkRows

\* ... and so it is after a step.
LEMMA PlacesAreNext ==
  /\ \A p \in PId : RowsAt(<<"main", p>>)' = MainRows(p)'
  /\ \A c \in CId : RowsAt(<<"chunk", c>>)' = ChunkRows(c)'
BY DEF RowsAt, MainRows, ChunkRows

\* Acknowledged rows, and those of a table, are rows.
LEMMA AcknowledgedAre ==
  /\ \A r : r \in Acknowledged <=> \E i \in Insert : ins[i].pc = "done" /\ r \in RowsOf(i)
  /\ Acknowledged \in SUBSET Row
<1>1. \A r : r \in Acknowledged <=> \E i \in Insert : ins[i].pc = "done" /\ r \in RowsOf(i)
  BY DEF Acknowledged
<1> QED BY <1>1, RowsOfAreRows

-----------------------------------------------------------------------------
(* Rows that do not change any more *)

\* The rows of a chunk are those it was created with.
LEMMA ChunkKeepsRows ==
  ASSUME Shape, Next, NEW c \in CId, chunk[c].state # "free"
  PROVE  chunk'[c].state # "free" /\ chunk'[c].rows = chunk[c].rows
BY ChunkSteps DEF ChunkChange, ChunkStays, ActivatedBy, DeletedBy

\* The rows of a partition that no compaction is about to activate are those it has.
LEMMA PartitionKeepsRows ==
  ASSUME Shape, Next, NEW p \in PId, partition[p].state # "free",
         \A s \in Slot : p \notin Kids(s)
  PROVE  partition'[p].state # "free" /\ partition'[p].rows = partition[p].rows
<1>1. ASSUME NEW s \in Slot, Activates(s, p) PROVE FALSE
  BY <1>1 DEF Activates, Kids
<1> QED BY <1>1, PartitionSteps DEF PartitionChange, PartitionStays

\* An active partition is no child of a compaction under way.
LEMMA ActiveIsNoKid ==
  ASSUME KidsAreFresh, NEW p \in PId, Active(p), NEW s \in Slot
  PROVE  p \notin Kids(s)
BY DEF KidsAreFresh, Fresh, Active

(* Chunks, in this table of chunks, that hold these rows, each once *)

Covers(table, cs, rows) ==
  /\ \A c \in cs : table[c].rows \subseteq rows
  /\ \A r \in rows : \E c \in cs : r \in table[c].rows
  /\ \A c, d \in cs : c # d => table[c].rows \cap table[d].rows = {}

Uploads(ps, rows, cs) ==
  \E news : Spread(ps, rows, news) /\ chunk' = WithChunks(news) /\ cs = Ids(news)

\* The chunks of an upload hold the rows it was given.
LEMMA UploadCovers ==
  ASSUME NEW ps, NEW rows, NEW cs, Uploads(ps, rows, cs)
  PROVE  Covers(chunk', cs, rows)
<1>1. PICK news : Spread(ps, rows, news) /\ chunk' = WithChunks(news) /\ cs = Ids(news)
  BY DEF Uploads
<1>2. /\ \A n \in news : n.id \in CId /\ n.rows \subseteq rows
      /\ \A n, m \in news : n # m => n.id # m.id /\ n.rows \cap m.rows = {}
      /\ \A r \in rows : \E n \in news : r \in n.rows
  BY <1>1 DEF Spread
<1>3. \A n, m \in news : n # m => n.id # m.id
  BY <1>2
<1>4. ASSUME NEW n \in news
      PROVE  n.id \in cs /\ chunk'[n.id].rows = n.rows
  <2>1. chunk'[n.id] = [state |-> "created", part |-> n.part, rows |-> n.rows]
    BY <1>1, <1>2, <1>3, WithChunksFacts
  <2> QED BY <1>1, <2>1 DEF Ids
<1>5. \A c \in cs : \E n \in news : n.id = c
  BY <1>1 DEF Ids
<1> QED BY <1>2, <1>4, <1>5 DEF Covers

\* Chunks go on to hold their rows.
LEMMA CoversStays ==
  ASSUME Shape, Next, NEW cs \in SUBSET CId, NEW rows, Covers(chunk, cs, rows),
         \A c \in cs : chunk[c].state # "free"
  PROVE  Covers(chunk', cs, rows)
<1>1. \A c \in cs : chunk'[c].rows = chunk[c].rows
  BY ChunkKeepsRows
<1> QED BY <1>1 DEF Covers

-----------------------------------------------------------------------------
(* What a step does to an insert and to a job *)

\* An insert comes to its chunks by its upload.
LEMMA InsertSteps ==
  ASSUME Shape, Next, NEW i \in Insert, ins'[i].pc = "uploaded", ins'[i] # ins[i]
  PROVE  \E ps : Uploads(ps, RowsOf(i), ins'[i].chunks)
<1>1. ASSUME NEW k \in Insert, NEW pc \in {"done", "failed"}, InsertEnds(k, pc) PROVE FALSE
  BY <1>1 DEF InsertEnds, Shape
<1>2. ASSUME NEW k \in Insert, InsertUpload(k)
      PROVE  \E ps : Uploads(ps, RowsOf(i), ins'[i].chunks)
  <2>1. ins[k].parts \in SUBSET PId
    BY <1>2 DEF InsertUpload, Shape, InsertState
  <2>2. Routable(ins[k].parts, RowsOf(k))
    BY <1>1, <1>2 DEF InsertUpload
  <2> DEFINE news == NewChunks(ins[k].parts, RowsOf(k))
  <2>3. /\ Ids(news) \subseteq CId /\ chunk' = WithChunks(news)
        /\ ins' = [ins EXCEPT ![k] = [pc |-> "uploaded", chunks |-> Ids(news)]]
    BY <1>2, <2>2 DEF InsertUpload
  <2> HIDE DEF news
  <2>4. i = k /\ ins'[i].chunks = Ids(news)
    BY <2>3 DEF Shape
  <2>5. Spread(ins[k].parts, RowsOf(k), news)
    BY <2>1, <2>2, <2>3, RowsOfAreRows, NewChunksFacts DEF news
  <2> QED BY <2>3, <2>4, <2>5 DEF Uploads
<1>3. ASSUME NEW k \in Insert, InsertRoute(k) \/ InsertActivate(k) \/ InsertFails(k) PROVE FALSE
  <2>1. CASE InsertRoute(k)
    BY <2>1 DEF InsertRoute, Shape
  <2> QED BY <1>1, <1>3, <2>1 DEF InsertActivate, InsertFails
<1>4. ASSUME UNCHANGED ins PROVE FALSE
  BY <1>4
<1>5. ASSUME NEW s \in Slot, \/ \E p \in PId : CompactRead(s, p)
                             \/ \E c \in CId : RepartitionRead(s, c)
                             \/ JobFails(s) \/ CompactPlan(s) \/ CompactWrite(s)
                             \/ CompactSwap(s) \/ RepartitionStep(s)
      PROVE  FALSE
  BY <1>4, <1>5 DEF CompactRead, RepartitionRead, JobFails, CompactPlan, CompactWrite,
                    CompactSwap, RepartitionStep, RepartitionUpload, RepartitionSwap
<1>6. ASSUME NEW r \in Reader, SelectPlan(r) \/ SelectEnd(r) PROVE FALSE
  BY <1>4, <1>6 DEF SelectPlan, SelectEnd
<1>7. ASSUME (\E e \in events : HandleEvent(e)) \/ Reconciles \/ SchedulerRestart PROVE FALSE
  BY <1>4, <1>7, ReconcileCases DEF HandleEvent, SchedulerRestart, tasks
<1>8. ASSUME NEW t \in gc, GcStep(t) PROVE FALSE
  BY <1>4, <1>8 DEF GcStep, CheckChunk, DeleteChunk, RemoveRemoteFile, DeletePartition,
                    DeleteMiddleManPartition, tasks
<1> QED BY <1>2, <1>3, <1>5, <1>6, <1>7, <1>8, NextCases DEF InsertStep

\* What a worker may begin, or go on with
Begins(s) ==
  \/ /\ job'[s].pc = "planning" /\ job'[s].part \in PId
     /\ Active(job'[s].part) /\ UNCHANGED partition
  \/ /\ job'[s].pc = "routing" /\ job'[s].chunk \in CId /\ Live(job'[s].chunk)
     /\ job'[s].parts = ActivePartitions /\ UNCHANGED partition
Goes(s) ==
  \/ /\ job[s].pc = "planning" /\ job'[s].pc = "merging" /\ UNCHANGED chunk
     /\ \E cs \in SUBSET CId, kids \in SUBSET PId : Plans(s, cs, kids)
  \/ /\ job[s].pc = "merging" /\ job'[s].pc = "swapping" /\ UNCHANGED chunk
     /\ \E cuts : Writes(s, cuts)
  \/ /\ job[s].pc = "routing" /\ job'[s].pc = "moving" /\ job'[s].chunk = job[s].chunk
     /\ \E ps : Uploads(ps, chunk[job[s].chunk].rows, job'[s].chunks)

JobChange(s) == job'[s] = job[s] \/ job'[s] = Idle \/ Begins(s) \/ Goes(s)

\* A worker begins, goes on, or ends.
LEMMA JobSteps ==
  ASSUME Shape, Next, NEW s \in Slot
  PROVE  JobChange(s)
<1>1. ASSUME UNCHANGED job PROVE JobChange(s)
  BY <1>1 DEF JobChange
<1>2. ASSUME NEW t \in Slot, JobEnds(t) PROVE JobChange(s)
  BY <1>2 DEF JobEnds, JobChange, Shape
<1>3. ASSUME NEW t \in Slot, NEW p \in PId, CompactRead(t, p) PROVE JobChange(s)
  BY <1>3 DEF CompactRead, JobChange, Begins, data, Shape
<1>4. ASSUME NEW t \in Slot, NEW c \in CId, RepartitionRead(t, c) PROVE JobChange(s)
  BY <1>1, <1>4 DEF RepartitionRead, MovesFrom, JobChange, Begins, data, Shape
<1>5. ASSUME NEW t \in Slot, CompactPlan(t) PROVE JobChange(s)
  <2>1. ASSUME NEW cs \in SUBSET CId, NEW kids \in SUBSET PId, Plans(t, cs, kids)
        PROVE  JobChange(s)
    <3>1. CASE s = t
      <4>1. job'[s].pc = "merging" /\ job[s].pc = "planning" /\ UNCHANGED chunk
        BY <1>5, <2>1, <3>1 DEF Plans, CompactPlan, Shape
      <4> QED BY <2>1, <3>1, <4>1 DEF JobChange, Goes
    <3>2. CASE s # t
      BY <2>1, <3>2 DEF Plans, JobChange, Shape
    <3> QED BY <3>1, <3>2
  <2> QED BY <1>2, <1>5, <2>1, CompactPlanCases
<1>6. ASSUME NEW t \in Slot, CompactWrite(t) PROVE JobChange(s)
  <2>1. ASSUME NEW cuts, Writes(t, cuts) PROVE JobChange(s)
    <3>1. CASE s = t
      <4>1. job'[s].pc = "swapping" /\ job[s].pc = "merging" /\ UNCHANGED chunk
        BY <1>6, <2>1, <3>1 DEF Writes, CompactWrite, Shape
      <4> QED BY <2>1, <3>1, <4>1 DEF JobChange, Goes
    <3>2. CASE s # t
      BY <2>1, <3>2 DEF Writes, JobChange, Shape
    <3> QED BY <3>1, <3>2
  <2> QED BY <1>2, <1>6, <2>1, CompactWriteCases
<1>7. ASSUME NEW t \in Slot, JobFails(t) \/ CompactSwap(t) \/ RepartitionSwap(t) PROVE JobChange(s)
  BY <1>2, <1>7 DEF JobFails, CompactSwap, RepartitionSwap
<1>8. ASSUME NEW t \in Slot, RepartitionUpload(t) PROVE JobChange(s)
  <2>1. job[t].parts \in SUBSET PId /\ chunk[job[t].chunk].rows \in SUBSET Row
    BY <1>8, JobCases DEF RepartitionUpload, Shape
  <2> DEFINE news == NewChunks(job[t].parts, chunk[job[t].chunk].rows)
  <2>2. CASE ~Routable(job[t].parts, chunk[job[t].chunk].rows)
    BY <1>2, <1>8, <2>2 DEF RepartitionUpload
  <2>3. CASE Routable(job[t].parts, chunk[job[t].chunk].rows)
    <3>1. /\ Ids(news) \subseteq CId /\ chunk' = WithChunks(news)
          /\ job' = [job EXCEPT ![t] = [pc |-> "moving", target |-> job[t].target,
                                        chunk |-> job[t].chunk, chunks |-> Ids(news)]]
      BY <1>8, <2>3 DEF RepartitionUpload
    <3> HIDE DEF news
    <3>2. Spread(job[t].parts, chunk[job[t].chunk].rows, news)
      BY <2>1, <2>3, <3>1, NewChunksFacts DEF news
    <3>3. CASE s = t
      <4>1. /\ job'[s].pc = "moving" /\ job'[s].chunk = job[s].chunk
            /\ job'[s].chunks = Ids(news)
        BY <3>1, <3>3 DEF Shape
      <4>2. Uploads(job[s].parts, chunk[job[s].chunk].rows, job'[s].chunks)
        BY <3>1, <3>2, <3>3, <4>1 DEF Uploads
      <4> QED BY <1>8, <3>3, <4>1, <4>2 DEF RepartitionUpload, JobChange, Goes
    <3>4. CASE s # t
      BY <3>1, <3>4 DEF JobChange, Shape
    <3> QED BY <3>3, <3>4
  <2> QED BY <2>2, <2>3
<1>9. ASSUME NEW i \in Insert, InsertStep(i) \/ InsertFails(i) PROVE JobChange(s)
  BY <1>1, <1>9 DEF InsertStep, InsertRoute, InsertUpload, InsertActivate, InsertFails
<1>10. ASSUME NEW r \in Reader, SelectPlan(r) \/ SelectEnd(r) PROVE JobChange(s)
  BY <1>1, <1>10 DEF SelectPlan, SelectEnd
<1>11. ASSUME (\E e \in events : HandleEvent(e)) \/ Reconciles \/ SchedulerRestart
       PROVE  JobChange(s)
  BY <1>1, <1>11, ReconcileCases DEF HandleEvent, SchedulerRestart, tasks
<1>12. ASSUME NEW t \in gc, GcStep(t) PROVE JobChange(s)
  BY <1>1, <1>12 DEF GcStep, CheckChunk, DeleteChunk, RemoveRemoteFile, DeletePartition,
                     DeleteMiddleManPartition, tasks
<1> QED BY <1>3, <1>4, <1>5, <1>6, <1>7, <1>8, <1>9, <1>10, <1>11, <1>12, NextCases
        DEF RepartitionStep

-----------------------------------------------------------------------------
(* What the tasks have in hand *)

\* The partition of a compaction was active once, and its chunks and the chunk of
\* a repartition were, so that their rows stay what they are.
PartitionsAreKnown ==
  \A s \in Slot : job[s].pc \in {"planning", "merging", "swapping"} =>
    /\ partition[job[s].part].state # "free"
    /\ \A t \in Slot : job[s].part \notin Kids(t)
ChunksAreKnown ==
  \A s \in Slot :
    /\ job[s].pc \in {"merging", "swapping"} =>
         \A c \in job[s].chunks : chunk[c].state # "free"
    /\ job[s].pc \in {"routing", "moving"} => chunk[job[s].chunk].state # "free"

KidsAreInterval ==
  \A s \in Slot : job[s].pc = "merging" => \E a, b \in Nat : job[s].kids = a .. b

\* The files of a compaction hold the merged rows, each once
Splits(out, rows) ==
  /\ \A q \in DOMAIN out : out[q] \subseteq rows
  /\ \A r \in rows : \E q \in DOMAIN out : r \in out[q]
  /\ \A p, q \in DOMAIN out : p # q => out[p] \cap out[q] = {}
SplitsAreWhole ==
  \A s \in Slot : job[s].pc = "swapping" => Splits(job[s].out, MergedRows(job[s]))

\* The chunks of an insert hold its rows, those of a repartition the rows it moves
UploadsAreWhole ==
  /\ \A i \in Insert : ins[i].pc = "uploaded" => Covers(chunk, ins[i].chunks, RowsOf(i))
  /\ \A s \in Slot : job[s].pc = "moving" =>
       Covers(chunk, job[s].chunks, chunk[job[s].chunk].rows)

PlanInv == PartitionsAreKnown /\ ChunksAreKnown /\ KidsAreInterval /\ SplitsAreWhole
WorkInv == PlanInv /\ UploadsAreWhole

\* The partition of a compaction stays known.
LEMMA PartitionsStayKnown ==
  ASSUME Shape, Next, PartitionsAreKnown, KidsAreFresh'
  PROVE  PartitionsAreKnown'
<1> SUFFICES ASSUME NEW s \in Slot, job'[s].pc \in {"planning", "merging", "swapping"}
             PROVE  /\ partition'[job'[s].part].state # "free"
                    /\ \A t \in Slot : job'[s].part \notin Kids(t)'
  BY DEF PartitionsAreKnown
<1>0. job'[s].part \in PId
  <2>1. job'[s] \in {Idle} \cup Compaction \cup Repartition
    BY ShapeStep DEF Shape
  <2> QED BY <2>1 DEF Idle, Compaction, Repartition
<1>1. ASSUME NEW p \in PId, partition[p].state # "free", \A t \in Slot : p \notin Kids(t)
      PROVE  partition'[p].state # "free" /\ \A t \in Slot : p \notin Kids(t)'
  <2>1. partition'[p].state # "free"
    BY <1>1, PartitionKeepsRows
  <2>2. ASSUME NEW t \in Slot, p \in Kids(t)' PROVE FALSE
    BY <1>1, <2>2, KidSteps DEF KidChange
  <2> QED BY <2>1, <2>2
<1>2. CASE job'[s] = job[s]
  BY <1>0, <1>1, <1>2 DEF PartitionsAreKnown
<1>3. CASE Begins(s)
  <2>1. partition'[job'[s].part].state = "active"
    BY <1>3 DEF Begins, Active
  <2>2. ASSUME NEW t \in Slot, job'[s].part \in Kids(t)' PROVE FALSE
    BY <2>1, <2>2 DEF KidsAreFresh, Fresh
  <2> QED BY <2>1, <2>2
<1>4. CASE Goes(s)
  <2>1. job[s].pc \in {"planning", "merging"} /\ job'[s].part = job[s].part
    <3>1. ASSUME NEW cs, NEW kids, Plans(s, cs, kids) PROVE job'[s].part = job[s].part
      BY <3>1 DEF Plans, Shape
    <3>2. ASSUME NEW cuts, Writes(s, cuts) PROVE job'[s].part = job[s].part
      BY <3>2 DEF Writes, Shape
    <3> QED BY <1>4, <3>1, <3>2 DEF Goes
  <2> QED BY <1>0, <1>1, <2>1 DEF PartitionsAreKnown
<1> QED BY <1>2, <1>3, <1>4, JobSteps DEF JobChange, Idle

\* The chunks that are merged or moved stay known.
LEMMA ChunksStayKnown ==
  ASSUME Shape, Next, ChunksAreKnown
  PROVE  ChunksAreKnown'
<1> SUFFICES ASSUME NEW s \in Slot
             PROVE  /\ job'[s].pc \in {"merging", "swapping"} =>
                         \A c \in job'[s].chunks : chunk'[c].state # "free"
                    /\ job'[s].pc \in {"routing", "moving"} => chunk'[job'[s].chunk].state # "free"
  BY DEF ChunksAreKnown
<1>0. /\ job[s].pc \in {"merging", "swapping"} => job[s].chunks \in SUBSET CId
      /\ job[s].pc \in {"routing", "moving"} => job[s].chunk \in CId
  BY JobCases
<1>1. CASE job'[s] = job[s]
  BY <1>0, <1>1, ChunkKeepsRows DEF ChunksAreKnown
<1>2. CASE Begins(s)
  BY <1>2, ChunkKeepsRows DEF Begins, Live
<1>3. ASSUME job[s].pc = "planning", UNCHANGED chunk,
             NEW cs \in SUBSET CId, NEW kids, Plans(s, cs, kids)
      PROVE  job'[s].pc = "merging" /\ \A c \in job'[s].chunks : chunk'[c].state # "free"
  BY <1>3 DEF Plans, Shape, LiveChunksOf, Live
<1>4. ASSUME job[s].pc = "merging", UNCHANGED chunk, NEW cuts, Writes(s, cuts)
      PROVE  job'[s].pc = "swapping" /\ \A c \in job'[s].chunks : chunk'[c].state # "free"
  BY <1>4 DEF Writes, Shape, ChunksAreKnown
<1>5. CASE /\ job[s].pc = "routing" /\ job'[s].pc = "moving" /\ job'[s].chunk = job[s].chunk
           /\ \E ps : Uploads(ps, chunk[job[s].chunk].rows, job'[s].chunks)
  BY <1>0, <1>5, ChunkKeepsRows DEF ChunksAreKnown
<1>6. CASE Goes(s)
  <2>1. CASE job[s].pc = "planning"
    BY <1>3, <1>6, <2>1 DEF Goes
  <2>2. CASE job[s].pc = "merging"
    BY <1>4, <1>6, <2>2 DEF Goes
  <2>3. CASE job[s].pc = "routing"
    BY <1>5, <1>6, <2>3 DEF Goes
  <2> QED BY <1>6, <2>1, <2>2, <2>3 DEF Goes
<1>7. CASE job'[s] = Idle
  BY <1>7 DEF Idle
<1> QED BY <1>1, <1>2, <1>6, <1>7, JobSteps DEF JobChange

\* The children of a plan are numbered one after another.
LEMMA KidsStayInterval ==
  ASSUME Shape, Next, KidsAreInterval
  PROVE  KidsAreInterval'
<1> SUFFICES ASSUME NEW s \in Slot, job'[s].pc = "merging"
             PROVE  \E a, b \in Nat : job'[s].kids = a .. b
  BY DEF KidsAreInterval
<1>1. CASE job'[s] = job[s]
  BY <1>1 DEF KidsAreInterval
<1>2. ASSUME NEW cs, NEW kids, Plans(s, cs, kids)
      PROVE  \E a, b \in Nat : job'[s].kids = a .. b
  <2>1. PICK n \in 1 .. MaxChildren : kids = LastPartition + 1 .. LastPartition + n
    BY <1>2 DEF Plans
  <2>2. LastPartition + 1 \in Nat /\ LastPartition + n \in Nat
    BY LastPartitionIsLast, PartitionsAssumption
  <2>3. job'[s].kids = kids
    BY <1>2 DEF Plans, Shape
  <2> QED BY <2>1, <2>2, <2>3
<1> QED BY <1>1, <1>2, JobSteps DEF JobChange, Begins, Goes, Idle

\* Cutting the rows of a merge puts each of them into one file.
LEMMA SlicesSplit ==
  ASSUME Shape, NEW s \in Slot, job[s].pc = "merging",
         NEW a \in Nat, NEW b \in Nat, job[s].kids = a .. b,
         NEW cuts, Writes(s, cuts)
  PROVE  Splits(SplitAt(job[s], cuts), MergedRows(job[s]))
<1> DEFINE rows == MergedRows(job[s])
           upto(r) == {k \in cuts : k <= r[1]}
           out == SplitAt(job[s], cuts)
<1>1. IsFiniteSet(cuts) /\ Cardinality(cuts) \in Nat
  <2>1. rows \in SUBSET Row
    BY MergedAreRows
  <2>2. cuts \in SUBSET Key
    BY <2>1, RowParts DEF Writes, KeysToMerge
  <2> QED BY <2>2, KeyFinite, FS_CardinalityType
<1>2. ASSUME NEW r \in rows
      PROVE  Cardinality(upto(r)) \in Nat /\ Cardinality(upto(r)) <= Cardinality(cuts)
  <2>1. upto(r) \in SUBSET cuts
    OBVIOUS
  <2> HIDE DEF upto
  <2>2. IsFiniteSet(upto(r)) /\ Cardinality(upto(r)) <= Cardinality(cuts)
    BY <1>1, <2>1, FS_Subset
  <2> QED BY <2>2, FS_CardinalityType
<1>3. a <= b /\ Cardinality(job[s].kids) = b - a + 1
  <2>1. Cardinality(a .. b) = IF a > b THEN 0 ELSE b - a + 1
    BY FS_Interval
  <2>2. Cardinality(cuts) + 1 <= Cardinality(a .. b)
    BY DEF Writes
  <2> QED BY <1>1, <2>1, <2>2
<1>4. Min(job[s].kids) = a
  <2>1. a \in a .. b /\ \A y \in a .. b : a <= y
    BY <1>3
  <2>2. IsFiniteSet(a .. b) /\ a .. b \in SUBSET Int /\ a .. b # {}
    <3>1. IsFiniteSet(a .. b)
      BY FS_Interval
    <3>2. a .. b \in SUBSET Int
      OBVIOUS
    <3> QED BY <2>1, <3>1, <3>2
  <2>3. Min(a .. b) \in a .. b /\ \A y \in a .. b : Min(a .. b) <= y
    BY <2>2, FiniteHasMin
  <2>4. Min(a .. b) <= a /\ a <= Min(a .. b) /\ Min(a .. b) \in Int
    BY <2>1, <2>2, <2>3
  <2> QED BY <2>4
<1>5. DOMAIN out = {q \in a .. b : q < a + Cardinality(cuts) + 1}
  BY <1>4 DEF SplitAt, UsedKids
<1>6. ASSUME NEW q \in DOMAIN out
      PROVE  out[q] = {r \in rows : Cardinality(upto(r)) = (q - a + 1) - 1}
  BY <1>4, <1>6 DEF SplitAt, Slice
<1> HIDE DEF upto, out, rows
<1>7. ASSUME NEW r \in rows
      PROVE  \E q \in DOMAIN out : r \in out[q]
  <2> DEFINE q == a + Cardinality(upto(r))
  <2>1. Cardinality(upto(r)) \in Nat /\ Cardinality(upto(r)) <= Cardinality(cuts)
    BY <1>2
  <2>2. Cardinality(cuts) + 1 <= b - a + 1
    BY <1>3 DEF Writes
  <2>3. q \in a .. b /\ q < a + Cardinality(cuts) + 1 /\ Cardinality(upto(r)) = (q - a + 1) - 1
    BY <1>1, <2>1, <2>2
  <2> HIDE DEF q
  <2> QED BY <1>5, <1>6, <2>3
<1>8. ASSUME NEW p \in DOMAIN out, NEW q \in DOMAIN out, p # q, NEW r \in out[p], r \in out[q]
      PROVE  FALSE
  <2>1. Cardinality(upto(r)) = (p - a + 1) - 1 /\ Cardinality(upto(r)) = (q - a + 1) - 1
    BY <1>6, <1>8
  <2>2. p \in Int /\ q \in Int
    BY <1>5
  <2> QED BY <1>8, <2>1, <2>2
<1>9. \A q \in DOMAIN out : out[q] \subseteq rows
  BY <1>6
<1> QED BY <1>7, <1>8, <1>9 DEF Splits, out, rows

\* The rows of a merge stay what they are.
LEMMA MergeStays ==
  ASSUME Shape, Next, NEW s \in Slot, job[s].pc \in {"merging", "swapping"},
         job'[s].part = job[s].part, job'[s].chunks = job[s].chunks,
         partition'[job[s].part].rows = partition[job[s].part].rows,
         \A c \in job[s].chunks : chunk'[c].rows = chunk[c].rows
  PROVE  MergedRows(job[s])' = MergedRows(job[s])
<1>1. UNION {chunk'[c].rows : c \in job'[s].chunks} = UNION {chunk[c].rows : c \in job[s].chunks}
  OBVIOUS
<1> QED BY <1>1 DEF MergedRows, Merge

\* The files of a compaction go on to hold the merged rows.
LEMMA SplitsStayWhole ==
  ASSUME Shape, Next, PlanInv
  PROVE  SplitsAreWhole'
<1> SUFFICES ASSUME NEW s \in Slot, job'[s].pc = "swapping"
             PROVE  Splits(job'[s].out, MergedRows(job[s])')
  BY DEF SplitsAreWhole
<1>1. ASSUME job[s].pc \in {"merging", "swapping"},
             job'[s].part = job[s].part, job'[s].chunks = job[s].chunks
      PROVE  MergedRows(job[s])' = MergedRows(job[s])
  <2>1. job[s].part \in PId /\ job[s].chunks \in SUBSET CId
    BY <1>1, JobCases
  <2>2. partition'[job[s].part].rows = partition[job[s].part].rows
    BY <1>1, <2>1, PartitionKeepsRows DEF PlanInv, PartitionsAreKnown
  <2>3. \A c \in job[s].chunks : chunk'[c].rows = chunk[c].rows
    BY <1>1, <2>1, ChunkKeepsRows DEF PlanInv, ChunksAreKnown
  <2> QED BY <1>1, <2>2, <2>3, MergeStays
<1>2. CASE job'[s] = job[s]
  BY <1>1, <1>2 DEF PlanInv, SplitsAreWhole
<1>3. CASE job'[s] # job[s]
  <2>1. PICK cuts : Writes(s, cuts) /\ job[s].pc = "merging"
    BY <1>3, SplitSteps
  <2>2. /\ job'[s].part = job[s].part /\ job'[s].chunks = job[s].chunks
        /\ job'[s].out = SplitAt(job[s], cuts)
    BY <2>1 DEF Writes, Shape
  <2>3. PICK a, b \in Nat : job[s].kids = a .. b
    BY <2>1 DEF PlanInv, KidsAreInterval
  <2> QED BY <1>1, <2>1, <2>2, <2>3, SlicesSplit
<1> QED BY <1>2, <1>3

\* Chunks of uploads go on to hold the rows.
LEMMA UploadsStayWhole ==
  ASSUME Shape, Next, WorkInv, HeldAreCreated
  PROVE  UploadsAreWhole'
<1>1. ASSUME NEW i \in Insert, ins'[i].pc = "uploaded"
      PROVE  Covers(chunk', ins'[i].chunks, RowsOf(i))
  <2>1. CASE ins'[i] = ins[i]
    <3>1. ins[i].chunks \in SUBSET CId
      BY <1>1, <2>1 DEF Shape, InsertState
    <3>2. \A c \in ins[i].chunks : chunk[c].state # "free"
      BY <1>1, <2>1 DEF HeldAreCreated, Held, Holder
    <3> QED BY <1>1, <2>1, <3>1, <3>2, CoversStays DEF WorkInv, UploadsAreWhole
  <2>2. CASE ins'[i] # ins[i]
    BY <1>1, <2>2, InsertSteps, UploadCovers
  <2> QED BY <2>1, <2>2
<1>2. ASSUME NEW s \in Slot, job'[s].pc = "moving"
      PROVE  Covers(chunk', job'[s].chunks, chunk'[job'[s].chunk].rows)
  <2>1. job[s].pc \in {"routing", "moving"} =>
          chunk'[job[s].chunk].rows = chunk[job[s].chunk].rows
    BY JobCases, ChunkKeepsRows DEF WorkInv, PlanInv, ChunksAreKnown
  <2>2. CASE job'[s] = job[s]
    <3>1. job[s].chunks \in SUBSET CId
      BY <1>2, <2>2, JobCases
    <3>2. \A c \in job[s].chunks : chunk[c].state # "free"
      BY <1>2, <2>2, SlotsAreNoInserts DEF HeldAreCreated, Held, Holder
    <3> QED BY <1>2, <2>1, <2>2, <3>1, <3>2, CoversStays DEF WorkInv, UploadsAreWhole
  <2>3. CASE Goes(s)
    BY <1>2, <2>1, <2>3, UploadCovers DEF Goes
  <2> QED BY <1>2, <2>2, <2>3, JobSteps DEF JobChange, Begins, Idle
<1> QED BY <1>1, <1>2 DEF UploadsAreWhole

\* The invariant of the compactions under way.
LEMMA PlanInvHolds == Spec => [](Shape /\ FileInv /\ PlanInv)
<1>1. Init => PlanInv
  BY DEF Init, Idle, PlanInv, PartitionsAreKnown, ChunksAreKnown, KidsAreInterval, SplitsAreWhole
<1>2. Shape /\ FileInv /\ PlanInv /\ [Next]_vars => PlanInv'
  <2>1. ASSUME Shape, FileInv, PlanInv, Next PROVE PlanInv'
    <3>1. KidsAreFresh'
      BY <2>1, KidsStayFresh
    <3>2. PartitionsAreKnown' /\ ChunksAreKnown' /\ KidsAreInterval'
      BY <2>1, <3>1, PartitionsStayKnown, ChunksStayKnown, KidsStayInterval DEF PlanInv
    <3>3. SplitsAreWhole'
      BY <2>1, SplitsStayWhole
    <3> QED BY <3>2, <3>3 DEF PlanInv
  <2>2. ASSUME PlanInv, UNCHANGED vars PROVE PlanInv'
    <3>1. UNCHANGED <<partition, chunk, ins, job>>
      BY <2>2 DEF vars
    <3>2. PartitionsAreKnown' /\ ChunksAreKnown' /\ KidsAreInterval'
      BY <2>2, <3>1 DEF PlanInv, PartitionsAreKnown, Kids, ChunksAreKnown, KidsAreInterval
    <3>3. ASSUME NEW s \in Slot PROVE MergedRows(job[s])' = MergedRows(job[s])
      BY <3>1 DEF MergedRows, Merge
    <3>4. SplitsAreWhole'
      BY <2>2, <3>1, <3>3 DEF PlanInv, SplitsAreWhole, Splits
    <3> QED BY <3>2, <3>4 DEF PlanInv
  <2> QED BY <2>1, <2>2
<1> QED BY <1>1, <1>2, FileInvHolds, PTL DEF Spec

\* The invariant of the work under way.
LEMMA WorkInvHolds ==
  ASSUME ~SlowInserts
  PROVE  Spec => [](Shape /\ FileInv /\ ChunkInv /\ WorkInv)
<1>1. Init => UploadsAreWhole
  BY DEF Init, Idle, NotInserted, UploadsAreWhole
<1>2. /\ Shape /\ ChunkInv /\ PlanInv /\ UploadsAreWhole /\ [Next]_vars
      => UploadsAreWhole'
  <2>1. ASSUME Shape, ChunkInv, PlanInv, UploadsAreWhole, Next PROVE UploadsAreWhole'
    BY <2>1, UploadsStayWhole DEF ChunkInv, WorkInv
  <2>2. ASSUME UploadsAreWhole, UNCHANGED vars PROVE UploadsAreWhole'
    BY <2>2 DEF vars, UploadsAreWhole, Covers
  <2> QED BY <2>1, <2>2
<1>3. Spec => [](Shape /\ FileInv /\ PlanInv)
  BY PlanInvHolds
<1>4. Spec => [](Shape /\ ChunkInv)
  BY ChunkInvHolds
<1>5. Spec => []UploadsAreWhole
  BY <1>1, <1>2, <1>3, <1>4, PTL DEF Spec
<1>6. PlanInv /\ UploadsAreWhole => WorkInv
  BY DEF WorkInv
<1> QED BY <1>3, <1>4, <1>5, <1>6, PTL

-----------------------------------------------------------------------------
(* What a step does to the rows a select reads *)

\* The steps that may change them: an insert that activates its chunks, a
\* compaction and a repartition that swap theirs
Finishes(i) ==
  /\ ins[i].pc = "uploaded" /\ CanActivate(ins[i].chunks)
  /\ chunk' = SetState(ins[i].chunks, "active") /\ UNCHANGED partition
  /\ InsertEnds(i, "done")
Swaps(s) ==
  /\ job[s].pc = "swapping" /\ CanSwapPartitions(job[s])
  /\ partition' = SwappedPartitions(job[s]) /\ chunk' = SwappedChunks(job[s])
  /\ UNCHANGED ins
Moves(s) ==
  /\ job[s].pc = "moving" /\ CanSwapChunks(job[s])
  /\ chunk' = [c \in CId |->
       IF c = job[s].chunk THEN [chunk[c] EXCEPT !.state = "inactive"]
       ELSE IF c \in job[s].chunks THEN [chunk[c] EXCEPT !.state = "active"]
            ELSE chunk[c]]
  /\ UNCHANGED <<partition, ins>>

MainStays == \A p \in PId : MainRows(p)' = MainRows(p)
ChunksStay == \A c \in CId : ChunkRows(c)' = ChunkRows(c)
DoneStays == \A i \in Insert : ins'[i].pc = "done" <=> ins[i].pc = "done"
RowsStay == MainStays /\ ChunksStay /\ DoneStays

\* Main tables stay when only partitions that are not active change.
LEMMA MainRowsStay ==
  ASSUME \A p \in PId : \/ partition'[p] = partition[p]
                        \/ ~Active(p) /\ partition'[p].state # "active"
                        \/ /\ partition'[p].state = partition[p].state
                           /\ partition'[p].rows = partition[p].rows
  PROVE  MainStays
BY DEF MainStays, MainRows, Active

\* Chunks stay when only those that are not active change.
LEMMA ChunkRowsStay ==
  ASSUME \A c \in CId : \/ chunk'[c] = chunk[c]
                        \/ ~Live(c) /\ chunk'[c].state # "active"
  PROVE  ChunksStay
BY DEF ChunksStay, ChunkRows, Live

\* New chunks show no rows yet.
LEMMA NewChunksStay ==
  ASSUME Shape, NEW ps \in SUBSET PId, NEW rows \in SUBSET Row, Routable(ps, rows),
         NEW news, news = NewChunks(ps, rows), Ids(news) \subseteq CId,
         chunk' = WithChunks(news)
  PROVE  ChunksStay
<1>1. Spread(ps, rows, news)
  BY NewChunksFacts
<1>2. /\ \A n \in news : n.id \in CId /\ chunk[n.id].state = "free"
      /\ \A n, m \in news : n # m => n.id # m.id
  BY <1>1 DEF Spread
<1>3. /\ \A n \in news : chunk'[n.id] = [state |-> "created", part |-> n.part, rows |-> n.rows]
      /\ \A c \in CId \ Ids(news) : chunk'[c] = chunk[c]
  BY <1>2, WithChunksFacts
<1>4. \A c \in Ids(news) : \E n \in news : n.id = c
  BY DEF Ids
<1>5. ASSUME NEW c \in Ids(news)
      PROVE  chunk[c].state = "free" /\ chunk'[c].state = "created"
  <2>1. PICK n \in news : n.id = c
    BY <1>4
  <2>2. chunk'[c] = [state |-> "created", part |-> n.part, rows |-> n.rows]
    BY <1>3, <2>1
  <2> QED BY <1>2, <2>1, <2>2
<1>6. ASSUME NEW c \in CId
      PROVE  chunk'[c] = chunk[c] \/ (~Live(c) /\ chunk'[c].state # "active")
  <2>1. CASE c \in Ids(news)
    BY <1>5, <2>1 DEF Live
  <2> QED BY <1>3, <2>1
<1> QED BY <1>6, ChunkRowsStay

\* The steps of an insert: only the activation of its chunks shows.
LEMMA InsertVisible ==
  ASSUME Shape, NEW i \in Insert, InsertStep(i) \/ InsertFails(i)
  PROVE  RowsStay \/ Finishes(i)
<1>1. ASSUME UNCHANGED partition PROVE MainStays
  BY <1>1, MainRowsStay
<1>2. ASSUME UNCHANGED chunk PROVE ChunksStay
  BY <1>2, ChunkRowsStay
<1>3. ASSUME InsertEnds(i, "failed"), ins[i].pc \in {"routing", "uploaded"} PROVE DoneStays
  BY <1>3 DEF InsertEnds, DoneStays, Shape
<1>4. CASE InsertRoute(i)
  <2>1. DoneStays
    BY <1>4 DEF InsertRoute, DoneStays, Shape
  <2> QED BY <1>1, <1>2, <1>4, <2>1 DEF InsertRoute, data, RowsStay
<1>5. CASE InsertUpload(i)
  <2>1. UNCHANGED partition
    BY <1>5 DEF InsertUpload
  <2>2. CASE ~Routable(ins[i].parts, RowsOf(i))
    BY <1>1, <1>2, <1>3, <1>5, <2>1, <2>2 DEF InsertUpload, RowsStay
  <2>3. CASE Routable(ins[i].parts, RowsOf(i))
    <3> DEFINE news == NewChunks(ins[i].parts, RowsOf(i))
    <3>1. /\ Ids(news) \subseteq CId /\ chunk' = WithChunks(news)
          /\ ins' = [ins EXCEPT ![i] = [pc |-> "uploaded", chunks |-> Ids(news)]]
      BY <1>5, <2>3 DEF InsertUpload
    <3>2. ins[i].parts \in SUBSET PId /\ ins[i].pc = "routing"
      BY <1>5 DEF InsertUpload, Shape, InsertState
    <3> HIDE DEF news
    <3>3. ChunksStay
      BY <2>3, <3>1, <3>2, RowsOfAreRows, NewChunksStay DEF news
    <3>4. DoneStays
      BY <3>1, <3>2 DEF DoneStays, Shape
    <3> QED BY <1>1, <2>1, <3>3, <3>4 DEF RowsStay
  <2> QED BY <2>2, <2>3
<1>6. CASE InsertActivate(i)
  BY <1>1, <1>2, <1>3, <1>6 DEF InsertActivate, Finishes, RowsStay
<1>7. CASE InsertFails(i)
  BY <1>1, <1>2, <1>3, <1>7 DEF InsertFails, RowsStay, data
<1> QED BY <1>4, <1>5, <1>6, <1>7 DEF InsertStep

\* The steps of a worker: only its swaps show.
LEMMA WorkerVisible ==
  ASSUME Shape, NEW s \in Slot,
         \/ \E p \in PId : CompactRead(s, p)
         \/ \E c \in CId : RepartitionRead(s, c)
         \/ JobFails(s) \/ CompactPlan(s) \/ CompactWrite(s) \/ CompactSwap(s)
         \/ RepartitionStep(s)
  PROVE  RowsStay \/ Swaps(s) \/ Moves(s)
<1>0. ASSUME UNCHANGED ins PROVE DoneStays
  BY <1>0 DEF DoneStays
<1>1. ASSUME UNCHANGED partition PROVE MainStays
  BY <1>1, MainRowsStay
<1>2. ASSUME UNCHANGED chunk PROVE ChunksStay
  BY <1>2, ChunkRowsStay
<1>3. ASSUME \/ \E p \in PId : CompactRead(s, p)
             \/ \E c \in CId : RepartitionRead(s, c)
             \/ JobFails(s)
      PROVE  RowsStay
  BY <1>0, <1>1, <1>2, <1>3 DEF CompactRead, RepartitionRead, JobFails, data, RowsStay
<1>4. CASE CompactPlan(s)
  <2>1. UNCHANGED <<chunk, ins>>
    BY <1>4 DEF CompactPlan
  <2>2. ASSUME NEW cs \in SUBSET CId, NEW kids \in SUBSET PId, Plans(s, cs, kids)
        PROVE  MainStays
    <3>1. ASSUME NEW p \in PId, partition'[p] # partition[p]
          PROVE  ~Active(p) /\ partition'[p].state # "active"
      BY <2>2, <3>1 DEF Plans, Active, NewChild, NoPartition
    <3> QED BY <3>1, MainRowsStay
  <2> QED BY <1>0, <1>1, <1>2, <1>4, <2>1, <2>2, CompactPlanCases DEF RowsStay
<1>5. CASE CompactWrite(s)
  <2>1. UNCHANGED <<chunk, ins>>
    BY <1>5 DEF CompactWrite
  <2>2. ASSUME NEW cuts, Writes(s, cuts)
        PROVE  MainStays
    <3>1. ASSUME NEW p \in PId, partition'[p] # partition[p]
          PROVE  ~Active(p) /\ partition'[p].state # "active"
      <4>1. partition[p].state = "inactive" /\ partition'[p] = [partition[p] EXCEPT !.state = "deleted"]
        BY <2>2, <3>1 DEF Writes, CanDropChildren
      <4>2. PartitionRecord(partition[p])
        BY DEF Shape
      <4> QED BY <4>1, <4>2 DEF Active, PartitionRecord
    <3> QED BY <3>1, MainRowsStay
  <2> QED BY <1>0, <1>1, <1>2, <1>5, <2>1, <2>2, CompactWriteCases DEF RowsStay
<1>6. CASE CompactSwap(s)
  BY <1>0, <1>1, <1>2, <1>6 DEF CompactSwap, Swaps, RowsStay
<1>7. CASE RepartitionUpload(s)
  <2>1. UNCHANGED <<partition, ins>> /\ job[s].pc = "routing"
    BY <1>7 DEF RepartitionUpload
  <2>2. CASE ~Routable(job[s].parts, chunk[job[s].chunk].rows)
    BY <1>0, <1>1, <1>2, <1>7, <2>1, <2>2 DEF RepartitionUpload, RowsStay
  <2>3. CASE Routable(job[s].parts, chunk[job[s].chunk].rows)
    <3>1. job[s].parts \in SUBSET PId /\ chunk[job[s].chunk].rows \in SUBSET Row
      BY <2>1, JobCases DEF Shape
    <3> DEFINE news == NewChunks(job[s].parts, chunk[job[s].chunk].rows)
    <3>2. Ids(news) \subseteq CId /\ chunk' = WithChunks(news)
      BY <1>7, <2>3 DEF RepartitionUpload
    <3> HIDE DEF news
    <3>3. ChunksStay
      BY <2>3, <3>1, <3>2, NewChunksStay DEF news
    <3> QED BY <1>0, <1>1, <2>1, <3>3 DEF RowsStay
  <2> QED BY <2>2, <2>3
<1>8. CASE RepartitionSwap(s)
  BY <1>0, <1>1, <1>2, <1>8 DEF RepartitionSwap, Moves, RowsStay
<1> QED BY <1>3, <1>4, <1>5, <1>6, <1>7, <1>8 DEF RepartitionStep

\* The steps of selects and of the scheduler do not show.
LEMMA OthersInvisible ==
  ASSUME Shape, DeletionsWait,
         \/ \E r \in Reader : SelectPlan(r) \/ SelectEnd(r)
         \/ (\E e \in events : HandleEvent(e)) \/ Reconciles \/ SchedulerRestart
         \/ \E t \in gc : GcStep(t)
  PROVE  RowsStay
<1>0. ASSUME UNCHANGED ins PROVE DoneStays
  BY <1>0 DEF DoneStays
<1>1. ASSUME UNCHANGED partition PROVE MainStays
  BY <1>1, MainRowsStay
<1>2. ASSUME UNCHANGED chunk PROVE ChunksStay
  BY <1>2, ChunkRowsStay
<1>3. ASSUME NEW r \in Reader, SelectPlan(r) \/ SelectEnd(r) PROVE RowsStay
  BY <1>0, <1>1, <1>2, <1>3 DEF SelectPlan, SelectEnd, data, RowsStay
<1>4. ASSUME (\E e \in events : HandleEvent(e)) \/ Reconciles \/ SchedulerRestart PROVE RowsStay
  BY <1>0, <1>1, <1>2, <1>4, ReconcileCases DEF HandleEvent, SchedulerRestart, data, tasks, RowsStay
<1>5. ASSUME NEW t \in gc, GcStep(t) PROVE RowsStay
  <2>1. DoneStays
    BY <1>0, <1>5 DEF GcStep, CheckChunk, DeleteChunk, RemoveRemoteFile, DeletePartition,
                      DeleteMiddleManPartition, tasks
  <2>2. CASE CheckChunk(t) \/ RemoveRemoteFile(t)
    BY <1>1, <1>2, <2>1, <2>2 DEF CheckChunk, RemoveRemoteFile, data, RowsStay
  <2>3. CASE DeleteChunk(t)
    <3>1. ~Live(t.id) /\ UNCHANGED partition
      BY <2>3 DEF DeleteChunk, DeletionsWait
    <3>2. ASSUME NEW c \in CId, chunk'[c] # chunk[c]
          PROVE  ~Live(c) /\ chunk'[c].state # "active"
      <4>1. c = t.id /\ chunk'[c] = [chunk[c] EXCEPT !.state = "deleted"]
        BY <2>3, <3>2 DEF DeleteChunk, SetState
      <4>2. chunk'[c].state = "deleted"
        BY <4>1 DEF Shape
      <4> QED BY <3>1, <4>1, <4>2
    <3> QED BY <1>1, <2>1, <3>1, <3>2, ChunkRowsStay DEF RowsStay
  <2>4. CASE DeletePartition(t)
    <3>1. ASSUME NEW p \in PId, partition'[p] # partition[p]
          PROVE  ~Active(p) /\ partition'[p].state # "active"
      <4>1. /\ partition[p].state = "inactive"
            /\ partition'[p] = [partition[p] EXCEPT !.state = "deleted"]
        BY <2>4, <3>1 DEF DeletePartition, CanDropChildren, Shape
      <4>2. PartitionRecord(partition[p])
        BY DEF Shape
      <4> QED BY <4>1, <4>2 DEF Active, PartitionRecord
    <3> QED BY <1>2, <2>1, <2>4, <3>1, MainRowsStay DEF DeletePartition, RowsStay
  <2>5. CASE DeleteMiddleManPartition(t)
    <3>1. ASSUME NEW p \in PId, partition'[p] # partition[p]
          PROVE  \/ ~Active(p) /\ partition'[p].state # "active"
                 \/ /\ partition'[p].state = partition[p].state
                    /\ partition'[p].rows = partition[p].rows
      <4>1. PartitionRecord(partition[p])
        BY DEF Shape
      <4>2. CASE p = t.id
        <5>1. /\ partition[p].state = "inactive"
              /\ partition'[p] = [partition[p] EXCEPT !.state = "deleted"]
          BY <2>5, <3>1, <4>2 DEF DeleteMiddleManPartition, MiddleMan
        <5> QED BY <4>1, <5>1 DEF Active, PartitionRecord
      <4>3. CASE p # t.id
        <5>1. partition'[p] = [partition[p] EXCEPT !.parent = partition[t.id].parent]
          BY <2>5, <3>1, <4>3 DEF DeleteMiddleManPartition
        <5> QED BY <4>1, <5>1 DEF PartitionRecord
      <4> QED BY <4>2, <4>3
    <3> QED BY <1>2, <2>1, <2>5, <3>1, MainRowsStay DEF DeleteMiddleManPartition, RowsStay
  <2> QED BY <1>5, <2>2, <2>3, <2>4, <2>5 DEF GcStep
<1> QED BY <1>3, <1>4, <1>5

\* A step shows only when an insert, a compaction or a repartition ends.
LEMMA VisibleSteps ==
  ASSUME Shape, DeletionsWait, Next
  PROVE  \/ RowsStay
         \/ \E i \in Insert : Finishes(i)
         \/ \E s \in Slot : Swaps(s) \/ Moves(s)
BY InsertVisible, WorkerVisible, OthersInvisible, NextCases

-----------------------------------------------------------------------------
(* What a step makes of the contents *)

\* A step takes the rows in old from some places and puts those in new there,
\* which were among the old ones or nowhere: no row is read twice after it.
Rewrites(T, old, new) ==
  /\ T \subseteq Place
  /\ \A x \in Place \ T : RowsAt(x)' = RowsAt(x)
  /\ \A x \in T : RowsAt(x) \subseteq old /\ RowsAt(x)' \subseteq new
  /\ \A r \in old : \E x \in T : r \in RowsAt(x)
  /\ \A r \in new : \E x \in T : r \in RowsAt(x)'
  /\ \A r \in new : r \in old \/ r \notin Visible
  /\ \A x, y \in T : x # y => RowsAt(x)' \cap RowsAt(y)' = {}

\* A row is visible at a place.
LEMMA VisibleAt ==
  /\ \A r : r \in Visible <=> \E x \in Place : r \in RowsAt(x)
  /\ \A r : r \in Visible' <=> \E x \in Place : r \in RowsAt(x)'
BY DEF Visible, Place

\* What a rewriting step leaves.
LEMMA RewritesKeep ==
  ASSUME RowsOnce, NEW T, NEW old, NEW new, Rewrites(T, old, new)
  PROVE  /\ RowsOnce'
         /\ old \subseteq Visible
         /\ \A r : r \in Visible' <=> (r \in Visible /\ r \notin old) \/ r \in new
<1>1. old \subseteq Visible
  BY VisibleAt DEF Rewrites
<1>2. ASSUME NEW x \in Place, x \notin T, NEW r \in RowsAt(x)
      PROVE  r \notin old /\ r \notin new
  <2>1. r \notin old
    BY <1>2 DEF Rewrites, RowsOnce
  <2>2. r \in Visible
    BY <1>2, VisibleAt
  <2> QED BY <2>1, <2>2 DEF Rewrites
<1>3. RowsOnce'
  <2> SUFFICES ASSUME NEW x \in Place, NEW y \in Place, x # y,
                      NEW r \in RowsAt(x)', r \in RowsAt(y)'
               PROVE  FALSE
    BY DEF RowsOnce, Place
  <2>1. CASE x \in T /\ y \in T
    BY <2>1 DEF Rewrites
  <2>2. CASE x \in T /\ y \notin T
    BY <1>2, <2>2 DEF Rewrites
  <2>3. CASE x \notin T /\ y \in T
    BY <1>2, <2>3 DEF Rewrites
  <2>4. CASE x \notin T /\ y \notin T
    BY <2>4 DEF Rewrites, RowsOnce
  <2> QED BY <2>1, <2>2, <2>3, <2>4
<1>4. ASSUME NEW r, r \in Visible'
      PROVE  (r \in Visible /\ r \notin old) \/ r \in new
  <2>1. PICK x \in Place : r \in RowsAt(x)'
    BY <1>4, VisibleAt
  <2>2. CASE x \in T
    BY <2>1, <2>2 DEF Rewrites
  <2>3. CASE x \notin T
    BY <1>2, <2>1, <2>3, VisibleAt DEF Rewrites
  <2> QED BY <2>2, <2>3
<1>5. ASSUME NEW r, (r \in Visible /\ r \notin old) \/ r \in new
      PROVE  r \in Visible'
  <2>1. CASE r \in new
    BY <2>1, VisibleAt DEF Rewrites
  <2>2. CASE r \in Visible /\ r \notin old
    <3>1. PICK x \in Place : r \in RowsAt(x)
      BY <2>2, VisibleAt
    <3>2. x \notin T
      BY <2>2, <3>1 DEF Rewrites
    <3> QED BY <3>1, <3>2, VisibleAt DEF Rewrites
  <2> QED BY <1>5, <2>1, <2>2
<1> QED BY <1>1, <1>3, <1>4, <1>5

ContentsInv == RowsOnce /\ Keeps(Visible, Acknowledged)

\* Rows of an insert that is not done are not acknowledged, and become so at once.
LEMMA FinishAcknowledges ==
  ASSUME Shape, NEW i \in Insert, Finishes(i)
  PROVE  /\ \A r \in RowsOf(i) : r \notin Acknowledged
         /\ \A r : r \in Acknowledged' <=> r \in Acknowledged \/ r \in RowsOf(i)
<1>1. \A r : r \in Acknowledged' <=> \E k \in Insert : ins'[k].pc = "done" /\ r \in RowsOf(k)
  BY DEF Acknowledged
<1>2. \A k \in Insert : ins'[k].pc = "done" <=> k = i \/ ins[k].pc = "done"
  BY DEF Finishes, InsertEnds, Shape
<1>3. \A k \in Insert : \A r \in RowsOf(k) : r[2] = k
  BY DEF RowsOf
<1>4. ins[i].pc # "done"
  BY DEF Finishes
<1>5. ASSUME NEW r \in RowsOf(i), r \in Acknowledged PROVE FALSE
  <2>1. PICK k \in Insert : ins[k].pc = "done" /\ r \in RowsOf(k)
    BY <1>5, AcknowledgedAre
  <2> QED BY <1>3, <1>4, <1>5, <2>1
<1> QED BY <1>1, <1>2, <1>5, AcknowledgedAre

\* An insert that activates its chunks adds its rows.
LEMMA FinishRewrites ==
  ASSUME Shape, ChunkInv, WorkInv, ContentsInv, NEW i \in Insert, Finishes(i)
  PROVE  \E T : Rewrites(T, {}, RowsOf(i))
<1> SUFFICES ASSUME NEW cs, cs = ins[i].chunks PROVE \E T : Rewrites(T, {}, RowsOf(i))
  OBVIOUS
<1> DEFINE T == {<<"chunk", c>> : c \in cs}
<1>1. cs \in SUBSET CId
  BY DEF Finishes, Shape, InsertState
<1>2. Covers(chunk, cs, RowsOf(i))
  BY DEF Finishes, WorkInv, UploadsAreWhole
<1>3. \A c \in cs : chunk[c].state = "created"
  BY DEF Finishes, ChunkInv, HeldAreCreated, Held, Holder
<1>4. \A c \in CId : c \in cs => ChunkRows(c) = {} /\ ChunkRows(c)' = chunk[c].rows
  BY <1>3 DEF Finishes, SetState, ChunkRows, Live, Shape
<1>5. \A c \in CId : c \notin cs => ChunkRows(c)' = ChunkRows(c)
  BY DEF Finishes, SetState, ChunkRows, Live, Shape
<1>6. \A p \in PId : MainRows(p)' = MainRows(p)
  BY DEF Finishes, MainRows, Active
<1>7. T \subseteq Place
  BY <1>1, PlacesAre
<1>8. ASSUME NEW x \in Place, x \notin T PROVE RowsAt(x)' = RowsAt(x)
  <2>1. CASE \E p \in PId : x = <<"main", p>> /\ RowsAt(x) = MainRows(p)
    BY <1>6, <2>1, PlacesAreNext
  <2>2. CASE \E c \in CId : x = <<"chunk", c>> /\ RowsAt(x) = ChunkRows(c)
    BY <1>5, <1>8, <2>2, PlacesAreNext
  <2> QED BY <2>1, <2>2, PlacesAre
<1>9. \A c \in cs : RowsAt(<<"chunk", c>>) = {} /\ RowsAt(<<"chunk", c>>)' = chunk[c].rows
  BY <1>1, <1>4, PlacesAre, PlacesAreNext
<1>10. \A r \in RowsOf(i) : r \notin Visible
  BY FinishAcknowledges DEF ContentsInv, Keeps
<1>11. \A x \in T : RowsAt(x) \subseteq {} /\ RowsAt(x)' \subseteq RowsOf(i)
  BY <1>2, <1>9 DEF Covers
<1>12. ASSUME NEW r \in RowsOf(i) PROVE \E x \in T : r \in RowsAt(x)'
  <2>1. PICK c \in cs : r \in chunk[c].rows
    BY <1>2 DEF Covers
  <2>2. <<"chunk", c>> \in T /\ r \in RowsAt(<<"chunk", c>>)'
    BY <1>9, <2>1
  <2> QED BY <2>2
<1>13. \A x, y \in T : x # y => RowsAt(x)' \cap RowsAt(y)' = {}
  BY <1>2, <1>9 DEF Covers
<1> HIDE DEF T
<1>14. Rewrites(T, {}, RowsOf(i))
  BY <1>7, <1>8, <1>10, <1>11, <1>12, <1>13 DEF Rewrites
<1> QED BY <1>14

\* A repartition puts the rows of a chunk into others.
LEMMA MoveRewrites ==
  ASSUME Shape, WorkInv, NEW s \in Slot, Moves(s)
  PROVE  \E T, rows : Rewrites(T, rows, rows)
<1> SUFFICES ASSUME NEW cs, cs = job[s].chunks, NEW k, k = job[s].chunk,
                    NEW rows, rows = chunk[k].rows
             PROVE  \E T : Rewrites(T, rows, rows)
  OBVIOUS
<1> DEFINE T == {<<"chunk", c>> : c \in cs \cup {k}}
<1>1. cs \in SUBSET CId /\ k \in CId
  BY JobCases DEF Moves
<1>2. Covers(chunk, cs, rows)
  BY DEF Moves, WorkInv, UploadsAreWhole
<1>3. Live(k) /\ \A c \in cs : ~Live(c)
  BY DEF Moves, CanSwapChunks
<1>4. \A c \in CId : c \in cs => ChunkRows(c) = {} /\ ChunkRows(c)' = chunk[c].rows
  BY <1>3 DEF Moves, ChunkRows, Live, Shape
<1>5. ChunkRows(k) = rows /\ ChunkRows(k)' = {}
  BY <1>1, <1>3 DEF Moves, ChunkRows, Live, Shape
<1>6. \A c \in CId : c \notin cs /\ c # k => ChunkRows(c)' = ChunkRows(c)
  BY DEF Moves, ChunkRows, Live, Shape
<1>7. \A p \in PId : MainRows(p)' = MainRows(p)
  BY DEF Moves, MainRows, Active
<1>8. T \subseteq Place
  BY <1>1, PlacesAre
<1>9. ASSUME NEW x \in Place, x \notin T PROVE RowsAt(x)' = RowsAt(x)
  <2>1. CASE \E p \in PId : x = <<"main", p>> /\ RowsAt(x) = MainRows(p)
    BY <1>7, <2>1, PlacesAreNext
  <2>2. CASE \E c \in CId : x = <<"chunk", c>> /\ RowsAt(x) = ChunkRows(c)
    BY <1>6, <1>9, <2>2, PlacesAreNext
  <2> QED BY <2>1, <2>2, PlacesAre
<1>10. /\ \A c \in cs : RowsAt(<<"chunk", c>>) = {} /\ RowsAt(<<"chunk", c>>)' = chunk[c].rows
       /\ RowsAt(<<"chunk", k>>) = rows /\ RowsAt(<<"chunk", k>>)' = {}
  BY <1>1, <1>4, <1>5, PlacesAre, PlacesAreNext
<1>11. \A x \in T : RowsAt(x) \subseteq rows /\ RowsAt(x)' \subseteq rows
  BY <1>2, <1>10 DEF Covers
<1>12. ASSUME NEW r \in rows
       PROVE  (\E x \in T : r \in RowsAt(x)) /\ (\E x \in T : r \in RowsAt(x)')
  <2>1. PICK c \in cs : r \in chunk[c].rows
    BY <1>2 DEF Covers
  <2>2. /\ <<"chunk", c>> \in T /\ r \in RowsAt(<<"chunk", c>>)'
        /\ <<"chunk", k>> \in T /\ r \in RowsAt(<<"chunk", k>>)
    BY <1>10, <2>1
  <2> QED BY <2>2
<1>13. \A x, y \in T : x # y => RowsAt(x)' \cap RowsAt(y)' = {}
  <2> SUFFICES ASSUME NEW c \in cs \cup {k}, NEW d \in cs \cup {k}, c # d
               PROVE  RowsAt(<<"chunk", c>>)' \cap RowsAt(<<"chunk", d>>)' = {}
    OBVIOUS
  <2> QED BY <1>2, <1>10 DEF Covers
<1> HIDE DEF T
<1>14. Rewrites(T, rows, rows)
  BY <1>8, <1>9, <1>11, <1>12, <1>13 DEF Rewrites
<1> QED BY <1>14

\* A compaction puts the merged rows of a partition and its chunks into children.
LEMMA SwapRewrites ==
  ASSUME Shape, WorkInv, NEW s \in Slot, Swaps(s)
  PROVE  \E T : \E rows \in SUBSET Row : Rewrites(T, rows, Merge(rows))
<1> SUFFICES ASSUME NEW p, p = job[s].part, NEW cs, cs = job[s].chunks,
                    NEW out, out = job[s].out,
                    NEW rows, rows = partition[p].rows \cup UNION {chunk[c].rows : c \in cs}
             PROVE  rows \in SUBSET Row /\ \E T : Rewrites(T, rows, Merge(rows))
  OBVIOUS
<1> DEFINE T == {<<"main", q>> : q \in {p} \cup DOMAIN out} \cup {<<"chunk", c>> : c \in cs}
<1>1. /\ p \in PId /\ cs \in SUBSET CId /\ DOMAIN out \in SUBSET PId
      /\ \A q \in DOMAIN out : out[q] \in SUBSET Row
  <2>1. job[s] \in [pc : {"swapping"}, target : File, part : PId, chunks : SUBSET CId, out : Split]
    BY JobCases DEF Swaps
  <2> QED BY <2>1, SplitFacts
<1>2. rows \in SUBSET Row
  BY <1>1 DEF Shape, PartitionRecord
<1>3. Splits(out, Merge(rows))
  BY DEF Swaps, WorkInv, PlanInv, SplitsAreWhole, MergedRows
<1>4. /\ Active(p) /\ \A c \in cs : Live(c)
      /\ \A q \in DOMAIN out : ~Active(q)
  BY DEF Swaps, CanSwapPartitions, Active
<1>5. MainRows(p) = partition[p].rows /\ \A q \in DOMAIN out : MainRows(q) = {}
  BY <1>4 DEF MainRows
<1>6. partition'[p].state = "inactive"
  <2>1. partition'[p] = [partition[p] EXCEPT !.state = "inactive"]
    BY <1>1 DEF Swaps, SwappedPartitions
  <2>2. PartitionRecord(partition[p])
    BY <1>1 DEF Shape
  <2> QED BY <2>1, <2>2 DEF PartitionRecord
<1>7. ASSUME NEW q \in DOMAIN out
      PROVE  partition'[q].state = "active" /\ partition'[q].rows = out[q]
  <2>1. q # p /\ q \in PId
    BY <1>1, <1>4
  <2>2. partition'[q] = [partition[q] EXCEPT !.state = "active", !.rows = out[q],
                           !.lo = ChildLow(job[s], q), !.hi = ChildHigh(job[s], q)]
    BY <2>1 DEF Swaps, SwappedPartitions
  <2>3. PartitionRecord(partition[q])
    BY <2>1 DEF Shape
  <2> QED BY <2>2, <2>3 DEF PartitionRecord
<1>8. \A q \in PId : q # p /\ q \notin DOMAIN out => partition'[q] = partition[q]
  BY DEF Swaps, SwappedPartitions
<1>9. \A q \in PId : /\ q = p => MainRows(q)' = {}
                     /\ q \in DOMAIN out => MainRows(q)' = out[q]
                     /\ q # p /\ q \notin DOMAIN out => MainRows(q)' = MainRows(q)
  BY <1>6, <1>7, <1>8 DEF MainRows, Active
<1>10. \A c \in CId : c \in cs => ChunkRows(c) = chunk[c].rows /\ ChunkRows(c)' = {}
  BY <1>4 DEF Swaps, SwappedChunks, ChunkRows, Live, Shape
<1>11. \A c \in CId : c \notin cs => ChunkRows(c)' = ChunkRows(c)
  BY DEF Swaps, SwappedChunks, ChunkRows, Live, Shape
<1>12. T \subseteq Place
  BY <1>1, PlacesAre
<1>13. ASSUME NEW x \in Place, x \notin T PROVE RowsAt(x)' = RowsAt(x)
  <2>1. ASSUME NEW q \in PId, x = <<"main", q>>, RowsAt(x) = MainRows(q)
        PROVE  RowsAt(x)' = RowsAt(x)
    <3>1. q # p /\ q \notin DOMAIN out
      BY <1>13, <2>1
    <3> QED BY <1>9, <2>1, <3>1, PlacesAreNext
  <2>2. ASSUME NEW c \in CId, x = <<"chunk", c>>, RowsAt(x) = ChunkRows(c)
        PROVE  RowsAt(x)' = RowsAt(x)
    <3>1. c \notin cs
      BY <1>13, <2>2
    <3> QED BY <1>11, <2>2, <3>1, PlacesAreNext
  <2> QED BY <2>1, <2>2, PlacesAre
<1>14. \A q \in PId : /\ q = p => RowsAt(<<"main", q>>) = partition[p].rows /\ RowsAt(<<"main", q>>)' = {}
                      /\ q \in DOMAIN out => RowsAt(<<"main", q>>) = {} /\ RowsAt(<<"main", q>>)' = out[q]
  BY <1>5, <1>9, PlacesAre, PlacesAreNext
<1>15. \A c \in cs : RowsAt(<<"chunk", c>>) = chunk[c].rows /\ RowsAt(<<"chunk", c>>)' = {}
  BY <1>1, <1>10, PlacesAre, PlacesAreNext
<1>16. ASSUME NEW x \in T PROVE RowsAt(x) \subseteq rows /\ RowsAt(x)' \subseteq Merge(rows)
  <2>1. CASE x = <<"main", p>>
    BY <1>1, <1>14, <2>1
  <2>2. ASSUME NEW q \in DOMAIN out, x = <<"main", q>>
        PROVE  RowsAt(x) \subseteq rows /\ RowsAt(x)' \subseteq Merge(rows)
    BY <1>1, <1>3, <1>14, <2>2 DEF Splits
  <2>3. ASSUME NEW c \in cs, x = <<"chunk", c>>
        PROVE  RowsAt(x) \subseteq rows /\ RowsAt(x)' \subseteq Merge(rows)
    BY <1>15, <2>3
  <2> QED BY <2>1, <2>2, <2>3
<1>17. ASSUME NEW r \in rows PROVE \E x \in T : r \in RowsAt(x)
  <2>1. CASE r \in partition[p].rows
    <3>1. <<"main", p>> \in T /\ r \in RowsAt(<<"main", p>>)
      BY <1>1, <1>14, <2>1
    <3> QED BY <3>1
  <2>2. ASSUME NEW c \in cs, r \in chunk[c].rows PROVE \E x \in T : r \in RowsAt(x)
    <3>1. <<"chunk", c>> \in T /\ r \in RowsAt(<<"chunk", c>>)
      BY <1>15, <2>2
    <3> QED BY <3>1
  <2> QED BY <2>1, <2>2
<1>18. ASSUME NEW r \in Merge(rows) PROVE (\E x \in T : r \in RowsAt(x)') /\ r \in rows
  <2>1. PICK q \in DOMAIN out : r \in out[q]
    BY <1>3 DEF Splits
  <2>2. <<"main", q>> \in T /\ r \in RowsAt(<<"main", q>>)'
    BY <1>1, <1>14, <2>1
  <2>3. r \in rows
    BY DEF Merge
  <2> QED BY <2>2, <2>3
<1>19. ASSUME NEW x \in T, NEW y \in T, x # y PROVE RowsAt(x)' \cap RowsAt(y)' = {}
  <2>1. ASSUME NEW z \in T, \A q \in DOMAIN out : z # <<"main", q>> PROVE RowsAt(z)' = {}
    BY <1>1, <1>14, <1>15, <2>1
  <2>2. ASSUME NEW q \in DOMAIN out, NEW k \in DOMAIN out, x = <<"main", q>>, y = <<"main", k>>
        PROVE  RowsAt(x)' \cap RowsAt(y)' = {}
    <3>1. q # k
      BY <1>19, <2>2
    <3> QED BY <1>1, <1>3, <1>14, <2>2, <3>1 DEF Splits
  <2> QED BY <2>1, <2>2
<1> HIDE DEF T
<1>20. Rewrites(T, rows, Merge(rows))
  BY <1>12, <1>13, <1>16, <1>17, <1>18, <1>19 DEF Rewrites
<1> QED BY <1>2, <1>20

\* What is visible and what is acknowledged, after a step.
LEMMA ContentsSteps ==
  ASSUME Shape, ChunkInv, WorkInv, ContentsInv, Next
  PROVE  /\ RowsOnce'
         /\ \/ /\ \E rows \in SUBSET Row : /\ rows \subseteq Visible
                     /\ \A r : r \in Visible' <=> (r \in Visible /\ r \notin rows) \/ r \in Merge(rows)
               /\ Acknowledged' = Acknowledged
            \/ \E i \in Insert :
                 /\ \A r \in RowsOf(i) : r \notin Acknowledged
                 /\ \A r : r \in Visible' <=> r \in Visible \/ r \in RowsOf(i)
                 /\ \A r : r \in Acknowledged' <=> r \in Acknowledged \/ r \in RowsOf(i)
<1>0. RowsOnce
  BY DEF ContentsInv
<1>1. ASSUME DoneStays PROVE Acknowledged' = Acknowledged
  BY <1>1 DEF DoneStays, Acknowledged
<1>2. Visible \in SUBSET Row
  BY AcknowledgedAre DEF ContentsInv, Keeps
<1>3. CASE RowsStay
  <2>1. ASSUME NEW x \in Place PROVE RowsAt(x)' = RowsAt(x)
    <3>1. CASE \E p \in PId : x = <<"main", p>> /\ RowsAt(x) = MainRows(p)
      BY <1>3, <3>1, PlacesAreNext DEF RowsStay, MainStays
    <3>2. CASE \E c \in CId : x = <<"chunk", c>> /\ RowsAt(x) = ChunkRows(c)
      BY <1>3, <3>2, PlacesAreNext DEF RowsStay, ChunksStay
    <3> QED BY <3>1, <3>2, PlacesAre
  <2>2. RowsOnce'
    BY <1>0, <2>1 DEF RowsOnce, Place
  <2>3. \A r : r \in Visible' <=> r \in Visible
    BY <2>1, VisibleAt
  <2>4. \A r : r \notin Merge({})
    BY DEF Merge
  <2>5. \A r : r \in Visible' <=> (r \in Visible /\ r \notin {}) \/ r \in Merge({})
    BY <2>3, <2>4
  <2>6. {} \in SUBSET Row /\ {} \subseteq Visible
    OBVIOUS
  <2> QED BY <1>1, <1>3, <2>2, <2>5, <2>6 DEF RowsStay
<1>4. ASSUME NEW i \in Insert, Finishes(i)
      PROVE  /\ RowsOnce'
             /\ \A r \in RowsOf(i) : r \notin Acknowledged
             /\ \A r : r \in Visible' <=> r \in Visible \/ r \in RowsOf(i)
             /\ \A r : r \in Acknowledged' <=> r \in Acknowledged \/ r \in RowsOf(i)
  <2>1. PICK T : Rewrites(T, {}, RowsOf(i))
    BY <1>4, FinishRewrites
  <2>2. RowsOnce' /\ \A r : r \in Visible' <=> (r \in Visible /\ r \notin {}) \/ r \in RowsOf(i)
    BY <1>0, <2>1, RewritesKeep
  <2> QED BY <1>4, <2>2, FinishAcknowledges
<1>5. ASSUME NEW T, NEW rows \in SUBSET Row, Rewrites(T, rows, Merge(rows))
      PROVE  /\ RowsOnce' /\ rows \subseteq Visible
             /\ \A r : r \in Visible' <=> (r \in Visible /\ r \notin rows) \/ r \in Merge(rows)
  BY <1>0, <1>5, RewritesKeep
<1>6. ASSUME NEW s \in Slot, Swaps(s)
      PROVE  \E T : \E rows \in SUBSET Row : Rewrites(T, rows, Merge(rows)) /\ DoneStays
  BY <1>6, SwapRewrites DEF Swaps, DoneStays
<1>7. ASSUME NEW s \in Slot, Moves(s)
      PROVE  /\ RowsOnce' /\ DoneStays
             /\ \A r : r \in Visible' <=> r \in Visible
  <2>1. PICK T, rows : Rewrites(T, rows, rows)
    BY <1>7, MoveRewrites
  <2>2. /\ RowsOnce' /\ rows \subseteq Visible
        /\ \A r : r \in Visible' <=> (r \in Visible /\ r \notin rows) \/ r \in rows
    BY <1>0, <2>1, RewritesKeep
  <2> QED BY <1>7, <2>2 DEF Moves, DoneStays
<1>8. ASSUME NEW s \in Slot, Moves(s)
      PROVE  \A r : r \in Visible' <=> (r \in Visible /\ r \notin {}) \/ r \in Merge({})
  <2>1. \A r : r \notin Merge({})
    BY DEF Merge
  <2> QED BY <1>7, <1>8, <2>1
<1>9. {} \in SUBSET Row /\ {} \subseteq Visible
  OBVIOUS
<1>10. ASSUME NEW s \in Slot, Moves(s)
       PROVE  /\ RowsOnce' /\ Acknowledged' = Acknowledged
              /\ \E rows \in SUBSET Row : /\ rows \subseteq Visible
                    /\ \A r : r \in Visible' <=> (r \in Visible /\ r \notin rows) \/ r \in Merge(rows)
  BY <1>1, <1>7, <1>8, <1>9, <1>10
<1>11. ASSUME NEW s \in Slot, Swaps(s)
       PROVE  /\ RowsOnce' /\ Acknowledged' = Acknowledged
              /\ \E rows \in SUBSET Row : /\ rows \subseteq Visible
                    /\ \A r : r \in Visible' <=> (r \in Visible /\ r \notin rows) \/ r \in Merge(rows)
  BY <1>1, <1>5, <1>6, <1>11
<1> QED BY <1>3, <1>4, <1>10, <1>11, VisibleSteps DEF ChunkInv

-----------------------------------------------------------------------------
(* Contents and acknowledgements *)

\* Nothing is there at first.
LEMMA InitContents == Init => ContentsInv
<1> SUFFICES ASSUME Init PROVE ContentsInv
  OBVIOUS
<1>1. \A x \in Place : RowsAt(x) = {}
  BY DEF Init, Place, RowsAt, Active, Live, NoPartition, NoChunk
<1>2. Visible = {}
  BY <1>1, VisibleAt
<1>3. \A r : r \notin Acknowledged
  BY AcknowledgedAre DEF Init, NotInserted
<1> QED BY <1>1, <1>2, <1>3 DEF ContentsInv, RowsOnce, Keeps

\* Each step keeps the contents: merged rows are kept, and so are those added.
LEMMA ContentsStay ==
  ASSUME Shape, ChunkInv, WorkInv, ContentsInv, Next
  PROVE  ContentsInv'
<1>0. RowsOnce'
  BY ContentsSteps
<1>1. ASSUME NEW rows \in SUBSET Row, rows \subseteq Visible, Acknowledged' = Acknowledged,
             \A r : r \in Visible' <=> (r \in Visible /\ r \notin rows) \/ r \in Merge(rows)
      PROVE  Keeps(Visible', Acknowledged')
  <2>1. Keeps(Merge(rows), rows)
    BY MergeKeeps
  <2>2. Keeps(Visible', Visible)
    <3>1. ASSUME NEW r \in Visible'
          PROVE  r \in Visible
      BY <1>1, <2>1 DEF Keeps
    <3>2. ASSUME NEW r \in Visible
          PROVE  \E t \in Visible' : t = r \/ (UniqueKey /\ t[1] = r[1] /\ t[2] > r[2])
      <4>1. CASE r \in rows
        BY <1>1, <2>1, <4>1 DEF Keeps
      <4>2. CASE r \notin rows
        BY <1>1, <4>2
      <4> QED BY <4>1, <4>2
    <3> QED BY <3>1, <3>2 DEF Keeps
  <2> QED BY <1>1, <2>2, AcknowledgedAre, KeepsTransitive DEF ContentsInv
<1>2. ASSUME NEW i \in Insert,
             \A r : r \in Visible' <=> r \in Visible \/ r \in RowsOf(i),
             \A r : r \in Acknowledged' <=> r \in Acknowledged \/ r \in RowsOf(i)
      PROVE  Keeps(Visible', Acknowledged')
  BY <1>2 DEF ContentsInv, Keeps
<1> QED BY <1>0, <1>1, <1>2, ContentsSteps DEF ContentsInv

\* The invariant of the contents.
LEMMA ContentsInvHolds ==
  ASSUME ~SlowInserts
  PROVE  Spec => [](Shape /\ ChunkInv /\ WorkInv /\ ContentsInv)
<1>1. Shape /\ ChunkInv /\ WorkInv /\ ContentsInv /\ [Next]_vars => ContentsInv'
  <2>1. ASSUME ContentsInv, UNCHANGED vars PROVE ContentsInv'
    <3>1. Visible' = Visible /\ Acknowledged' = Acknowledged
      BY <2>1 DEF vars, Visible, RowsAt, Active, Live, Acknowledged
    <3>2. RowsOnce'
      BY <2>1 DEF ContentsInv, vars, RowsOnce, RowsAt, Active, Live
    <3> QED BY <2>1, <3>1, <3>2 DEF ContentsInv
  <2> QED BY <2>1, ContentsStay
<1> QED BY <1>1, InitContents, WorkInvHolds, PTL DEF Spec

\* No row is read from two places: of two workers that rewrite the same rows, a
\* repartition and a compaction that merge the same chunk, an insert whose chunk
\* is moved while it is activated, one wins (swap_active_partitions, swap_chunks).
THEOREM RowsAreReadOnce ==
  ASSUME ~SlowInserts
  PROVE  Spec => []RowsOnce
<1>1. ContentsInv => RowsOnce
  BY DEF ContentsInv
<1> QED BY <1>1, ContentsInvHolds, PTL

\* A select sees the rows of every insert that was acknowledged, the last one of
\* a key when it is unique, and of no other insert, whatever workers, failures
\* and the garbage collection are in the middle of.
THEOREM AcknowledgedStaysVisible ==
  ASSUME ~SlowInserts
  PROVE  Spec => []AcknowledgedIsVisible
<1>1. ContentsInv => AcknowledgedIsVisible
  BY AcknowledgedAre, KeepsSameMerge DEF ContentsInv, AcknowledgedIsVisible
<1> QED BY <1>1, ContentsInvHolds, PTL

\* Without a unique key the index implements the abstract table: the one thing
\* that ever happens to the rows a select reads is that an insert adds its own,
\* all at once and each once.
THEOREM IndexImplementsContents ==
  ASSUME ~SlowInserts, ~UniqueKey
  PROVE  Spec => ImplementsContents
<1>0. ASSUME ContentsInv PROVE Visible = Acknowledged
  BY <1>0 DEF ContentsInv, Keeps
<1>1. Init => Contents!Init
  <2>1. Init => \A x \in Place : RowsAt(x) = {}
    BY DEF Init, Place, RowsAt, Active, Live, NoPartition, NoChunk
  <2>2. Init => Visible = {}
    BY <2>1, VisibleAt
  <2> QED BY <2>2 DEF Contents!Init
<1>2. Shape /\ ChunkInv /\ WorkInv /\ ContentsInv /\ [Next]_vars => [Contents!Next]_Visible
  <2>1. ASSUME UNCHANGED vars PROVE Visible' = Visible
    BY <2>1 DEF vars, Visible, RowsAt, Active, Live
  <2>2. ASSUME Shape, ChunkInv, WorkInv, ContentsInv, Next PROVE [Contents!Next]_Visible
    <3>1. ContentsInv'
      BY <2>2, ContentsStay
    <3>2. CASE Acknowledged' = Acknowledged
      <4>1. Visible' = Acknowledged'
        BY <3>1 DEF ContentsInv, Keeps
      <4> QED BY <1>0, <2>2, <3>2, <4>1
    <3>3. ASSUME NEW i \in Insert,
                 \A r \in RowsOf(i) : r \notin Acknowledged,
                 \A r : r \in Visible' <=> r \in Visible \/ r \in RowsOf(i)
          PROVE  Contents!Add(i)
      <4>1. Visible \cap RowsOf(i) = {}
        BY <1>0, <2>2, <3>3
      <4>2. Visible' = Visible \cup RowsOf(i)
        BY <3>3
      <4> QED BY <4>1, <4>2 DEF Contents!Add
    <3> QED BY <2>2, <3>2, <3>3, ContentsSteps DEF Contents!Next
  <2> QED BY <2>1, <2>2
<1> QED BY <1>1, <1>2, ContentsInvHolds, PTL DEF Spec, ImplementsContents, Contents!Spec
=============================================================================
