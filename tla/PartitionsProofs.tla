-------------------------- MODULE PartitionsProofs --------------------------
(***************************************************************************)
(* What holds of the partitions and chunks of an index for any number of   *)
(* inserts, keys, workers, selects, failures and collections: a select     *)
(* finds its files, no active chunk is deleted, and no partition or chunk  *)
(* loses the rows of the metastore above it.                               *)
(***************************************************************************)
EXTENDS Partitions, NumberSets

(* The shape of the state: TypeOK without the bounds of the partitions,     *)
(* which need that no file of a compaction is empty.                        *)

PartitionRecord(r) ==
  r \in [state : {"free", "inactive", "active", "deleted"}, parent : {0} \cup PId,
         lo : {r.lo}, hi : {r.hi}, rows : SUBSET Row]

Shape ==
  /\ DOMAIN partition = PId /\ partition = [p \in PId |-> partition[p]]
  /\ \A p \in PId : PartitionRecord(partition[p])
  /\ chunk \in [CId -> [state : {"free", "created", "active", "inactive", "deleted"},
                        part : {0} \cup PId, rows : SUBSET Row]]
  /\ remote \subseteq File
  /\ ins \in [Insert -> InsertState]
  /\ job \in [Slot -> {Idle} \cup Compaction \cup Repartition]
  /\ sel \in [Reader -> SUBSET File]
  /\ events \subseteq ({"deactivated"} \X PId) \cup ({"deleted"} \X CId)
  /\ gc \subseteq Garbage
  /\ broken \in BOOLEAN /\ failures \in 0 .. MaxFailures

(* The children of a compaction, before it ends *)

Kids(s) ==
  IF job[s].pc = "merging" THEN job[s].kids
  ELSE IF job[s].pc = "swapping" THEN DOMAIN job[s].out ELSE {}

\* A partition that was never active
Fresh(p) == partition[p].state \in {"inactive", "deleted"} /\ partition[p].rows = {}

KidsAreFresh ==
  /\ \A s \in Slot : \A p \in Kids(s) : Fresh(p)
  /\ \A s, t \in Slot : s # t => Kids(s) \cap Kids(t) = {}

(* Files *)

\* Files that nothing in the metastore will ever need again
Dead(f) ==
  \/ \E p \in PId : /\ f = MainFile(p) /\ partition[p].rows # {}
                    /\ partition[p].state \in {"inactive", "deleted"}
  \/ \E c \in CId : f = ChunkFile(c) /\ chunk[c].state = "deleted"

FilesAreThere ==
  /\ \A p \in PId : HasMainFile(p) => MainFile(p) \in remote
  /\ \A c \in CId : Stored(c) => ChunkFile(c) \in remote
  /\ \A s \in Slot : job[s].pc = "swapping" =>
       \A p \in DOMAIN job[s].out : MainFile(p) \in remote

DeadAreCollected ==
  /\ \A c \in CId : <<"deleted", c>> \in events => chunk[c].state = "deleted"
  /\ \A t \in gc : t.kind = "file" => Dead(t.id)

\* The removal of a file waits for every select that was planned on it
RemovalsWait ==
  \A t \in gc, r \in Reader : t.kind = "file" /\ t.id \in sel[r] => r \in t.wait

FileInv ==
  KidsAreFresh /\ FilesAreThere /\ DeadAreCollected /\ RemovalsWait /\ SelectFindsItsFiles

(* Chunks that an insert or a repartition has created and will activate *)

Holder == Insert \cup Slot
Held(x) ==
  IF x \in Insert
  THEN IF ins[x].pc = "uploaded" THEN ins[x].chunks ELSE {}
  ELSE IF job[x].pc = "moving" THEN job[x].chunks ELSE {}

HeldAreCreated ==
  /\ \A x \in Holder : \A c \in Held(x) : chunk[c].state = "created"
  /\ \A x, y \in Holder : x # y => Held(x) \cap Held(y) = {}

\* The deletion of a chunk waits for the one who would activate it
DeletionsWait ==
  \A t \in gc : t.kind = "chunk" =>
    /\ chunk[t.id].state # "free"
    /\ \A x \in Holder : t.id \in Held(x) => x \in t.wait
    /\ t.checked => t.wait = {} /\ ~Live(t.id)

ChunkInv == HeldAreCreated /\ DeletionsWait

-----------------------------------------------------------------------------
\* Sets of partitions and of chunks are finite.
LEMMA PIdFinite == ASSUME NEW S \in SUBSET PId PROVE IsFiniteSet(S) /\ S \in SUBSET Nat
<1>1. MaxPartition \in Nat
  BY PartitionsAssumption
<1>2. IsFiniteSet(1 .. MaxPartition) /\ 1 .. MaxPartition \subseteq Nat
  BY <1>1, FS_Interval
<1> QED BY <1>2, FS_Subset DEF PId

\* Sets of chunks are finite.
LEMMA CIdFinite == ASSUME NEW S \in SUBSET CId PROVE IsFiniteSet(S) /\ S \in SUBSET Nat
<1>1. MaxChunk \in Nat
  BY PartitionsAssumption
<1>2. IsFiniteSet(1 .. MaxChunk) /\ 1 .. MaxChunk \subseteq Nat
  BY <1>1, FS_Interval
<1> QED BY <1>2, FS_Subset DEF CId

\* Sets of keys are finite, and keys are numbers above 0.
LEMMA KeyFinite == ASSUME NEW S \in SUBSET Key PROVE IsFiniteSet(S) /\ S \in SUBSET (Nat \ {0})
<1> DEFINE Sets == {KeysOf[i] : i \in Insert}
           f == [i \in Insert |-> KeysOf[i]]
<1>1. IsFiniteSet(Sets)
  <2>1. f \in Surjection(Insert, Sets)
    BY DEF Surjection
  <2> QED BY <2>1, FS_Surjection, PartitionsAssumption
<1>2. \A T \in Sets : IsFiniteSet(T) /\ T \subseteq Nat \ {0}
  BY PartitionsAssumption
<1>3. IsFiniteSet(UNION Sets)
  BY <1>1, <1>2, FS_UNION
<1>4. Key = UNION Sets
  BY DEF Key
<1> QED BY <1>2, <1>3, <1>4, FS_Subset

\* A number above the last one is the number of no partition yet.
LEMMA LastPartitionIsLast ==
  /\ LastPartition \in Nat
  /\ \A p \in PId : p > LastPartition => partition[p].state = "free"
<1> DEFINE S == {0} \cup {p \in PId : partition[p].state # "free"}
<1>1. IsFiniteSet(S) /\ S \in SUBSET Int /\ S # {}
  <2> DEFINE U == {p \in PId : partition[p].state # "free"}
  <2>1. IsFiniteSet(U) /\ U \in SUBSET Nat
    BY PIdFinite
  <2> HIDE DEF U
  <2>2. IsFiniteSet({0} \cup U) /\ {0} \cup U \in SUBSET Int /\ {0} \cup U # {}
    <3>1. {0} \cup U = U \cup {0}
      OBVIOUS
    <3> QED BY <2>1, <3>1, FS_AddElement
  <2> QED BY <2>2 DEF U
<1> HIDE DEF S
<1>2. Max(S) \in S /\ \A y \in S : y <= Max(S)
  BY <1>1, FiniteHasMax
<1> QED BY <1>2 DEF S, LastPartition, PId

\* A number above the last one is the number of no chunk yet.
LEMMA LastChunkIsLast ==
  /\ LastChunk \in Nat
  /\ \A c \in CId : c > LastChunk => chunk[c].state = "free"
<1> DEFINE S == {0} \cup {c \in CId : chunk[c].state # "free"}
<1>1. IsFiniteSet(S) /\ S \in SUBSET Int /\ S # {}
  <2> DEFINE U == {c \in CId : chunk[c].state # "free"}
  <2>1. IsFiniteSet(U) /\ U \in SUBSET Nat
    BY CIdFinite
  <2> HIDE DEF U
  <2>2. IsFiniteSet({0} \cup U) /\ {0} \cup U \in SUBSET Int /\ {0} \cup U # {}
    <3>1. {0} \cup U = U \cup {0}
      OBVIOUS
    <3> QED BY <2>1, <3>1, FS_AddElement
  <2> QED BY <2>2 DEF U
<1> HIDE DEF S
<1>2. Max(S) \in S /\ \A y \in S : y <= Max(S)
  BY <1>1, FiniteHasMax
<1> QED BY <1>2 DEF S, LastChunk, CId

\* New chunks hold each of the rows once, in a partition that has its range
Spread(ps, rows, news) ==
  /\ \A n \in news : /\ n.id \in CId /\ chunk[n.id].state = "free"
                     /\ n.part \in ps /\ n.rows \subseteq rows /\ n.rows # {}
                     /\ \A r \in n.rows : InRange(n.part, r)
  /\ \A n, m \in news : n # m => n.id # m.id /\ n.rows \cap m.rows = {}
  /\ \A r \in rows : \E n \in news : r \in n.rows

\* NewChunks gives each row to the chunk of a partition it is in the range of,
\* and the chunks numbers that no chunk has yet.
LEMMA NewChunksFacts ==
  ASSUME NEW ps \in SUBSET PId, NEW rows \in SUBSET Row, Routable(ps, rows),
         NEW news, news = NewChunks(ps, rows), Ids(news) \subseteq CId
  PROVE  Spread(ps, rows, news)
<1> DEFINE home(r) == Min({p \in ps : InRange(p, r)})
           parts == {home(r) : r \in rows}
           upto(p) == {q \in parts : q <= p}
           num(p) == LastChunk + Cardinality(upto(p))
           new(p) == [id |-> num(p), part |-> p, rows |-> {r \in rows : home(r) = p}]
<1>1. news = {new(p) : p \in parts}
  BY DEF NewChunks
<1>2. \A r \in rows : home(r) \in ps /\ InRange(home(r), r)
  <2> TAKE r \in rows
  <2> DEFINE S == {p \in ps : InRange(p, r)}
  <2>1. S # {}
    BY DEF Routable
  <2>2. S \in SUBSET PId
    OBVIOUS
  <2>3. IsFiniteSet(S) /\ S \in SUBSET Int
    BY <2>2, PIdFinite
  <2> HIDE DEF S
  <2>4. Min(S) \in S
    BY <2>1, <2>3, FiniteHasMin
  <2> QED BY <2>4 DEF S
<1> HIDE DEF home
<1>3. parts \in SUBSET PId /\ parts \in SUBSET ps /\ parts \in SUBSET Nat
  <2>1. parts \subseteq ps
    BY <1>2
  <2>2. PId \subseteq Nat
    BY DEF PId
  <2> QED BY <2>1, <2>2
<1>4. ASSUME NEW p \in parts
      PROVE  IsFiniteSet(upto(p)) /\ Cardinality(upto(p)) \in Nat \ {0} /\ num(p) > LastChunk
             /\ num(p) \in Nat
  <2>1. upto(p) \in SUBSET PId
    BY <1>3
  <2>2. IsFiniteSet(upto(p))
    BY <2>1, PIdFinite
  <2>3. p \in upto(p)
    BY <1>3
  <2>4. Cardinality(upto(p)) \in Nat
    BY <2>2, FS_CardinalityType
  <2>5. Cardinality(upto(p)) # 0
    BY <2>2, <2>3, FS_EmptySet
  <2> QED BY <2>2, <2>4, <2>5, LastChunkIsLast
<1>5. ASSUME NEW p \in parts, NEW q \in parts, p < q
      PROVE  num(p) # num(q)
  <2>1. upto(p) \in SUBSET upto(q)
    BY <1>3, <1>5
  <2>2. q \in upto(q) /\ q \notin upto(p)
    BY <1>3, <1>5
  <2>3. Cardinality(upto(p)) # Cardinality(upto(q))
    BY <2>1, <2>2, <1>4, FS_Subset
  <2>4. Cardinality(upto(p)) \in Nat /\ Cardinality(upto(q)) \in Nat
    BY <1>4
  <2> HIDE DEF upto
  <2> QED BY <2>3, <2>4, LastChunkIsLast
<1>6. ASSUME NEW n \in news
      PROVE  /\ n.id \in CId /\ chunk[n.id].state = "free"
             /\ n.part \in ps /\ n.rows \subseteq rows /\ n.rows # {}
             /\ \A r \in n.rows : InRange(n.part, r)
  <2>1. PICK p \in parts : n = new(p)
    BY <1>1
  <2>2. n.id \in CId
    BY DEF Ids
  <2>3. n.id > LastChunk
    BY <2>1, <1>4
  <2>4. n.part \in ps /\ n.rows \subseteq rows /\ n.rows # {}
    BY <2>1, <1>3
  <2>5. \A r \in n.rows : InRange(n.part, r)
    BY <2>1, <1>2
  <2> QED BY <2>2, <2>3, <2>4, <2>5, LastChunkIsLast
<1>7. ASSUME NEW n \in news, NEW m \in news, n # m
      PROVE  n.id # m.id /\ n.rows \cap m.rows = {}
  <2>1. PICK p \in parts : n = new(p)
    BY <1>1
  <2>2. PICK q \in parts : m = new(q)
    BY <1>1
  <2>3. p # q
    BY <1>7, <2>1, <2>2
  <2>4. p < q \/ q < p
    BY <2>3, <1>3
  <2>5. num(p) # num(q)
    BY <2>4, <1>5
  <2> HIDE DEF num
  <2> QED BY <2>1, <2>2, <2>3, <2>5
<1>8. ASSUME NEW r \in rows
      PROVE  \E n \in news : r \in n.rows
  <2>1. new(home(r)) \in news
    BY <1>1
  <2>2. r \in new(home(r)).rows
    OBVIOUS
  <2> QED BY <2>1, <2>2
<1> QED BY <1>6, <1>7, <1>8 DEF Spread

\* What create_chunk and the upload do to each row of the chunks table.
LEMMA WithChunksFacts ==
  ASSUME NEW news, chunk' = WithChunks(news),
         \A n, m \in news : n # m => n.id # m.id
  PROVE  /\ \A n \in news : n.id \in CId =>
              chunk'[n.id] = [state |-> "created", part |-> n.part, rows |-> n.rows]
         /\ \A c \in CId \ Ids(news) : chunk'[c] = chunk[c]
         /\ DOMAIN chunk' = CId
<1>1. ASSUME NEW n \in news, n.id \in CId
      PROVE  chunk'[n.id] = [state |-> "created", part |-> n.part, rows |-> n.rows]
  <2> DEFINE k == CHOOSE x \in news : x.id = n.id
  <2>1. k = n
    OBVIOUS
  <2> HIDE DEF k
  <2>2. chunk'[n.id] = [state |-> "created", part |-> k.part, rows |-> k.rows]
    BY <1>1 DEF WithChunks, k
  <2> QED BY <2>1, <2>2
<1> QED BY <1>1 DEF WithChunks, Ids

-----------------------------------------------------------------------------
(* The queue of delayed tasks *)

\* A task of the queue that holds nobody's end any more is otherwise the same.
LEMMA EndedFacts ==
  ASSUME gc \subseteq Garbage, NEW who
  PROVE  /\ Ended(gc, who) \subseteq Garbage
         /\ \A u \in Ended(gc, who) : \E t \in gc :
              /\ u.kind = t.kind /\ u.id = t.id /\ u.checked = t.checked
              /\ u.wait = t.wait \ {who}
<1> SUFFICES ASSUME NEW u \in Ended(gc, who)
             PROVE  /\ u \in Garbage
                    /\ \E t \in gc : /\ u.kind = t.kind /\ u.id = t.id
                                     /\ u.checked = t.checked /\ u.wait = t.wait \ {who}
  OBVIOUS
<1>1. PICK t \in gc : u = [t EXCEPT !.wait = @ \ {who}]
  BY DEF Ended
<1>2. t \in Garbage
  OBVIOUS
<1>3. CASE t \in [kind : {"chunk"}, id : CId, wait : SUBSET Tasks, checked : BOOLEAN]
  BY <1>1, <1>3 DEF Garbage
<1>4. CASE t \in [kind : {"file"}, id : File, wait : SUBSET Tasks, checked : {FALSE}]
  BY <1>1, <1>4 DEF Garbage
<1>5. CASE t \in [kind : {"partition", "middleman"}, id : PId, wait : SUBSET Tasks,
                  checked : {FALSE}]
  BY <1>1, <1>5 DEF Garbage
<1> QED BY <1>2, <1>3, <1>4, <1>5 DEF Garbage

\* A scheduled task is in the queue already, or is new and waits as it should.
LEMMA ScheduleFacts ==
  ASSUME gc \subseteq Garbage, NEW kind, NEW ids, NEW wait \in SUBSET Tasks,
         \/ kind = "chunk" /\ ids \subseteq CId
         \/ kind = "file" /\ ids \subseteq File
         \/ kind \in {"partition", "middleman"} /\ ids \subseteq PId
  PROVE  /\ Schedule(kind, ids, wait) \subseteq Garbage
         /\ gc \subseteq Schedule(kind, ids, wait)
         /\ \A u \in Schedule(kind, ids, wait) : u \notin gc =>
              u.kind = kind /\ u.id \in ids /\ u.wait = wait /\ ~u.checked
<1>1. ASSUME NEW u \in Schedule(kind, ids, wait), u \notin gc
      PROVE  /\ u \in Garbage
             /\ u.kind = kind /\ u.id \in ids /\ u.wait = wait /\ ~u.checked
  <2>1. PICK x \in ids : u = [kind |-> kind, id |-> x, wait |-> wait, checked |-> FALSE]
    BY <1>1 DEF Schedule
  <2>2. CASE kind = "chunk" /\ ids \subseteq CId
    BY <2>1, <2>2 DEF Garbage
  <2>3. CASE kind = "file" /\ ids \subseteq File
    BY <2>1, <2>3 DEF Garbage
  <2>4. CASE kind \in {"partition", "middleman"} /\ ids \subseteq PId
    BY <2>1, <2>4 DEF Garbage
  <2> QED BY <2>1, <2>2, <2>3, <2>4
<1>2. gc \subseteq Schedule(kind, ids, wait)
  BY DEF Schedule
<1> QED BY <1>1, <1>2

\* The same of the removal of one file.
LEMMA ScheduleFileFacts ==
  ASSUME gc \subseteq Garbage, NEW f \in File, NEW wait \in SUBSET Tasks
  PROVE  /\ Schedule("file", {f}, wait) \subseteq Garbage
         /\ gc \subseteq Schedule("file", {f}, wait)
         /\ \A u \in Schedule("file", {f}, wait) : u \notin gc =>
              u.kind = "file" /\ u.id = f /\ u.wait = wait /\ ~u.checked
<1>1. ASSUME NEW u \in Schedule("file", {f}, wait), u \notin gc
      PROVE  u \in Garbage /\ u.kind = "file" /\ u.id = f /\ u.wait = wait /\ ~u.checked
  <2>1. u = [kind |-> "file", id |-> f, wait |-> wait, checked |-> FALSE]
    BY <1>1 DEF Schedule
  <2> QED BY <2>1 DEF Garbage
<1>2. gc \subseteq Schedule("file", {f}, wait)
  BY DEF Schedule
<1> QED BY <1>1, <1>2

\* Waits are sets of tasks.
LEMMA WaitsAreTasks == AfterQueries \in SUBSET Tasks /\ AfterJobs \in SUBSET Tasks
BY DEF AfterQueries, AfterJobs, Tasks, Readers, Working, Inserting

-----------------------------------------------------------------------------
(* The shape of the state, and what a step does to it *)

\* The first partition is active and nothing else is there.
LEMMA InitShape == Init => Shape
<1> SUFFICES ASSUME Init PROVE Shape
  OBVIOUS
<1>1. \A p \in PId : PartitionRecord(partition[p])
  BY DEF Init, PartitionRecord, NoPartition
<1>2. chunk \in [CId -> [state : {"free", "created", "active", "inactive", "deleted"},
                         part : {0} \cup PId, rows : SUBSET Row]]
  BY DEF Init, NoChunk
<1>3. ins \in [Insert -> InsertState] /\ sel \in [Reader -> SUBSET File]
  BY DEF Init, NotInserted, InsertState
<1>4. job \in [Slot -> {Idle} \cup Compaction \cup Repartition]
  BY DEF Init
<1>5. 0 \in 0 .. MaxFailures
  BY PartitionsAssumption
<1> QED BY <1>1, <1>2, <1>3, <1>4, <1>5 DEF Init, Shape

\* Other partitions stay, and the record of a changed one has its fields.
LEMMA PartitionShape ==
  ASSUME partition' = [p \in PId |-> partition'[p]],
         \A p \in PId : PartitionRecord(partition'[p])
  PROVE  /\ DOMAIN partition' = PId /\ partition' = [p \in PId |-> partition'[p]]
         /\ \A p \in PId : PartitionRecord(partition[p])'
BY DEF PartitionRecord

\* Chunks just created, and chunks with a new state, are rows of the table.
LEMMA SetStateShape ==
  ASSUME Shape, NEW cs, NEW st \in {"created", "active", "inactive", "deleted"}
  PROVE  SetState(cs, st) \in
           [CId -> [state : {"free", "created", "active", "inactive", "deleted"},
                    part : {0} \cup PId, rows : SUBSET Row]]
BY DEF Shape, SetState

\* Chunks just created are rows of the table, and their files are files.
LEMMA NewChunksShape ==
  ASSUME Shape, NEW ps \in SUBSET PId, NEW rows \in SUBSET Row, Routable(ps, rows),
         NEW news, news = NewChunks(ps, rows), Ids(news) \subseteq CId,
         chunk' = WithChunks(news)
  PROVE  /\ chunk' \in [CId -> [state : {"free", "created", "active", "inactive", "deleted"},
                                part : {0} \cup PId, rows : SUBSET Row]]
         /\ {ChunkFile(c) : c \in Ids(news)} \subseteq File
<1>1. /\ \A n \in news : n.id \in CId /\ n.part \in ps /\ n.rows \subseteq rows
      /\ \A n, m \in news : n # m => n.id # m.id
  <2>1. Spread(ps, rows, news)
    BY NewChunksFacts
  <2> QED BY <2>1 DEF Spread
<1>2. /\ \A n \in news : n.id \in CId =>
           chunk'[n.id] = [state |-> "created", part |-> n.part, rows |-> n.rows]
      /\ \A c \in CId \ Ids(news) : chunk'[c] = chunk[c]
      /\ DOMAIN chunk' = CId
  BY <1>1, WithChunksFacts
<1>3. ASSUME NEW c \in CId
      PROVE  chunk'[c] \in [state : {"free", "created", "active", "inactive", "deleted"},
                            part : {0} \cup PId, rows : SUBSET Row]
  <2>1. CASE c \in Ids(news)
    <3>1. PICK n \in news : c = n.id
      BY <2>1 DEF Ids
    <3>2. chunk'[c] = [state |-> "created", part |-> n.part, rows |-> n.rows]
      BY <1>2, <3>1
    <3> QED BY <1>1, <3>2
  <2>2. CASE c \notin Ids(news)
    BY <1>2, <2>2 DEF Shape
  <2> QED BY <2>1, <2>2
<1>4. chunk' = [c \in CId |-> chunk'[c]]
  BY DEF WithChunks
<1> QED BY <1>3, <1>4 DEF File

\* The rows of an insert are rows.
LEMMA RowsOfAreRows == \A i \in Insert : RowsOf(i) \in SUBSET Row
BY DEF RowsOf, Row, Key

\* The steps of an insert keep the shape.
LEMMA InsertShape ==
  ASSUME Shape, NEW i \in Insert, InsertStep(i) \/ InsertFails(i)
  PROVE  Shape'
<1> USE DEF InsertState
<1>1. CASE InsertRoute(i)
  <2>1. ActivePartitions \in SUBSET PId
    BY DEF ActivePartitions
  <2>2. ins' \in [Insert -> InsertState]
    BY <1>1, <2>1 DEF InsertRoute, Shape
  <2> QED BY <1>1, <2>2 DEF InsertRoute, Shape, data, sched
<1>2. CASE InsertUpload(i)
  <2>1. ins[i].parts \in SUBSET PId
    BY <1>2 DEF InsertUpload, Shape
  <2>2. CASE Routable(ins[i].parts, RowsOf(i))
    <3> DEFINE news == NewChunks(ins[i].parts, RowsOf(i))
    <3>1. /\ Ids(news) \subseteq CId
          /\ chunk' = WithChunks(news)
          /\ remote' = remote \cup {ChunkFile(c) : c \in Ids(news)}
          /\ ins' = [ins EXCEPT ![i] = [pc |-> "uploaded", chunks |-> Ids(news)]]
          /\ UNCHANGED <<gc, broken, partition, job, sel, events, failures>>
      BY <1>2, <2>2 DEF InsertUpload
    <3> HIDE DEF news
    <3>2. /\ chunk' \in [CId -> [state : {"free", "created", "active", "inactive", "deleted"},
                                part : {0} \cup PId, rows : SUBSET Row]]
          /\ {ChunkFile(c) : c \in Ids(news)} \subseteq File
      BY <2>1, <2>2, <3>1, RowsOfAreRows, NewChunksShape DEF news
    <3>3. ins' \in [Insert -> InsertState]
      BY <3>1 DEF Shape
    <3>4. remote' \subseteq File
      BY <3>1, <3>2 DEF Shape
    <3> QED BY <3>1, <3>2, <3>3, <3>4 DEF Shape
  <2>3. CASE ~Routable(ins[i].parts, RowsOf(i))
    BY <1>2, <2>3, EndedFacts DEF InsertUpload, InsertEnds, Shape
  <2> QED BY <2>2, <2>3
<1>3. CASE InsertActivate(i)
  <2>1. chunk' \in [CId -> [state : {"free", "created", "active", "inactive", "deleted"},
                            part : {0} \cup PId, rows : SUBSET Row]]
    BY <1>3, SetStateShape DEF InsertActivate, Shape
  <2>2. ins' \in [Insert -> InsertState] /\ gc' \subseteq Garbage
    BY <1>3, EndedFacts DEF InsertActivate, InsertEnds, Shape
  <2> QED BY <1>3, <2>1, <2>2 DEF InsertActivate, Shape
<1>4. CASE InsertFails(i)
  BY <1>4, EndedFacts, PartitionsAssumption DEF InsertFails, InsertEnds, Shape, data
<1> QED BY <1>1, <1>2, <1>3, <1>4 DEF InsertStep

\* A worker that ends is idle.
LEMMA JobEndsShape ==
  ASSUME Shape, NEW s \in Slot, JobEnds(s)
  PROVE  /\ job' \in [Slot -> {Idle} \cup Compaction \cup Repartition]
         /\ gc' \subseteq Garbage
BY EndedFacts DEF JobEnds, Shape

\* What a worker holds, by where it is.
LEMMA JobCases ==
  ASSUME Shape, NEW s \in Slot
  PROVE  /\ job[s].pc = "planning" =>
              job[s] \in [pc : {"planning"}, target : File, part : PId]
         /\ job[s].pc = "merging" =>
              job[s] \in [pc : {"merging"}, target : File, part : PId, chunks : SUBSET CId,
                          kids : SUBSET PId]
         /\ job[s].pc = "swapping" =>
              job[s] \in [pc : {"swapping"}, target : File, part : PId, chunks : SUBSET CId,
                          out : Split]
         /\ job[s].pc = "routing" =>
              job[s] \in [pc : {"routing"}, target : File, chunk : CId, parts : SUBSET PId]
         /\ job[s].pc = "moving" =>
              job[s] \in [pc : {"moving"}, target : File, chunk : CId, chunks : SUBSET CId]
<1>1. job[s] \in {Idle} \cup Compaction \cup Repartition
  BY DEF Shape
<1> QED BY <1>1 DEF Idle, Compaction, Repartition

\* Splits of a compaction are functions on partitions.
LEMMA SplitFacts ==
  ASSUME NEW out \in Split
  PROVE  DOMAIN out \in SUBSET PId /\ \A p \in DOMAIN out : out[p] \in SUBSET Row
BY DEF Split

\* A plan of a compaction: chunks to merge, and children with new numbers
Plans(s, cs, kids) ==
  /\ cs \in SUBSET LiveChunksOf(job[s].part) /\ cs # {}
  /\ kids \in SUBSET PId /\ kids # {}
  /\ \E n \in 1 .. MaxChildren : kids = LastPartition + 1 .. LastPartition + n
  /\ \A p \in kids : partition[p].state = "free"
  /\ partition' = [q \in PId |-> IF q \in kids THEN NewChild(job[s].part) ELSE partition[q]]
  /\ job' = [job EXCEPT ![s] = [pc |-> "merging", target |-> job[s].target,
                                part |-> job[s].part, chunks |-> cs, kids |-> kids]]
  /\ gc' = gc

\* A compaction is planned, unless nothing is left to do.
LEMMA CompactPlanCases ==
  ASSUME Shape, NEW s \in Slot, CompactPlan(s)
  PROVE  \/ JobEnds(s) /\ UNCHANGED partition
         \/ \E cs \in SUBSET CId, kids \in SUBSET PId : Plans(s, cs, kids)
<1>1. \/ JobEnds(s) /\ UNCHANGED partition
      \/ \E cs \in Smallest(LiveChunksOf(job[s].part)), n \in 1 .. MaxChildren :
           LET kids == LastPartition + 1 .. LastPartition + 1 + n - 1
           IN  /\ kids \subseteq PId
               /\ partition' = [q \in PId |-> IF q \in kids THEN NewChild(job[s].part)
                                              ELSE partition[q]]
               /\ job' = [job EXCEPT ![s] =
                            [pc |-> "merging", target |-> @.target, part |-> job[s].part,
                             chunks |-> cs, kids |-> kids]]
               /\ UNCHANGED <<gc, broken>>
  BY DEF CompactPlan
<1>2. ASSUME NEW cs \in Smallest(LiveChunksOf(job[s].part)), NEW n \in 1 .. MaxChildren,
             NEW kids, kids = LastPartition + 1 .. LastPartition + 1 + n - 1,
             kids \subseteq PId,
             partition' = [q \in PId |-> IF q \in kids THEN NewChild(job[s].part)
                                         ELSE partition[q]],
             job' = [job EXCEPT ![s] =
                       [pc |-> "merging", target |-> @.target, part |-> job[s].part,
                        chunks |-> cs, kids |-> kids]],
             UNCHANGED <<gc, broken>>
      PROVE  cs \in SUBSET CId /\ Plans(s, cs, kids)
  <2>1. cs \in SUBSET LiveChunksOf(job[s].part) /\ cs # {}
    BY DEF Smallest
  <2>2. LiveChunksOf(job[s].part) \subseteq CId
    BY DEF LiveChunksOf, ChunksOf
  <2>3. kids = LastPartition + 1 .. LastPartition + n
    BY <1>2, LastPartitionIsLast, PartitionsAssumption
  <2>4. kids # {} /\ \A p \in kids : p > LastPartition
    BY <2>3, LastPartitionIsLast, PartitionsAssumption
  <2>5. \A p \in kids : partition[p].state = "free"
    BY <1>2, <2>4, LastPartitionIsLast
  <2> QED BY <1>2, <2>1, <2>2, <2>3, <2>4, <2>5 DEF Plans
<1> QED BY <1>1, <1>2

\* The plan of a compaction keeps the shape.
LEMMA CompactPlanShape ==
  ASSUME Shape, NEW s \in Slot, CompactPlan(s)
  PROVE  Shape'
<1>1. job[s] \in [pc : {"planning"}, target : File, part : PId]
  BY JobCases DEF CompactPlan
<1>2. CASE JobEnds(s) /\ UNCHANGED partition
  BY <1>2, JobEndsShape DEF CompactPlan, Shape
<1>3. ASSUME NEW cs \in SUBSET CId, NEW kids \in SUBSET PId, Plans(s, cs, kids)
      PROVE  Shape'
  <2>1. job' \in [Slot -> {Idle} \cup Compaction \cup Repartition]
    BY <1>1, <1>3 DEF Plans, Shape, Compaction
  <2>2. PartitionRecord(NewChild(job[s].part))
    BY <1>1 DEF PartitionRecord, NewChild, NoPartition
  <2>3. \A p \in PId : PartitionRecord(partition'[p])
    <3> HIDE DEF PartitionRecord
    <3> QED BY <2>2, <1>3 DEF Shape, Plans
  <2>4. DOMAIN partition' = PId /\ partition' = [p \in PId |-> partition'[p]]
    BY <1>3 DEF Plans
  <2> QED BY <1>3, <2>1, <2>3, <2>4 DEF CompactPlan, Plans, Shape, PartitionRecord
<1> QED BY <1>2, <1>3, CompactPlanCases

\* The rows of a merge are rows.
LEMMA MergedAreRows ==
  ASSUME Shape, NEW s \in Slot, job[s].pc \in {"merging", "swapping"}
  PROVE  MergedRows(job[s]) \in SUBSET Row
<1>1. job[s].part \in PId /\ job[s].chunks \in SUBSET CId
  BY JobCases
<1>2. partition[job[s].part].rows \in SUBSET Row
  BY <1>1 DEF Shape, PartitionRecord
<1>3. \A c \in job[s].chunks : chunk[c].rows \in SUBSET Row
  BY <1>1 DEF Shape
<1> QED BY <1>2, <1>3 DEF MergedRows, Merge

\* The children that get rows when the rows are cut before these keys, and what
\* the split then is
UsedKids(j, cuts) == {q \in j.kids : q < Min(j.kids) + Cardinality(cuts) + 1}
SplitAt(j, cuts) ==
  [q \in UsedKids(j, cuts) |-> Slice(MergedRows(j), cuts, q - Min(j.kids) + 1)]
KeysToMerge(j) == {r[1] : r \in MergedRows(j)}

\* A compaction that has written its files
Writes(s, cuts) ==
  /\ cuts \in SUBSET (KeysToMerge(job[s]) \ {Min(KeysToMerge(job[s]))})
  /\ Cardinality(cuts) + 1 <= Cardinality(job[s].kids)
  /\ remote' = remote \cup {MainFile(q) : q \in UsedKids(job[s], cuts)}
  /\ CanDropChildren(job[s].kids \ UsedKids(job[s], cuts))
  /\ partition' = [q \in PId |-> IF q \in job[s].kids \ UsedKids(job[s], cuts)
                                 THEN [partition[q] EXCEPT !.state = "deleted"]
                                 ELSE partition[q]]
  /\ job' = [job EXCEPT ![s] = [pc |-> "swapping", target |-> job[s].target,
                                part |-> job[s].part, chunks |-> job[s].chunks,
                                out |-> SplitAt(job[s], cuts)]]
  /\ gc' = gc

\* A compaction writes its files, or ends before or after it has written them.
LEMMA CompactWriteCases ==
  ASSUME Shape, NEW s \in Slot, CompactWrite(s)
  PROVE  \/ /\ JobEnds(s) /\ UNCHANGED partition
            /\ \E used \in SUBSET job[s].kids : remote' = remote \cup {MainFile(q) : q \in used}
         \/ \E cuts : Writes(s, cuts)
<1>1. CASE MissesMainFile(job[s])
  <2>1. JobEnds(s) /\ UNCHANGED <<partition, remote>>
    BY <1>1 DEF CompactWrite
  <2>2. {} \in SUBSET job[s].kids /\ remote' = remote \cup {MainFile(q) : q \in {}}
    BY <2>1
  <2> QED BY <2>1, <2>2
<1>2. CASE ~MissesMainFile(job[s])
  <2>1. \E cuts \in SUBSET (KeysToMerge(job[s]) \ {Min(KeysToMerge(job[s]))}) :
          LET m == Cardinality(cuts) + 1
              used == {q \in job[s].kids : q < Min(job[s].kids) + m}
          IN  /\ m <= Cardinality(job[s].kids)
              /\ remote' = remote \cup {MainFile(q) : q \in used}
              /\ IF CanDropChildren(job[s].kids \ used)
                 THEN /\ partition' = [q \in PId |->
                           IF q \in job[s].kids \ used
                           THEN [partition[q] EXCEPT !.state = "deleted"]
                           ELSE partition[q]]
                      /\ job' = [job EXCEPT ![s] =
                           [pc |-> "swapping", target |-> job[s].target, part |-> job[s].part,
                            chunks |-> job[s].chunks,
                            out |-> [q \in used |->
                               Slice(MergedRows(job[s]), cuts, q - Min(job[s].kids) + 1)]]]
                      /\ UNCHANGED gc
                 ELSE JobEnds(s) /\ UNCHANGED partition
              /\ UNCHANGED broken
    BY <1>2 DEF CompactWrite, KeysToMerge
  <2>2. PICK cuts \in SUBSET (KeysToMerge(job[s]) \ {Min(KeysToMerge(job[s]))}) :
          LET m == Cardinality(cuts) + 1
              used == {q \in job[s].kids : q < Min(job[s].kids) + m}
          IN  /\ m <= Cardinality(job[s].kids)
              /\ remote' = remote \cup {MainFile(q) : q \in used}
              /\ IF CanDropChildren(job[s].kids \ used)
                 THEN /\ partition' = [q \in PId |->
                           IF q \in job[s].kids \ used
                           THEN [partition[q] EXCEPT !.state = "deleted"]
                           ELSE partition[q]]
                      /\ job' = [job EXCEPT ![s] =
                           [pc |-> "swapping", target |-> job[s].target, part |-> job[s].part,
                            chunks |-> job[s].chunks,
                            out |-> [q \in used |->
                               Slice(MergedRows(job[s]), cuts, q - Min(job[s].kids) + 1)]]]
                      /\ UNCHANGED gc
                 ELSE JobEnds(s) /\ UNCHANGED partition
    BY <2>1
  <2> DEFINE used == {q \in job[s].kids : q < Min(job[s].kids) + (Cardinality(cuts) + 1)}
  <2>3. used = UsedKids(job[s], cuts)
    <3>1. job[s].kids \in SUBSET PId
      BY JobCases DEF CompactWrite
    <3>2. cuts \in SUBSET Key
      <4>1. KeysToMerge(job[s]) \subseteq Key
        BY MergedAreRows DEF KeysToMerge, CompactWrite, Row
      <4> QED BY <4>1
    <3>3. IsFiniteSet(cuts)
      BY <3>2, KeyFinite
    <3>4. Cardinality(cuts) \in Nat
      BY <3>3, FS_CardinalityType
    <3>5. ASSUME NEW q \in job[s].kids PROVE Min(job[s].kids) \in Nat
      BY <3>1, PIdFinite, FiniteHasMin
    <3> QED BY <3>4, <3>5 DEF UsedKids
  <2>4. CASE CanDropChildren(job[s].kids \ used)
    BY <2>2, <2>3, <2>4 DEF Writes, SplitAt
  <2>5. CASE ~CanDropChildren(job[s].kids \ used)
    <3>1. used \in SUBSET job[s].kids
      OBVIOUS
    <3> QED BY <2>2, <2>5, <3>1
  <2> QED BY <2>4, <2>5
<1> QED BY <1>1, <1>2

\* The split of a merge is a split.
LEMMA SplitIsSplit ==
  ASSUME Shape, NEW s \in Slot, job[s].pc = "merging", NEW cuts
  PROVE  SplitAt(job[s], cuts) \in Split /\ DOMAIN SplitAt(job[s], cuts) \in SUBSET job[s].kids
<1>1. job[s].kids \in SUBSET PId /\ MergedRows(job[s]) \in SUBSET Row
  BY JobCases, MergedAreRows
<1>2. UsedKids(job[s], cuts) \in SUBSET PId
  BY <1>1 DEF UsedKids
<1>3. SplitAt(job[s], cuts) \in [UsedKids(job[s], cuts) -> SUBSET Row]
  BY <1>1 DEF SplitAt, Slice
<1>4. UsedKids(job[s], cuts) \in SUBSET job[s].kids
  BY DEF UsedKids
<1> QED BY <1>2, <1>3, <1>4 DEF Split

\* Main files are files.
LEMMA MainFilesAreFiles == \A ps \in SUBSET PId : {MainFile(p) : p \in ps} \subseteq File
BY DEF File

\* The writing of a compaction keeps the shape.
LEMMA CompactWriteShape ==
  ASSUME Shape, NEW s \in Slot, CompactWrite(s)
  PROVE  Shape'
<1>1. job[s] \in [pc : {"merging"}, target : File, part : PId, chunks : SUBSET CId,
                  kids : SUBSET PId]
  BY JobCases DEF CompactWrite
<1>2. UNCHANGED <<chunk, ins, sel, events, failures>> /\ broken' \in BOOLEAN
  BY DEF CompactWrite, Shape
<1>3. ASSUME JobEnds(s), UNCHANGED partition, NEW used \in SUBSET job[s].kids,
             remote' = remote \cup {MainFile(q) : q \in used}
      PROVE  Shape'
  <2>1. remote' \subseteq File
    BY <1>1, <1>3, MainFilesAreFiles DEF Shape
  <2> QED BY <1>2, <1>3, <2>1, JobEndsShape DEF Shape
<1>4. ASSUME NEW cuts, Writes(s, cuts)
      PROVE  Shape'
  <2>1. job' \in [Slot -> {Idle} \cup Compaction \cup Repartition]
    BY <1>1, <1>4, SplitIsSplit DEF Writes, Shape, Compaction
  <2>2. UsedKids(job[s], cuts) \in SUBSET PId
    BY <1>1 DEF UsedKids
  <2>3. remote' \subseteq File
    BY <1>4, <2>2, MainFilesAreFiles DEF Writes, Shape
  <2>4. ASSUME NEW p \in PId PROVE PartitionRecord(partition'[p])
    BY <1>4 DEF Writes, Shape, PartitionRecord
  <2>5. DOMAIN partition' = PId /\ partition' = [p \in PId |-> partition'[p]]
    BY <1>4 DEF Writes
  <2>6. gc' \subseteq Garbage
    BY <1>4 DEF Writes, Shape
  <2> QED BY <1>2, <2>1, <2>3, <2>4, <2>5, <2>6 DEF Shape, PartitionRecord
<1> QED BY <1>3, <1>4, CompactWriteCases

\* The swap of a compaction keeps the shape.
LEMMA CompactSwapShape ==
  ASSUME Shape, NEW s \in Slot, CompactSwap(s)
  PROVE  Shape'
<1>1. job[s] \in [pc : {"swapping"}, target : File, part : PId, chunks : SUBSET CId, out : Split]
  BY JobCases DEF CompactSwap
<1>2. DOMAIN job[s].out \in SUBSET PId /\ \A p \in DOMAIN job[s].out : job[s].out[p] \in SUBSET Row
  BY <1>1, SplitFacts
<1>3. CASE CanSwapPartitions(job[s])
  <2>1. /\ partition' = SwappedPartitions(job[s])
        /\ chunk' = SwappedChunks(job[s])
        /\ events' = events \cup {<<"deactivated", job[s].part>>}
    BY <1>3 DEF CompactSwap
  <2>2. ASSUME NEW p \in PId PROVE PartitionRecord(partition'[p])
    <3>1. PartitionRecord(partition[p])
      BY DEF Shape
    <3>2. CASE p = job[s].part
      BY <2>1, <3>1, <3>2 DEF SwappedPartitions, PartitionRecord
    <3>3. CASE p # job[s].part /\ p \in DOMAIN job[s].out
      BY <1>2, <2>1, <3>1, <3>3 DEF SwappedPartitions, PartitionRecord
    <3>4. CASE p # job[s].part /\ p \notin DOMAIN job[s].out
      BY <2>1, <3>1, <3>4 DEF SwappedPartitions, PartitionRecord
    <3> QED BY <3>2, <3>3, <3>4
  <2>3. TakesOver(job[s]) => Min(DOMAIN job[s].out) \in PId
    <3>1. IsFiniteSet(DOMAIN job[s].out) /\ DOMAIN job[s].out \in SUBSET Nat
      BY <1>2, PIdFinite
    <3>2. TakesOver(job[s]) => DOMAIN job[s].out # {}
      BY FS_EmptySet DEF TakesOver
    <3> QED BY <1>2, <3>1, <3>2, FiniteHasMin
  <2>4. chunk' \in [CId -> [state : {"free", "created", "active", "inactive", "deleted"},
                            part : {0} \cup PId, rows : SUBSET Row]]
    BY <1>1, <2>1, <2>3 DEF SwappedChunks, Shape
  <2>5. DOMAIN partition' = PId /\ partition' = [p \in PId |-> partition'[p]]
    BY <2>1 DEF SwappedPartitions
  <2>6. events' \subseteq ({"deactivated"} \X PId) \cup ({"deleted"} \X CId)
    BY <1>1, <2>1 DEF Shape
  <2>7. JobEnds(s) /\ UNCHANGED <<remote, ins, sel, broken, failures>>
    BY DEF CompactSwap
  <2> QED BY <2>2, <2>4, <2>5, <2>6, <2>7, JobEndsShape DEF Shape, PartitionRecord
<1>4. CASE ~CanSwapPartitions(job[s])
  BY <1>4, JobEndsShape DEF CompactSwap, Shape
<1> QED BY <1>3, <1>4

\* A repartition keeps the shape.
LEMMA RepartitionShape ==
  ASSUME Shape, NEW s \in Slot, RepartitionStep(s)
  PROVE  Shape'
<1>1. CASE RepartitionUpload(s)
  <2>1. job[s] \in [pc : {"routing"}, target : File, chunk : CId, parts : SUBSET PId]
    BY <1>1, JobCases DEF RepartitionUpload
  <2>2. chunk[job[s].chunk].rows \in SUBSET Row
    BY <2>1 DEF Shape
  <2>3. CASE Routable(job[s].parts, chunk[job[s].chunk].rows)
    <3> DEFINE news == NewChunks(job[s].parts, chunk[job[s].chunk].rows)
    <3>1. /\ Ids(news) \subseteq CId
          /\ chunk' = WithChunks(news)
          /\ remote' = remote \cup {ChunkFile(c) : c \in Ids(news)}
          /\ job' = [job EXCEPT ![s] = [pc |-> "moving", target |-> job[s].target,
                                        chunk |-> job[s].chunk, chunks |-> Ids(news)]]
          /\ UNCHANGED <<gc, broken, partition, ins, sel, events, failures>>
      BY <1>1, <2>3 DEF RepartitionUpload
    <3> HIDE DEF news
    <3>2. /\ chunk' \in [CId -> [state : {"free", "created", "active", "inactive", "deleted"},
                                part : {0} \cup PId, rows : SUBSET Row]]
          /\ {ChunkFile(c) : c \in Ids(news)} \subseteq File
      BY <2>1, <2>2, <2>3, <3>1, NewChunksShape DEF news
    <3>3. job' \in [Slot -> {Idle} \cup Compaction \cup Repartition]
      BY <2>1, <3>1 DEF Shape, Repartition
    <3>4. remote' \subseteq File
      BY <3>1, <3>2 DEF Shape
    <3> QED BY <3>1, <3>2, <3>3, <3>4 DEF Shape
  <2>4. CASE ~Routable(job[s].parts, chunk[job[s].chunk].rows)
    BY <1>1, <2>4, JobEndsShape DEF RepartitionUpload, Shape
  <2> QED BY <2>3, <2>4
<1>2. CASE RepartitionSwap(s)
  <2>1. chunk' \in [CId -> [state : {"free", "created", "active", "inactive", "deleted"},
                            part : {0} \cup PId, rows : SUBSET Row]]
    BY <1>2 DEF RepartitionSwap, Shape
  <2> QED BY <1>2, <2>1, JobEndsShape DEF RepartitionSwap, Shape
<1> QED BY <1>1, <1>2 DEF RepartitionStep

\* Jobs are taken, and fail.
LEMMA WorkerShape ==
  ASSUME Shape, NEW s \in Slot,
         \/ \E p \in PId : CompactRead(s, p)
         \/ \E c \in CId : RepartitionRead(s, c)
         \/ JobFails(s)
  PROVE  Shape'
<1>1. ASSUME NEW p \in PId, CompactRead(s, p)
      PROVE  Shape'
  <2>1. job' \in [Slot -> {Idle} \cup Compaction \cup Repartition]
    BY <1>1 DEF CompactRead, Shape, Compaction, File
  <2> QED BY <1>1, <2>1 DEF CompactRead, Shape, data, sched
<1>2. ASSUME NEW c \in CId, RepartitionRead(s, c)
      PROVE  Shape'
  <2>1. job' \in [Slot -> {Idle} \cup Compaction \cup Repartition]
    BY <1>2 DEF RepartitionRead, Shape, Repartition, File, ActivePartitions
  <2>2. broken' \in BOOLEAN
    BY <1>2 DEF RepartitionRead, Shape
  <2> QED BY <1>2, <2>1, <2>2 DEF RepartitionRead, Shape, data, sched
<1>3. CASE JobFails(s)
  <2>1. failures' \in 0 .. MaxFailures
    BY <1>3, PartitionsAssumption DEF JobFails, Shape
  <2> QED BY <1>3, <2>1, JobEndsShape DEF JobFails, Shape, data
<1> QED BY <1>1, <1>2, <1>3

\* Selects keep the shape.
LEMMA SelectShape ==
  ASSUME Shape, NEW r \in Reader, SelectPlan(r) \/ SelectEnd(r)
  PROVE  Shape'
<1>1. VisibleFiles \in SUBSET File
  BY DEF VisibleFiles, File
<1>2. CASE SelectPlan(r)
  BY <1>1, <1>2 DEF SelectPlan, Shape, data, sched
<1>3. CASE SelectEnd(r)
  <2>1. broken' \in BOOLEAN
    BY <1>3 DEF SelectEnd, Shape
  <2> QED BY <1>3, <2>1, EndedFacts DEF SelectEnd, Shape, data
<1> QED BY <1>2, <1>3

\* What a reconcile loop may add to the queue
Reconciled(kind, ids, wait) ==
  /\ gc' = Schedule(kind, ids, wait)
  /\ wait \in {AfterQueries, AfterJobs}
  /\ \/ kind = "chunk" /\ wait = AfterQueries /\ ids = {c \in CId : chunk[c].state = "inactive"}
     \/ kind = "chunk" /\ wait = AfterJobs /\ ids = {c \in CId : chunk[c].state = "created"}
     \/ kind \in {"partition", "middleman"} /\ ids \in SUBSET PId

Reconciles ==
  \/ RemoveInactiveChunks \/ RemoveInactiveNotUploadedChunks
  \/ DeleteCreatedButNotWrittenPartitions \/ DeleteMiddleManPartitions

\* A reconcile loop only adds to the queue.
LEMMA ReconcileCases ==
  ASSUME Reconciles
  PROVE  /\ \E kind, ids, wait : Reconciled(kind, ids, wait)
         /\ UNCHANGED <<data, tasks, events, broken, failures>>
<1>1. CASE RemoveInactiveChunks
  BY <1>1 DEF RemoveInactiveChunks, Reconcile, Reconciled
<1>2. CASE RemoveInactiveNotUploadedChunks
  BY <1>2 DEF RemoveInactiveNotUploadedChunks, Reconcile, Reconciled
<1>3. CASE DeleteCreatedButNotWrittenPartitions
  BY <1>3 DEF DeleteCreatedButNotWrittenPartitions, Reconcile, Reconciled
<1>4. CASE DeleteMiddleManPartitions
  BY <1>4 DEF DeleteMiddleManPartitions, Reconcile, Reconciled
<1> QED BY <1>1, <1>2, <1>3, <1>4 DEF Reconciles

\* The scheduler plans its collections in the shape of the queue.
LEMMA PlanningShape ==
  ASSUME Shape, (\E e \in events : HandleEvent(e)) \/ Reconciles \/ SchedulerRestart
  PROVE  Shape'
<1>1. ASSUME NEW e \in events, HandleEvent(e)
      PROVE  Shape'
  <2>1. e \in ({"deactivated"} \X PId) \cup ({"deleted"} \X CId)
    BY DEF Shape
  <2>2. gc' \subseteq Garbage
    <3>1. CASE e[1] = "deactivated" /\ partition[e[2]].state = "inactive"
                 /\ partition[e[2]].rows # {}
      <4>1. {MainFile(e[2])} \subseteq File
        BY <2>1, <3>1 DEF File
      <4>2. gc' = Schedule("file", {MainFile(e[2])}, AfterQueries)
        BY <1>1, <3>1 DEF HandleEvent
      <4>3. gc \subseteq Garbage
        BY DEF Shape
      <4> QED BY <4>1, <4>2, <4>3, ScheduleFileFacts, WaitsAreTasks
    <3>2. CASE e[1] = "deleted"
      <4>1. {ChunkFile(e[2])} \subseteq File
        BY <2>1, <3>2 DEF File
      <4>2. gc' = Schedule("file", {ChunkFile(e[2])}, AfterJobs)
        BY <1>1, <3>2 DEF HandleEvent
      <4>3. gc \subseteq Garbage
        BY DEF Shape
      <4> QED BY <4>1, <4>2, <4>3, ScheduleFileFacts, WaitsAreTasks
    <3> QED BY <1>1, <3>1, <3>2 DEF HandleEvent, Shape
  <2> QED BY <1>1, <2>2 DEF HandleEvent, Shape, data, tasks
<1>2. CASE Reconciles
  <2>1. PICK kind, ids, wait : Reconciled(kind, ids, wait)
    BY <1>2, ReconcileCases
  <2>2. gc' \subseteq Garbage
    BY <2>1, ScheduleFacts, WaitsAreTasks DEF Reconciled, Shape
  <2> QED BY <1>2, <2>2, ReconcileCases DEF Shape, data, tasks
<1>3. CASE SchedulerRestart
  BY <1>3, PartitionsAssumption DEF SchedulerRestart, Shape, data, tasks
<1> QED BY <1>1, <1>2, <1>3

\* Collections keep the shape.
LEMMA CollectionShape ==
  ASSUME Shape, NEW t \in gc, GcStep(t)
  PROVE  Shape'
<1>1. t \in Garbage
  BY DEF Shape
<1>2. CASE CheckChunk(t)
  <2>1. t \in [kind : {"chunk"}, id : CId, wait : SUBSET Tasks, checked : BOOLEAN]
    BY <1>1, <1>2 DEF CheckChunk, Garbage
  <2>2. [t EXCEPT !.checked = TRUE] \in Garbage
    BY <2>1 DEF Garbage
  <2> QED BY <1>2, <2>2 DEF CheckChunk, Shape, data, tasks
<1>3. CASE DeleteChunk(t)
  <2>1. t.id \in CId
    BY <1>1, <1>3 DEF DeleteChunk, Garbage
  <2>2. chunk' \in [CId -> [state : {"free", "created", "active", "inactive", "deleted"},
                            part : {0} \cup PId, rows : SUBSET Row]]
    BY <1>3, SetStateShape DEF DeleteChunk, Shape
  <2>3. events' \subseteq ({"deactivated"} \X PId) \cup ({"deleted"} \X CId)
    BY <1>3, <2>1 DEF DeleteChunk, Shape
  <2> QED BY <1>3, <2>2, <2>3 DEF DeleteChunk, Shape, tasks
<1>4. CASE RemoveRemoteFile(t)
  BY <1>4 DEF RemoveRemoteFile, Shape, tasks
<1>5. CASE DeletePartition(t)
  <2>1. DOMAIN partition' = PId /\ partition' = [p \in PId |-> partition'[p]]
    BY <1>5 DEF DeletePartition, Shape
  <2>2. ASSUME NEW p \in PId PROVE PartitionRecord(partition'[p])
    <3>1. PartitionRecord(partition[p])
      BY DEF Shape
    <3>2. \/ partition'[p] = partition[p]
          \/ partition'[p] = [partition[p] EXCEPT !.state = "deleted"]
      BY <1>5 DEF DeletePartition, Shape
    <3> QED BY <3>1, <3>2 DEF PartitionRecord
  <2> QED BY <1>5, <2>1, <2>2 DEF DeletePartition, Shape, PartitionRecord, tasks
<1>6. CASE DeleteMiddleManPartition(t)
  <2>1. t.id \in PId
    BY <1>1, <1>6 DEF DeleteMiddleManPartition, Garbage
  <2>2. DOMAIN partition' = PId /\ partition' = [p \in PId |-> partition'[p]]
    BY <1>6 DEF DeleteMiddleManPartition, Shape
  <2>3. ASSUME NEW p \in PId PROVE PartitionRecord(partition'[p])
    <3>1. PartitionRecord(partition[p]) /\ partition[t.id].parent \in {0} \cup PId
      BY <2>1 DEF Shape, PartitionRecord
    <3> QED BY <1>6, <3>1 DEF DeleteMiddleManPartition, PartitionRecord
  <2>4. events' \subseteq ({"deactivated"} \X PId) \cup ({"deleted"} \X CId)
    BY <1>6 DEF DeleteMiddleManPartition, Shape, ChildrenOf
  <2>5. gc' \subseteq Garbage /\ UNCHANGED <<chunk, remote, tasks, broken, failures>>
    BY <1>6 DEF DeleteMiddleManPartition, Shape
  <2> QED BY <2>2, <2>3, <2>4, <2>5 DEF Shape, PartitionRecord, tasks
<1> QED BY <1>2, <1>3, <1>4, <1>5, <1>6 DEF GcStep

\* The steps, by who takes them.
LEMMA NextCases ==
  ASSUME Next
  PROVE  \/ \E i \in Insert : InsertStep(i) \/ InsertFails(i)
         \/ \E s \in Slot : \/ \E p \in PId : CompactRead(s, p)
                            \/ \E c \in CId : RepartitionRead(s, c)
                            \/ JobFails(s)
         \/ \E s \in Slot : CompactPlan(s)
         \/ \E s \in Slot : CompactWrite(s)
         \/ \E s \in Slot : CompactSwap(s)
         \/ \E s \in Slot : RepartitionStep(s)
         \/ \E r \in Reader : SelectPlan(r) \/ SelectEnd(r)
         \/ (\E e \in events : HandleEvent(e)) \/ Reconciles \/ SchedulerRestart
         \/ \E t \in gc : GcStep(t)
BY DEF Next, Reconciles, CompactStep

\* Every step keeps the shape.
LEMMA ShapeStep == Shape /\ [Next]_vars => Shape'
<1> SUFFICES ASSUME Shape, [Next]_vars PROVE Shape'
  OBVIOUS
<1>1. CASE Next
  <2>1. \A i \in Insert : InsertStep(i) \/ InsertFails(i) => Shape'
    BY InsertShape
  <2>2. \A s \in Slot : (\/ \E p \in PId : CompactRead(s, p)
                         \/ \E c \in CId : RepartitionRead(s, c)
                         \/ JobFails(s)) => Shape'
    BY WorkerShape
  <2>3. \A s \in Slot : CompactPlan(s) \/ CompactWrite(s) \/ CompactSwap(s) => Shape'
    BY CompactPlanShape, CompactWriteShape, CompactSwapShape
  <2>4. \A s \in Slot : RepartitionStep(s) => Shape'
    BY RepartitionShape
  <2>5. \A r \in Reader : SelectPlan(r) \/ SelectEnd(r) => Shape'
    BY SelectShape
  <2>6. (\E e \in events : HandleEvent(e)) \/ Reconciles \/ SchedulerRestart => Shape'
    BY PlanningShape
  <2>7. \A t \in gc : GcStep(t) => Shape'
    BY CollectionShape
  <2> HIDE DEF Shape
  <2> QED BY <1>1, <2>1, <2>2, <2>3, <2>4, <2>5, <2>6, <2>7, NextCases
<1>2. CASE UNCHANGED vars
  BY <1>2 DEF vars, Shape
<1> QED BY <1>1, <1>2

\* The state has its shape.
LEMMA ShapeHolds == Spec => []Shape
BY InitShape, ShapeStep, PTL DEF Spec

-----------------------------------------------------------------------------
(* What a step does to a partition, a chunk, a file, a select and a task    *)

\* The state and the rows of a partition
PartitionStays(p) ==
  partition'[p].state = partition[p].state /\ partition'[p].rows = partition[p].rows

\* A compaction makes its child active
Activates(s, p) ==
  /\ job[s].pc = "swapping" /\ p \in DOMAIN job[s].out
  /\ partition[p].state = "inactive"
  /\ partition'[p].state = "active" /\ partition'[p].rows = job[s].out[p]
  /\ job' = [job EXCEPT ![s] = Idle]

PartitionChange(p) ==
  \/ PartitionStays(p)
  \/ /\ partition[p].state = "free"
     /\ partition'[p].state = "inactive" /\ partition'[p].rows = {}
  \/ /\ partition[p].state = "inactive" /\ partition'[p].state = "deleted"
     /\ partition'[p].rows = partition[p].rows
  \/ /\ partition[p].state = "active" /\ partition'[p].state = "inactive"
     /\ partition'[p].rows = partition[p].rows
  \/ \E s \in Slot : Activates(s, p)

\* A partition is created, activated by its compaction, swapped out, and deleted.
LEMMA PartitionSteps ==
  ASSUME Shape, Next, NEW p \in PId
  PROVE  PartitionChange(p)
<1> USE DEF PartitionStays
<1>0. PartitionRecord(partition[p])
  BY DEF Shape
<1>1. ASSUME UNCHANGED partition PROVE PartitionChange(p)
  BY <1>1 DEF PartitionChange
<1>2. ASSUME NEW s \in Slot, CompactPlan(s) PROVE PartitionChange(p)
  <2>1. ASSUME NEW cs \in SUBSET CId, NEW kids \in SUBSET PId, Plans(s, cs, kids)
        PROVE  PartitionChange(p)
    BY <2>1 DEF Plans, NewChild, NoPartition, PartitionChange
  <2> QED BY <1>1, <1>2, <2>1, CompactPlanCases
<1>3. ASSUME NEW s \in Slot, CompactWrite(s) PROVE PartitionChange(p)
  <2>1. ASSUME NEW cuts, Writes(s, cuts)
        PROVE  PartitionChange(p)
    BY <1>0, <2>1 DEF Writes, CanDropChildren, PartitionChange, PartitionRecord
  <2> QED BY <1>1, <1>3, <2>1, CompactWriteCases
<1>4. ASSUME NEW s \in Slot, CompactSwap(s) PROVE PartitionChange(p)
  <2>1. CASE CanSwapPartitions(job[s])
    <3>1. partition' = SwappedPartitions(job[s]) /\ job' = [job EXCEPT ![s] = Idle]
      BY <1>4, <2>1 DEF CompactSwap, JobEnds
    <3>2. CASE p = job[s].part
      BY <1>0, <2>1, <3>1, <3>2
         DEF SwappedPartitions, CanSwapPartitions, Active, PartitionChange, PartitionRecord
    <3>3. CASE p # job[s].part /\ p \in DOMAIN job[s].out
      <4>1. partition'[p].state = "active" /\ partition'[p].rows = job[s].out[p]
        BY <1>0, <3>1, <3>3 DEF SwappedPartitions, PartitionRecord
      <4>2. Activates(s, p)
        BY <1>4, <2>1, <3>1, <3>3, <4>1 DEF Activates, CompactSwap, CanSwapPartitions
      <4> QED BY <4>2 DEF PartitionChange
    <3>4. CASE p # job[s].part /\ p \notin DOMAIN job[s].out
      BY <3>1, <3>4 DEF SwappedPartitions, PartitionChange
    <3> QED BY <3>2, <3>3, <3>4
  <2>2. CASE ~CanSwapPartitions(job[s])
    BY <1>1, <1>4, <2>2 DEF CompactSwap
  <2> QED BY <2>1, <2>2
<1>5. ASSUME NEW t \in gc, DeletePartition(t) PROVE PartitionChange(p)
  BY <1>0, <1>5 DEF DeletePartition, CanDropChildren, PartitionChange, PartitionRecord, Shape
<1>6. ASSUME NEW t \in gc, DeleteMiddleManPartition(t) PROVE PartitionChange(p)
  BY <1>0, <1>6 DEF DeleteMiddleManPartition, MiddleMan, PartitionChange, PartitionRecord
<1>7. ASSUME NEW i \in Insert, InsertStep(i) \/ InsertFails(i) PROVE PartitionChange(p)
  BY <1>1, <1>7 DEF InsertStep, InsertFails, InsertRoute, InsertUpload, InsertActivate, data
<1>8. ASSUME NEW s \in Slot, \/ \E q \in PId : CompactRead(s, q)
                             \/ \E c \in CId : RepartitionRead(s, c)
                             \/ JobFails(s)
      PROVE  PartitionChange(p)
  BY <1>1, <1>8 DEF CompactRead, RepartitionRead, JobFails, data
<1>9. ASSUME NEW s \in Slot, RepartitionStep(s) PROVE PartitionChange(p)
  BY <1>1, <1>9 DEF RepartitionStep, RepartitionUpload, RepartitionSwap
<1>10. ASSUME NEW r \in Reader, SelectPlan(r) \/ SelectEnd(r) PROVE PartitionChange(p)
  BY <1>1, <1>10 DEF SelectPlan, SelectEnd, data
<1>11. ASSUME (\E e \in events : HandleEvent(e)) \/ Reconciles \/ SchedulerRestart
       PROVE  PartitionChange(p)
  BY <1>1, <1>11, ReconcileCases DEF HandleEvent, SchedulerRestart, data
<1>12. ASSUME NEW t \in gc, CheckChunk(t) \/ DeleteChunk(t) \/ RemoveRemoteFile(t)
       PROVE  PartitionChange(p)
  BY <1>1, <1>12 DEF CheckChunk, DeleteChunk, RemoveRemoteFile, data
<1> QED
  BY <1>2, <1>3, <1>4, <1>5, <1>6, <1>7, <1>8, <1>9, <1>10, <1>11, <1>12, NextCases DEF GcStep

\* The state and the rows of a chunk
ChunkStays(c) == chunk'[c].state = chunk[c].state /\ chunk'[c].rows = chunk[c].rows

\* An insert or a repartition makes a chunk of its own active
ActivatedBy(x, c) ==
  /\ c \in Held(x) /\ Held(x)' = {}
  /\ Stored(c) /\ chunk'[c].state = "active" /\ chunk'[c].rows = chunk[c].rows

\* The garbage collection deletes a chunk
DeletedBy(t, c) ==
  /\ t.kind = "chunk" /\ t.id = c /\ t.checked /\ Due(t)
  /\ Stored(c) /\ chunk'[c].state = "deleted" /\ chunk'[c].rows = chunk[c].rows

ChunkChange(c) ==
  \/ ChunkStays(c)
  \/ /\ chunk[c].state = "free" /\ chunk'[c].state = "created"
     /\ ChunkFile(c) \in remote'
  \/ \E x \in Holder : ActivatedBy(x, c)
  \/ /\ chunk[c].state = "active" /\ chunk'[c].state = "inactive"
     /\ chunk'[c].rows = chunk[c].rows
  \/ \E t \in gc : DeletedBy(t, c)

\* Workers are no inserts.
LEMMA SlotsAreNoInserts == \A s \in Slot : s \notin Insert
BY PartitionsAssumption

\* An insert or a worker that ends holds no chunk.
LEMMA EndsHoldNothing ==
  ASSUME Shape
  PROVE  /\ \A i \in Insert, pc \in {"done", "failed"} : InsertEnds(i, pc) => Held(i)' = {}
         /\ \A s \in Slot : JobEnds(s) => Held(s)' = {}
<1>1. ASSUME NEW i \in Insert, NEW pc \in {"done", "failed"}, InsertEnds(i, pc)
      PROVE  Held(i)' = {}
  BY <1>1 DEF InsertEnds, Held, Shape
<1>2. ASSUME NEW s \in Slot, JobEnds(s)
      PROVE  Held(s)' = {}
  BY <1>2, SlotsAreNoInserts DEF JobEnds, Held, Shape, Idle
<1> QED BY <1>1, <1>2

\* Chunks just created have their files, and the others stay.
LEMMA NewChunksChange ==
  ASSUME Shape, NEW ps \in SUBSET PId, NEW rows \in SUBSET Row, Routable(ps, rows),
         NEW news, news = NewChunks(ps, rows), Ids(news) \subseteq CId,
         chunk' = WithChunks(news), remote' = remote \cup {ChunkFile(c) : c \in Ids(news)},
         NEW c \in CId
  PROVE  ChunkChange(c) /\ (c \in Ids(news) => chunk[c].state = "free" /\ chunk'[c].state = "created")
<1>1. /\ \A n \in news : n.id \in CId /\ chunk[n.id].state = "free"
      /\ \A n, m \in news : n # m => n.id # m.id
  <2>1. Spread(ps, rows, news)
    BY NewChunksFacts
  <2> QED BY <2>1 DEF Spread
<1>2. /\ \A n \in news : n.id \in CId =>
           chunk'[n.id] = [state |-> "created", part |-> n.part, rows |-> n.rows]
      /\ \A d \in CId \ Ids(news) : chunk'[d] = chunk[d]
  BY <1>1, WithChunksFacts
<1>3. CASE c \in Ids(news)
  <2>1. PICK n \in news : c = n.id
    BY <1>3 DEF Ids
  <2>2. chunk[c].state = "free"
    BY <1>1, <2>1
  <2>3. chunk'[c] = [state |-> "created", part |-> n.part, rows |-> n.rows]
    BY <1>2, <2>1
  <2>4. chunk'[c].state = "created"
    BY <2>3
  <2>5. ChunkFile(c) \in remote'
    BY <1>3
  <2> QED BY <2>2, <2>4, <2>5 DEF ChunkChange
<1>4. CASE c \notin Ids(news)
  BY <1>2, <1>4 DEF ChunkChange, ChunkStays
<1> QED BY <1>3, <1>4

\* A chunk is created, activated by the one who created it, swapped out, and deleted.
LEMMA ChunkSteps ==
  ASSUME Shape, Next, NEW c \in CId
  PROVE  ChunkChange(c)
<1>1. ASSUME UNCHANGED chunk PROVE ChunkChange(c)
  BY <1>1 DEF ChunkChange, ChunkStays
<1>2. ASSUME NEW i \in Insert, InsertUpload(i) PROVE ChunkChange(c)
  <2>1. ins[i].parts \in SUBSET PId
    BY <1>2 DEF InsertUpload, Shape, InsertState
  <2> DEFINE news == NewChunks(ins[i].parts, RowsOf(i))
  <2>2. ASSUME Routable(ins[i].parts, RowsOf(i))
        PROVE  /\ Ids(news) \subseteq CId
               /\ chunk' = WithChunks(news)
               /\ remote' = remote \cup {ChunkFile(d) : d \in Ids(news)}
    BY <1>2, <2>2 DEF InsertUpload
  <2> HIDE DEF news
  <2>3. CASE Routable(ins[i].parts, RowsOf(i))
    BY <2>1, <2>2, <2>3, RowsOfAreRows, NewChunksChange DEF news
  <2>4. CASE ~Routable(ins[i].parts, RowsOf(i))
    BY <1>1, <1>2, <2>4 DEF InsertUpload
  <2> QED BY <2>3, <2>4
<1>3. ASSUME NEW i \in Insert, InsertActivate(i) PROVE ChunkChange(c)
  <2>1. CASE CanActivate(ins[i].chunks) /\ c \in ins[i].chunks
    <3>1. Held(i)' = {}
      BY <1>3, <2>1, EndsHoldNothing DEF InsertActivate
    <3>2. chunk'[c] = [chunk[c] EXCEPT !.state = "active"]
      BY <1>3, <2>1 DEF InsertActivate, SetState
    <3>3. chunk'[c].state = "active" /\ chunk'[c].rows = chunk[c].rows
      BY <3>2 DEF Shape
    <3>4. c \in Held(i) /\ Stored(c) /\ i \in Holder
      BY <1>3, <2>1 DEF InsertActivate, CanActivate, Held, Holder
    <3> QED BY <3>1, <3>3, <3>4 DEF ChunkChange, ActivatedBy
  <2>2. CASE ~(CanActivate(ins[i].chunks) /\ c \in ins[i].chunks)
    BY <1>3, <2>2 DEF InsertActivate, SetState, ChunkChange, ChunkStays
  <2> QED BY <2>1, <2>2
<1>4. ASSUME NEW s \in Slot, CompactSwap(s) PROVE ChunkChange(c)
  <2>1. CASE CanSwapPartitions(job[s])
    <3>1. chunk' = SwappedChunks(job[s])
      BY <1>4, <2>1 DEF CompactSwap
    <3>2. CASE c \in job[s].chunks
      BY <2>1, <3>1, <3>2 DEF SwappedChunks, CanSwapPartitions, Live, ChunkChange, Shape
    <3>3. CASE c \notin job[s].chunks
      BY <3>1, <3>3 DEF SwappedChunks, ChunkChange, ChunkStays, Shape
    <3> QED BY <3>2, <3>3
  <2>2. CASE ~CanSwapPartitions(job[s])
    BY <1>1, <1>4, <2>2 DEF CompactSwap
  <2> QED BY <2>1, <2>2
<1>5. ASSUME NEW s \in Slot, RepartitionUpload(s) PROVE ChunkChange(c)
  <2>1. job[s].parts \in SUBSET PId /\ chunk[job[s].chunk].rows \in SUBSET Row
    BY <1>5, JobCases DEF RepartitionUpload, Shape
  <2> DEFINE news == NewChunks(job[s].parts, chunk[job[s].chunk].rows)
  <2>2. ASSUME Routable(job[s].parts, chunk[job[s].chunk].rows)
        PROVE  /\ Ids(news) \subseteq CId
               /\ chunk' = WithChunks(news)
               /\ remote' = remote \cup {ChunkFile(d) : d \in Ids(news)}
    BY <1>5, <2>2 DEF RepartitionUpload
  <2> HIDE DEF news
  <2>3. CASE Routable(job[s].parts, chunk[job[s].chunk].rows)
    BY <2>1, <2>2, <2>3, NewChunksChange DEF news
  <2>4. CASE ~Routable(job[s].parts, chunk[job[s].chunk].rows)
    BY <1>1, <1>5, <2>4 DEF RepartitionUpload
  <2> QED BY <2>3, <2>4
<1>6. ASSUME NEW s \in Slot, RepartitionSwap(s) PROVE ChunkChange(c)
  <2>1. CASE ~CanSwapChunks(job[s])
    BY <1>1, <1>6, <2>1 DEF RepartitionSwap
  <2>2. CASE CanSwapChunks(job[s]) /\ c = job[s].chunk
    BY <1>6, <2>2 DEF RepartitionSwap, CanSwapChunks, Live, ChunkChange, Shape
  <2>3. CASE CanSwapChunks(job[s]) /\ c # job[s].chunk /\ c \in job[s].chunks
    <3>1. Held(s)' = {}
      BY <1>6, EndsHoldNothing DEF RepartitionSwap
    <3>2. chunk'[c].state = "active" /\ chunk'[c].rows = chunk[c].rows
      BY <1>6, <2>3 DEF RepartitionSwap, Shape
    <3>3. c \in Held(s) /\ Stored(c) /\ s \in Holder
      BY <1>6, <2>3, SlotsAreNoInserts DEF RepartitionSwap, CanSwapChunks, Held, Holder
    <3> QED BY <3>1, <3>2, <3>3 DEF ChunkChange, ActivatedBy
  <2>4. CASE CanSwapChunks(job[s]) /\ c # job[s].chunk /\ c \notin job[s].chunks
    BY <1>6, <2>4 DEF RepartitionSwap, ChunkChange, ChunkStays, Shape
  <2> QED BY <2>1, <2>2, <2>3, <2>4
<1>7. ASSUME NEW t \in gc, DeleteChunk(t) PROVE ChunkChange(c)
  <2>1. CASE Stored(t.id) /\ c = t.id
    <3>1. chunk'[c] = [chunk[c] EXCEPT !.state = "deleted"]
      BY <1>7, <2>1 DEF DeleteChunk, SetState
    <3>2. DeletedBy(t, c)
      BY <1>7, <2>1, <3>1 DEF DeleteChunk, DeletedBy, Shape
    <3> QED BY <3>2 DEF ChunkChange
  <2>2. CASE ~(Stored(t.id) /\ c = t.id)
    BY <1>7, <2>2 DEF DeleteChunk, SetState, ChunkChange, ChunkStays
  <2> QED BY <2>1, <2>2
<1>8. ASSUME NEW i \in Insert, InsertRoute(i) \/ InsertFails(i) PROVE ChunkChange(c)
  BY <1>1, <1>8 DEF InsertRoute, InsertFails, data
<1>9. ASSUME NEW s \in Slot, \/ \E q \in PId : CompactRead(s, q)
                             \/ \E d \in CId : RepartitionRead(s, d)
                             \/ JobFails(s) \/ CompactPlan(s) \/ CompactWrite(s)
      PROVE  ChunkChange(c)
  BY <1>1, <1>9 DEF CompactRead, RepartitionRead, JobFails, CompactPlan, CompactWrite, data
<1>10. ASSUME NEW r \in Reader, SelectPlan(r) \/ SelectEnd(r) PROVE ChunkChange(c)
  BY <1>1, <1>10 DEF SelectPlan, SelectEnd, data
<1>11. ASSUME (\E e \in events : HandleEvent(e)) \/ Reconciles \/ SchedulerRestart
       PROVE  ChunkChange(c)
  BY <1>1, <1>11, ReconcileCases DEF HandleEvent, SchedulerRestart, data
<1>12. ASSUME NEW t \in gc, \/ CheckChunk(t) \/ RemoveRemoteFile(t)
                            \/ DeletePartition(t) \/ DeleteMiddleManPartition(t)
       PROVE  ChunkChange(c)
  BY <1>1, <1>12
     DEF CheckChunk, RemoveRemoteFile, DeletePartition, DeleteMiddleManPartition, data
<1> QED
  BY <1>2, <1>3, <1>4, <1>5, <1>6, <1>7, <1>8, <1>9, <1>10, <1>11, <1>12, NextCases
     DEF InsertStep, RepartitionStep, GcStep

\* A file goes only when the queue says so.
LEMMA RemoteSteps ==
  ASSUME Shape, Next, NEW f \in remote, f \notin remote'
  PROVE  \E t \in gc : Due(t) /\ t.kind = "file" /\ t.id = f
<1>1. ASSUME NEW t \in gc, RemoveRemoteFile(t)
      PROVE  \E u \in gc : Due(u) /\ u.kind = "file" /\ u.id = f
  BY <1>1 DEF RemoveRemoteFile
<1>2. ASSUME NEW i \in Insert, InsertStep(i) \/ InsertFails(i) PROVE f \in remote'
  BY <1>2 DEF InsertStep, InsertRoute, InsertUpload, InsertActivate, InsertFails, data
<1>3. ASSUME NEW s \in Slot, CompactWrite(s) PROVE f \in remote'
  BY <1>3, CompactWriteCases DEF Writes
<1>4. ASSUME NEW s \in Slot, RepartitionStep(s) PROVE f \in remote'
  BY <1>4 DEF RepartitionStep, RepartitionUpload, RepartitionSwap
<1>5. ASSUME NEW s \in Slot, \/ \E q \in PId : CompactRead(s, q)
                             \/ \E d \in CId : RepartitionRead(s, d)
                             \/ JobFails(s) \/ CompactPlan(s) \/ CompactSwap(s)
      PROVE  f \in remote'
  BY <1>5 DEF CompactRead, RepartitionRead, JobFails, CompactPlan, CompactSwap, data
<1>6. ASSUME NEW r \in Reader, SelectPlan(r) \/ SelectEnd(r) PROVE f \in remote'
  BY <1>6 DEF SelectPlan, SelectEnd, data
<1>7. ASSUME (\E e \in events : HandleEvent(e)) \/ Reconciles \/ SchedulerRestart
      PROVE  f \in remote'
  BY <1>7, ReconcileCases DEF HandleEvent, SchedulerRestart, data
<1>8. ASSUME NEW t \in gc, \/ CheckChunk(t) \/ DeleteChunk(t)
                           \/ DeletePartition(t) \/ DeleteMiddleManPartition(t)
      PROVE  f \in remote'
  BY <1>8 DEF CheckChunk, DeleteChunk, DeletePartition, DeleteMiddleManPartition, data
<1> QED BY <1>1, <1>2, <1>3, <1>4, <1>5, <1>6, <1>7, <1>8, NextCases DEF GcStep

\* A select is planned on what is visible while nothing else changes, and ends.
LEMMA SelectSteps ==
  ASSUME Shape, Next, NEW r \in Reader
  PROVE  \/ sel'[r] = sel[r]
         \/ sel'[r] = {}
         \/ sel'[r] = VisibleFiles /\ UNCHANGED <<data, job, gc>>
<1>1. ASSUME NEW q \in Reader, SelectPlan(q)
      PROVE  sel'[r] = sel[r] \/ (sel'[r] = VisibleFiles /\ UNCHANGED <<data, job, gc>>)
  BY <1>1 DEF SelectPlan, Shape, sched
<1>2. ASSUME NEW q \in Reader, SelectEnd(q)
      PROVE  sel'[r] = sel[r] \/ sel'[r] = {}
  BY <1>2 DEF SelectEnd, Shape
<1>3. ASSUME NEW i \in Insert, InsertStep(i) \/ InsertFails(i) PROVE sel' = sel
  BY <1>3 DEF InsertStep, InsertRoute, InsertUpload, InsertActivate, InsertFails
<1>4. ASSUME NEW s \in Slot, \/ \E q \in PId : CompactRead(s, q)
                             \/ \E d \in CId : RepartitionRead(s, d)
                             \/ JobFails(s) \/ CompactPlan(s) \/ CompactWrite(s)
                             \/ CompactSwap(s) \/ RepartitionStep(s)
      PROVE  sel' = sel
  BY <1>4 DEF CompactRead, RepartitionRead, JobFails, CompactPlan, CompactWrite, CompactSwap,
              RepartitionStep, RepartitionUpload, RepartitionSwap
<1>5. ASSUME (\E e \in events : HandleEvent(e)) \/ Reconciles \/ SchedulerRestart
      PROVE  sel' = sel
  BY <1>5, ReconcileCases DEF HandleEvent, SchedulerRestart, tasks
<1>6. ASSUME NEW t \in gc, GcStep(t) PROVE sel' = sel
  BY <1>6 DEF GcStep, CheckChunk, DeleteChunk, RemoveRemoteFile, DeletePartition,
              DeleteMiddleManPartition, tasks
<1> QED BY <1>1, <1>2, <1>3, <1>4, <1>5, <1>6, NextCases

\* The event of a deleted chunk comes with its deletion.
LEMMA EventSteps ==
  ASSUME Shape, Next, NEW c \in CId, <<"deleted", c>> \in events'
  PROVE  <<"deleted", c>> \in events \/ chunk'[c].state = "deleted"
<1>1. ASSUME NEW i \in Insert, InsertStep(i) \/ InsertFails(i) PROVE events' = events
  BY <1>1 DEF InsertStep, InsertRoute, InsertUpload, InsertActivate, InsertFails, sched
<1>2. ASSUME NEW s \in Slot, CompactSwap(s) PROVE <<"deleted", c>> \in events
  BY <1>2 DEF CompactSwap
<1>3. ASSUME NEW s \in Slot, \/ \E q \in PId : CompactRead(s, q)
                             \/ \E d \in CId : RepartitionRead(s, d)
                             \/ JobFails(s) \/ CompactPlan(s) \/ CompactWrite(s)
                             \/ RepartitionStep(s)
      PROVE  events' = events
  BY <1>3 DEF CompactRead, RepartitionRead, JobFails, CompactPlan, CompactWrite,
              RepartitionStep, RepartitionUpload, RepartitionSwap, sched
<1>4. ASSUME NEW r \in Reader, SelectPlan(r) \/ SelectEnd(r) PROVE events' = events
  BY <1>4 DEF SelectPlan, SelectEnd, sched
<1>5. ASSUME (\E e \in events : HandleEvent(e)) \/ Reconciles \/ SchedulerRestart
      PROVE  <<"deleted", c>> \in events
  BY <1>5, ReconcileCases DEF HandleEvent, SchedulerRestart
<1>6. ASSUME NEW t \in gc, DeleteChunk(t)
      PROVE  <<"deleted", c>> \in events \/ chunk'[c].state = "deleted"
  BY <1>6 DEF DeleteChunk, SetState, Shape
<1>7. ASSUME NEW t \in gc, \/ CheckChunk(t) \/ RemoveRemoteFile(t)
                           \/ DeletePartition(t) \/ DeleteMiddleManPartition(t)
      PROVE  <<"deleted", c>> \in events
  BY <1>7 DEF CheckChunk, RemoveRemoteFile, DeletePartition, DeleteMiddleManPartition
<1> QED BY <1>1, <1>2, <1>3, <1>4, <1>5, <1>6, <1>7, NextCases DEF GcStep

\* Who ends holds nothing any more: no files of a select, no chunks to activate
Ends(who) ==
  \/ who \in Reader /\ sel'[who] = {}
  \/ who \in Holder /\ Held(who)' = {}

TaskChange(u) ==
  \/ u \in gc
  \/ \E t \in gc : \E who : /\ u.kind = t.kind /\ u.id = t.id /\ u.checked = t.checked
                            /\ u.wait = t.wait \ {who} /\ Ends(who)
  \/ /\ UNCHANGED <<data, tasks>>
     /\ \/ \E t \in gc : /\ Due(t) /\ t.kind = "chunk" /\ u.kind = "chunk" /\ u.id = t.id
                         /\ u.wait = {} /\ ~Live(u.id)
        \/ /\ u.kind = "file" /\ u.wait \in {AfterQueries, AfterJobs}
           /\ \/ \E p \in PId : /\ u.id = MainFile(p) /\ partition[p].rows # {}
                                /\ partition[p].state = "inactive"
              \/ \E c \in CId : u.id = ChunkFile(c) /\ <<"deleted", c>> \in events
        \/ /\ u.kind = "chunk" /\ ~u.checked
           /\ \/ chunk[u.id].state = "inactive"
              \/ chunk[u.id].state = "created" /\ u.wait = AfterJobs
        \/ u.kind \in {"partition", "middleman"}

\* An event puts the files in the queue that nothing needs any more.
LEMMA HandleEventTasks ==
  ASSUME Shape, NEW e \in events, HandleEvent(e), NEW u \in gc'
  PROVE  TaskChange(u)
<1>0. gc \subseteq Garbage /\ e \in ({"deactivated"} \X PId) \cup ({"deleted"} \X CId)
  BY DEF Shape
<1>1. UNCHANGED <<data, tasks>>
  BY DEF HandleEvent
<1>2. CASE e[1] = "deactivated" /\ partition[e[2]].state = "inactive"
             /\ partition[e[2]].rows # {}
  <2>1. gc' = Schedule("file", {MainFile(e[2])}, AfterQueries)
    BY <1>2 DEF HandleEvent
  <2>2. MainFile(e[2]) \in File /\ e[2] \in PId
    BY <1>0, <1>2 DEF File
  <2>3. \A v \in Schedule("file", {MainFile(e[2])}, AfterQueries) : v \notin gc =>
          v.kind = "file" /\ v.id = MainFile(e[2]) /\ v.wait = AfterQueries
    <3>1. gc \subseteq Garbage
      BY <1>0
    <3> QED BY <2>2, <3>1, ScheduleFileFacts, WaitsAreTasks
  <2> QED BY <1>1, <1>2, <2>1, <2>2, <2>3 DEF TaskChange
<1>3. CASE e[1] = "deleted"
  <2>1. gc' = Schedule("file", {ChunkFile(e[2])}, AfterJobs)
    BY <1>3 DEF HandleEvent
  <2>2. ChunkFile(e[2]) \in File /\ e[2] \in CId /\ e = <<"deleted", e[2]>>
    BY <1>0, <1>3 DEF File
  <2>3. \A v \in Schedule("file", {ChunkFile(e[2])}, AfterJobs) : v \notin gc =>
          v.kind = "file" /\ v.id = ChunkFile(e[2]) /\ v.wait = AfterJobs
    <3>1. gc \subseteq Garbage
      BY <1>0
    <3> QED BY <2>2, <3>1, ScheduleFileFacts, WaitsAreTasks
  <2> QED BY <1>1, <1>3, <2>1, <2>2, <2>3 DEF TaskChange
<1>4. CASE ~(e[1] = "deactivated" /\ partition[e[2]].state = "inactive"
               /\ partition[e[2]].rows # {}) /\ e[1] # "deleted"
  BY <1>4 DEF HandleEvent, TaskChange
<1> QED BY <1>2, <1>3, <1>4

\* A reconcile loop puts rows in the queue that are garbage now.
LEMMA ReconcileTasks ==
  ASSUME Shape, Reconciles, NEW u \in gc'
  PROVE  TaskChange(u)
<1>1. PICK kind, ids, wait : Reconciled(kind, ids, wait)
  BY ReconcileCases
<1>2. UNCHANGED <<data, tasks>>
  BY ReconcileCases
<1>3. u \notin gc => u.kind = kind /\ u.id \in ids /\ u.wait = wait /\ ~u.checked
  <2>1. gc \subseteq Garbage /\ gc' = Schedule(kind, ids, wait)
    BY <1>1 DEF Shape, Reconciled
  <2>2. wait \in SUBSET Tasks
    BY <1>1, WaitsAreTasks DEF Reconciled
  <2>3. \/ kind = "chunk" /\ ids \subseteq CId
        \/ kind \in {"partition", "middleman"} /\ ids \subseteq PId
    BY <1>1 DEF Reconciled
  <2>4. \A v \in Schedule(kind, ids, wait) : v \notin gc =>
          v.kind = kind /\ v.id \in ids /\ v.wait = wait /\ ~v.checked
    BY <2>1, <2>2, <2>3, ScheduleFacts
  <2> QED BY <2>1, <2>4
<1>4. CASE u \in gc
  BY <1>4 DEF TaskChange
<1>5. CASE u \notin gc /\ kind = "chunk"
  BY <1>1, <1>2, <1>3, <1>5 DEF Reconciled, TaskChange
<1>6. CASE u \notin gc /\ kind # "chunk"
  BY <1>1, <1>2, <1>3, <1>6 DEF Reconciled, TaskChange
<1> QED BY <1>4, <1>5, <1>6

\* The queue loses who has ended, and gets what is garbage.
LEMMA TaskSteps ==
  ASSUME Shape, Next, NEW u \in gc'
  PROVE  TaskChange(u)
<1>0. gc \subseteq Garbage
  BY DEF Shape
<1>1. ASSUME gc' \subseteq gc PROVE TaskChange(u)
  BY <1>1 DEF TaskChange
<1>2. ASSUME NEW who, gc' = Ended(gc, who), Ends(who) PROVE TaskChange(u)
  <2>1. PICK t \in gc : /\ u.kind = t.kind /\ u.id = t.id /\ u.checked = t.checked
                        /\ u.wait = t.wait \ {who}
    BY <1>0, <1>2, EndedFacts
  <2> QED BY <1>2, <2>1 DEF TaskChange
<1>3. ASSUME NEW i \in Insert, NEW pc \in {"done", "failed"}, InsertEnds(i, pc)
      PROVE  TaskChange(u)
  BY <1>2, <1>3, EndsHoldNothing DEF InsertEnds, Ends, Holder
<1>4. ASSUME NEW s \in Slot, JobEnds(s) PROVE TaskChange(u)
  BY <1>2, <1>4, EndsHoldNothing DEF JobEnds, Ends, Holder
<1>5. ASSUME NEW i \in Insert, InsertStep(i) \/ InsertFails(i) PROVE TaskChange(u)
  BY <1>1, <1>3, <1>5
     DEF InsertStep, InsertRoute, InsertUpload, InsertActivate, InsertFails, sched
<1>6. ASSUME NEW s \in Slot, CompactPlan(s) PROVE TaskChange(u)
  BY <1>1, <1>4, <1>6, CompactPlanCases DEF Plans
<1>7. ASSUME NEW s \in Slot, CompactWrite(s) PROVE TaskChange(u)
  BY <1>1, <1>4, <1>7, CompactWriteCases DEF Writes
<1>8. ASSUME NEW s \in Slot, \/ \E q \in PId : CompactRead(s, q)
                             \/ \E d \in CId : RepartitionRead(s, d)
                             \/ JobFails(s) \/ CompactSwap(s) \/ RepartitionStep(s)
      PROVE  TaskChange(u)
  BY <1>1, <1>4, <1>8 DEF CompactRead, RepartitionRead, JobFails, CompactSwap,
              RepartitionStep, RepartitionUpload, RepartitionSwap, sched
<1>9. ASSUME NEW r \in Reader, SelectPlan(r) \/ SelectEnd(r) PROVE TaskChange(u)
  <2>1. CASE SelectPlan(r)
    BY <1>1, <2>1 DEF SelectPlan, sched
  <2>2. CASE SelectEnd(r)
    <3>1. gc' = Ended(gc, r) /\ Ends(r)
      BY <2>2 DEF SelectEnd, Ends, Shape
    <3> QED BY <3>1, <1>2
  <2> QED BY <1>9, <2>1, <2>2
<1>10. ASSUME SchedulerRestart PROVE TaskChange(u)
  BY <1>10 DEF SchedulerRestart
<1>11. ASSUME NEW t \in gc, CheckChunk(t) PROVE TaskChange(u)
  <2>1. t \in [kind : {"chunk"}, id : CId, wait : SUBSET Tasks, checked : BOOLEAN]
    BY <1>0, <1>11 DEF CheckChunk, Garbage
  <2>2. u \in gc \/ (~Live(t.id) /\ u = [t EXCEPT !.checked = TRUE])
    BY <1>11 DEF CheckChunk
  <2>3. CASE u \notin gc
    <3>1. u.kind = "chunk" /\ u.id = t.id /\ u.wait = {} /\ ~Live(u.id)
      BY <1>11, <2>1, <2>2, <2>3 DEF CheckChunk, Due
    <3> QED BY <1>11, <3>1 DEF CheckChunk, TaskChange
  <2> QED BY <2>3 DEF TaskChange
<1>12. ASSUME NEW t \in gc, \/ DeleteChunk(t) \/ RemoveRemoteFile(t)
                            \/ DeletePartition(t) \/ DeleteMiddleManPartition(t)
       PROVE  TaskChange(u)
  BY <1>1, <1>12 DEF DeleteChunk, RemoveRemoteFile, DeletePartition, DeleteMiddleManPartition
<1> QED BY <1>5, <1>6, <1>7, <1>8, <1>9, <1>10, <1>11, <1>12, NextCases, HandleEventTasks,
           ReconcileTasks DEF GcStep

\* Children are new when a compaction plans them.
KidChange(s, p) ==
  \/ p \in Kids(s)
  \/ /\ partition[p].state = "free"
     /\ partition'[p].state = "inactive" /\ partition'[p].rows = {}
     /\ \A t \in Slot : t # s => Kids(t)' = Kids(t)

\* A compaction has the children it planned until it ends.
LEMMA KidSteps ==
  ASSUME Shape, Next, NEW s \in Slot, NEW p \in Kids(s)'
  PROVE  KidChange(s, p)
<1>1. ASSUME job'[s] = job[s] PROVE KidChange(s, p)
  BY <1>1 DEF KidChange, Kids
<1>2. ASSUME NEW t \in Slot, JobEnds(t) PROVE KidChange(s, p)
  BY <1>1, <1>2 DEF JobEnds, KidChange, Kids, Idle, Shape
<1>3. ASSUME NEW t \in Slot, CompactPlan(t) PROVE KidChange(s, p)
  <2>1. ASSUME NEW cs \in SUBSET CId, NEW kids \in SUBSET PId, Plans(t, cs, kids)
        PROVE  KidChange(s, p)
    <3>1. CASE s # t
      BY <1>1, <2>1, <3>1 DEF Plans, Shape
    <3>2. CASE s = t
      <4>1. p \in kids /\ \A u \in Slot : u # s => Kids(u)' = Kids(u)
        BY <2>1, <3>2 DEF Plans, Kids, Shape
      <4>2. partition'[p] = NewChild(job[s].part)
        BY <2>1, <3>2, <4>1 DEF Plans
      <4> QED BY <2>1, <4>1, <4>2 DEF Plans, KidChange, NewChild, NoPartition
    <3> QED BY <3>1, <3>2
  <2> QED BY <1>2, <1>3, <2>1, CompactPlanCases
<1>4. ASSUME NEW t \in Slot, CompactWrite(t) PROVE KidChange(s, p)
  <2>1. ASSUME NEW cuts, Writes(t, cuts)
        PROVE  KidChange(s, p)
    <3>1. CASE s # t
      BY <1>1, <2>1, <3>1 DEF Writes, Shape
    <3>2. CASE s = t
      <4>1. Kids(s)' = DOMAIN SplitAt(job[s], cuts)
        BY <2>1, <3>2 DEF Writes, Kids, Shape
      <4>2. DOMAIN SplitAt(job[s], cuts) \in SUBSET Kids(s)
        BY <1>4, <3>2, SplitIsSplit DEF CompactWrite, Kids
      <4> QED BY <4>1, <4>2 DEF KidChange
    <3> QED BY <3>1, <3>2
  <2> QED BY <1>2, <1>4, <2>1, CompactWriteCases
<1>5. ASSUME NEW t \in Slot, JobFails(t) \/ CompactSwap(t) PROVE KidChange(s, p)
  BY <1>2, <1>5 DEF JobFails, CompactSwap
<1>6. ASSUME NEW t \in Slot, NEW q \in PId, CompactRead(t, q) PROVE KidChange(s, p)
  BY <1>1, <1>6 DEF CompactRead, KidChange, Kids, Shape
<1>7. ASSUME NEW t \in Slot, NEW d \in CId, RepartitionRead(t, d) PROVE KidChange(s, p)
  BY <1>1, <1>7 DEF RepartitionRead, KidChange, Kids, Shape
<1>8. ASSUME NEW t \in Slot, RepartitionStep(t) PROVE KidChange(s, p)
  BY <1>1, <1>2, <1>8 DEF RepartitionStep, RepartitionUpload, RepartitionSwap,
                          KidChange, Kids, Shape
<1>9. ASSUME UNCHANGED job PROVE KidChange(s, p)
  BY <1>1, <1>9
<1>10. ASSUME NEW i \in Insert, InsertStep(i) \/ InsertFails(i) PROVE KidChange(s, p)
  BY <1>9, <1>10 DEF InsertStep, InsertRoute, InsertUpload, InsertActivate, InsertFails
<1>11. ASSUME NEW r \in Reader, SelectPlan(r) \/ SelectEnd(r) PROVE KidChange(s, p)
  BY <1>9, <1>11 DEF SelectPlan, SelectEnd
<1>12. ASSUME (\E e \in events : HandleEvent(e)) \/ Reconciles \/ SchedulerRestart
       PROVE  KidChange(s, p)
  BY <1>9, <1>12, ReconcileCases DEF HandleEvent, SchedulerRestart, tasks
<1>13. ASSUME NEW t \in gc, GcStep(t) PROVE KidChange(s, p)
  BY <1>9, <1>13 DEF GcStep, CheckChunk, DeleteChunk, RemoveRemoteFile, DeletePartition,
                     DeleteMiddleManPartition, tasks
<1> QED BY <1>3, <1>4, <1>5, <1>6, <1>7, <1>8, <1>10, <1>11, <1>12, <1>13, NextCases

\* The files of a split are there when it is ready to be swapped in.
LEMMA SplitSteps ==
  ASSUME Shape, Next, NEW s \in Slot, job'[s].pc = "swapping", job'[s] # job[s]
  PROVE  job[s].pc = "merging" /\ \E cuts : Writes(s, cuts)
<1>1. ASSUME NEW t \in Slot, JobEnds(t) PROVE FALSE
  BY <1>1 DEF JobEnds, Idle, Shape
<1>2. ASSUME NEW t \in Slot, CompactPlan(t) PROVE FALSE
  BY <1>1, <1>2, CompactPlanCases DEF Plans, Shape
<1>3. ASSUME NEW t \in Slot, CompactWrite(t)
      PROVE  job[s].pc = "merging" /\ \E cuts : Writes(s, cuts)
  <2>1. PICK cuts : Writes(t, cuts)
    BY <1>1, <1>3, CompactWriteCases
  <2>2. s = t
    BY <2>1 DEF Writes, Shape
  <2> QED BY <1>3, <2>1, <2>2 DEF CompactWrite
<1>4. ASSUME NEW t \in Slot, JobFails(t) \/ CompactSwap(t) \/ RepartitionStep(t) PROVE FALSE
  BY <1>1, <1>4 DEF JobFails, CompactSwap, RepartitionStep, RepartitionUpload,
                    RepartitionSwap, Shape
<1>5. ASSUME NEW t \in Slot, NEW q \in PId, CompactRead(t, q) PROVE FALSE
  BY <1>5 DEF CompactRead, Shape
<1>6. ASSUME NEW t \in Slot, NEW d \in CId, RepartitionRead(t, d) PROVE FALSE
  BY <1>6 DEF RepartitionRead, Shape
<1>7. ASSUME NEW i \in Insert, InsertStep(i) \/ InsertFails(i) PROVE FALSE
  BY <1>7 DEF InsertStep, InsertRoute, InsertUpload, InsertActivate, InsertFails
<1>8. ASSUME NEW r \in Reader, SelectPlan(r) \/ SelectEnd(r) PROVE FALSE
  BY <1>8 DEF SelectPlan, SelectEnd
<1>9. ASSUME (\E e \in events : HandleEvent(e)) \/ Reconciles \/ SchedulerRestart PROVE FALSE
  BY <1>9, ReconcileCases DEF HandleEvent, SchedulerRestart, tasks
<1>10. ASSUME NEW t \in gc, GcStep(t) PROVE FALSE
  BY <1>10 DEF GcStep, CheckChunk, DeleteChunk, RemoveRemoteFile, DeletePartition,
               DeleteMiddleManPartition, tasks
<1> QED BY <1>2, <1>3, <1>4, <1>5, <1>6, <1>7, <1>8, <1>9, <1>10, NextCases

\* Chunks are new when an insert or a repartition comes to hold them.
HeldChange(x, c) ==
  \/ c \in Held(x)
  \/ /\ chunk[c].state = "free" /\ chunk'[c].state = "created"
     /\ \A y \in Holder : y # x => Held(y)' = Held(y)

\* An insert or a worker holds the chunks it created until it ends.
LEMMA HeldSteps ==
  ASSUME Shape, Next, NEW x \in Holder, NEW c \in Held(x)'
  PROVE  HeldChange(x, c)
<1> USE SlotsAreNoInserts
<1>0. x \in Insert \/ (x \in Slot /\ x \notin Insert)
  BY DEF Holder
<1>1. ASSUME Held(x)' = Held(x) \/ Held(x)' = {} PROVE HeldChange(x, c)
  BY <1>1 DEF HeldChange
<1>2. ASSUME NEW i \in Insert, NEW pc \in {"done", "failed"}, InsertEnds(i, pc), UNCHANGED job
      PROVE  HeldChange(x, c)
  BY <1>0, <1>1, <1>2, EndsHoldNothing DEF InsertEnds, Held, Shape
<1>3. ASSUME NEW t \in Slot, JobEnds(t), UNCHANGED ins PROVE HeldChange(x, c)
  BY <1>0, <1>1, <1>3, EndsHoldNothing DEF JobEnds, Held, Shape
<1>4. ASSUME NEW i \in Insert, InsertUpload(i) PROVE HeldChange(x, c)
  <2>1. ins[i].parts \in SUBSET PId
    BY <1>4 DEF InsertUpload, Shape, InsertState
  <2> DEFINE news == NewChunks(ins[i].parts, RowsOf(i))
  <2>2. ASSUME Routable(ins[i].parts, RowsOf(i))
        PROVE  /\ Ids(news) \subseteq CId
               /\ chunk' = WithChunks(news)
               /\ remote' = remote \cup {ChunkFile(d) : d \in Ids(news)}
               /\ ins' = [ins EXCEPT ![i] = [pc |-> "uploaded", chunks |-> Ids(news)]]
               /\ job' = job
    BY <1>4, <2>2 DEF InsertUpload
  <2> HIDE DEF news
  <2>3. CASE Routable(ins[i].parts, RowsOf(i)) /\ x = i
    <3>1. c \in Ids(news) /\ \A y \in Holder : y # x => Held(y)' = Held(y)
      BY <2>2, <2>3 DEF Held, Shape
    <3>2. c \in CId
      BY <2>2, <2>3, <3>1
    <3>3. chunk[c].state = "free" /\ chunk'[c].state = "created"
      BY <2>1, <2>2, <2>3, <3>1, <3>2, RowsOfAreRows, NewChunksChange DEF news
    <3> QED BY <3>1, <3>3 DEF HeldChange
  <2>4. CASE Routable(ins[i].parts, RowsOf(i)) /\ x # i
    BY <1>0, <1>1, <2>2, <2>4 DEF Held, Shape
  <2>5. CASE ~Routable(ins[i].parts, RowsOf(i))
    BY <1>2, <1>4, <2>5 DEF InsertUpload
  <2> QED BY <2>3, <2>4, <2>5
<1>5. ASSUME NEW s \in Slot, RepartitionUpload(s) PROVE HeldChange(x, c)
  <2>1. job[s].parts \in SUBSET PId /\ chunk[job[s].chunk].rows \in SUBSET Row
    BY <1>5, JobCases DEF RepartitionUpload, Shape
  <2> DEFINE news == NewChunks(job[s].parts, chunk[job[s].chunk].rows)
  <2>2. ASSUME Routable(job[s].parts, chunk[job[s].chunk].rows)
        PROVE  /\ Ids(news) \subseteq CId
               /\ chunk' = WithChunks(news)
               /\ remote' = remote \cup {ChunkFile(d) : d \in Ids(news)}
               /\ job' = [job EXCEPT ![s] = [pc |-> "moving", target |-> job[s].target,
                                             chunk |-> job[s].chunk, chunks |-> Ids(news)]]
               /\ ins' = ins
    BY <1>5, <2>2 DEF RepartitionUpload
  <2> HIDE DEF news
  <2>3. CASE Routable(job[s].parts, chunk[job[s].chunk].rows) /\ x = s
    <3>1. c \in Ids(news) /\ \A y \in Holder : y # x => Held(y)' = Held(y)
      <4>1. s \notin Insert
        OBVIOUS
      <4>2. Held(s)' = Ids(news)
        BY <2>2, <2>3, <4>1 DEF Held, Shape
      <4>3. \A y \in Insert : Held(y)' = Held(y)
        BY <2>2, <2>3 DEF Held
      <4>4. \A y \in Slot : y # s => Held(y)' = Held(y)
        BY <2>2, <2>3 DEF Held, Shape
      <4> QED BY <2>3, <4>2, <4>3, <4>4 DEF Holder
    <3>2. c \in CId
      BY <2>2, <2>3, <3>1
    <3>3. chunk[c].state = "free" /\ chunk'[c].state = "created"
      BY <2>1, <2>2, <2>3, <3>1, <3>2, NewChunksChange DEF news
    <3> QED BY <3>1, <3>3 DEF HeldChange
  <2>4. CASE Routable(job[s].parts, chunk[job[s].chunk].rows) /\ x # s
    BY <1>0, <1>1, <2>2, <2>4 DEF Held, Shape
  <2>5. CASE ~Routable(job[s].parts, chunk[job[s].chunk].rows)
    BY <1>3, <1>5, <2>5 DEF RepartitionUpload
  <2> QED BY <2>3, <2>4, <2>5
<1>6. ASSUME NEW i \in Insert, InsertRoute(i) \/ InsertActivate(i) \/ InsertFails(i)
      PROVE  HeldChange(x, c)
  <2>1. CASE InsertRoute(i)
    BY <1>0, <1>1, <2>1 DEF InsertRoute, Held, Shape
  <2> QED BY <1>2, <1>6, <2>1 DEF InsertActivate, InsertFails
<1>7. ASSUME NEW t \in Slot, CompactPlan(t) PROVE HeldChange(x, c)
  <2>1. UNCHANGED ins
    BY <1>7 DEF CompactPlan
  <2>2. ASSUME NEW cs \in SUBSET CId, NEW kids \in SUBSET PId, Plans(t, cs, kids)
        PROVE  HeldChange(x, c)
    BY <1>0, <1>1, <1>7, <2>1, <2>2 DEF Plans, CompactPlan, Held, Shape
  <2> QED BY <1>3, <1>7, <2>1, <2>2, CompactPlanCases
<1>8. ASSUME NEW t \in Slot, CompactWrite(t) PROVE HeldChange(x, c)
  <2>1. UNCHANGED ins
    BY <1>8 DEF CompactWrite
  <2>2. ASSUME NEW cuts, Writes(t, cuts)
        PROVE  HeldChange(x, c)
    BY <1>0, <1>1, <1>8, <2>1, <2>2 DEF Writes, CompactWrite, Held, Shape
  <2> QED BY <1>3, <1>8, <2>1, <2>2, CompactWriteCases
<1>9. ASSUME NEW t \in Slot, JobFails(t) \/ CompactSwap(t) \/ RepartitionSwap(t)
      PROVE  HeldChange(x, c)
  BY <1>3, <1>9 DEF JobFails, CompactSwap, RepartitionSwap
<1>10. ASSUME NEW t \in Slot, NEW q \in PId, CompactRead(t, q) PROVE HeldChange(x, c)
  BY <1>0, <1>1, <1>10 DEF CompactRead, Held, Shape
<1>11. ASSUME NEW t \in Slot, NEW d \in CId, RepartitionRead(t, d) PROVE HeldChange(x, c)
  BY <1>0, <1>1, <1>11 DEF RepartitionRead, Held, Shape
<1>12. ASSUME UNCHANGED <<ins, job>> PROVE HeldChange(x, c)
  BY <1>1, <1>12 DEF Held
<1>13. ASSUME NEW r \in Reader, SelectPlan(r) \/ SelectEnd(r) PROVE HeldChange(x, c)
  BY <1>12, <1>13 DEF SelectPlan, SelectEnd
<1>14. ASSUME (\E e \in events : HandleEvent(e)) \/ Reconciles \/ SchedulerRestart
       PROVE  HeldChange(x, c)
  BY <1>12, <1>14, ReconcileCases DEF HandleEvent, SchedulerRestart, tasks
<1>15. ASSUME NEW t \in gc, GcStep(t) PROVE HeldChange(x, c)
  BY <1>12, <1>15 DEF GcStep, CheckChunk, DeleteChunk, RemoveRemoteFile, DeletePartition,
                      DeleteMiddleManPartition, tasks
<1> QED BY <1>4, <1>5, <1>6, <1>7, <1>8, <1>9, <1>10, <1>11, <1>13, <1>14, <1>15, NextCases
        DEF InsertStep, RepartitionStep

-----------------------------------------------------------------------------
(* Files *)

\* Nothing is there at the beginning but the first partition.
LEMMA InitFiles == Init => FileInv
<1> SUFFICES ASSUME Init PROVE FileInv
  OBVIOUS
<1>1. KidsAreFresh
  BY DEF Init, KidsAreFresh, Kids, Idle
<1>2. FilesAreThere
  BY DEF Init, FilesAreThere, HasMainFile, Active, Stored, NoPartition, NoChunk, Idle
<1>3. DeadAreCollected /\ RemovalsWait /\ SelectFindsItsFiles
  BY DEF Init, DeadAreCollected, RemovalsWait, SelectFindsItsFiles
<1> QED BY <1>1, <1>2, <1>3 DEF FileInv

\* Children stay fresh, because only the compaction that has them makes them active.
LEMMA KidsStayFresh ==
  ASSUME Shape, FileInv, Next
  PROVE  KidsAreFresh'
<1>0. \A t \in Slot : Kids(t) \in SUBSET PId /\ Kids(t)' \in SUBSET PId
  <2>1. ASSUME NEW t \in Slot PROVE Kids(t) \in SUBSET PId
    BY JobCases, SplitFacts DEF Kids
  <2>2. Shape'
    BY ShapeStep
  <2>3. ASSUME NEW t \in Slot, Shape' PROVE Kids(t)' \in SUBSET PId
    <3>1. job'[t] \in {Idle} \cup Compaction \cup Repartition
      BY <2>3 DEF Shape
    <3>2. job'[t].pc = "merging" => job'[t].kids \in SUBSET PId
      BY <3>1 DEF Idle, Compaction, Repartition
    <3>3. job'[t].pc = "swapping" => job'[t].out \in Split
      BY <3>1 DEF Idle, Compaction, Repartition
    <3> QED BY <3>2, <3>3, SplitFacts DEF Kids
  <2> QED BY <2>1, <2>2, <2>3
<1>1. ASSUME NEW s \in Slot, NEW p \in Kids(s)' PROVE Fresh(p)'
  <2>0. p \in PId /\ KidChange(s, p)
    BY <1>0, KidSteps
  <2>1. CASE p \in Kids(s)
    <3>1. Fresh(p)
      BY <2>1 DEF FileInv, KidsAreFresh
    <3>2. ASSUME NEW t \in Slot, Activates(t, p) PROVE FALSE
      <4>1. p \in Kids(t)
        BY <3>2 DEF Activates, Kids
      <4>2. s = t
        BY <2>1, <4>1 DEF FileInv, KidsAreFresh
      <4>3. Kids(s)' = {}
        BY <3>2, <4>2 DEF Activates, Kids, Idle, Shape
      <4> QED BY <4>3
    <3> QED BY <2>0, <3>1, <3>2, PartitionSteps DEF PartitionChange, PartitionStays, Fresh
  <2>2. CASE p \notin Kids(s)
    BY <2>0, <2>2 DEF KidChange, Fresh
  <2> QED BY <2>1, <2>2
<1>2. ASSUME NEW s \in Slot, NEW t \in Slot, s # t, NEW p \in Kids(s)', p \in Kids(t)'
      PROVE  FALSE
  <2>1. KidChange(s, p) /\ KidChange(t, p)
    BY <1>2, KidSteps
  <2>2. \A u \in Slot : p \in Kids(u) => partition[p].state # "free"
    BY DEF FileInv, KidsAreFresh, Fresh
  <2>3. p \notin Kids(s) \/ p \notin Kids(t)
    BY <1>2 DEF FileInv, KidsAreFresh
  <2> QED BY <1>2, <2>1, <2>2, <2>3 DEF KidChange
<1> QED BY <1>1, <1>2 DEF KidsAreFresh

\* What is dead stays dead.
LEMMA DeadStay ==
  ASSUME Shape, FileInv, Next, NEW f, Dead(f)
  PROVE  Dead(f)'
<1>1. ASSUME NEW p \in PId, f = MainFile(p), partition[p].rows # {},
             partition[p].state \in {"inactive", "deleted"}
      PROVE  Dead(f)'
  <2>1. ASSUME NEW s \in Slot, Activates(s, p) PROVE FALSE
    BY <1>1, <2>1 DEF Activates, Kids, FileInv, KidsAreFresh, Fresh
  <2>2. partition'[p].rows # {} /\ partition'[p].state \in {"inactive", "deleted"}
    BY <1>1, <2>1, PartitionSteps DEF PartitionChange, PartitionStays
  <2> QED BY <1>1, <2>2 DEF Dead, MainFile
<1>2. ASSUME NEW c \in CId, f = ChunkFile(c), chunk[c].state = "deleted"
      PROVE  Dead(f)'
  <2>1. chunk'[c].state = "deleted"
    BY <1>2, ChunkSteps DEF ChunkChange, ChunkStays, ActivatedBy, DeletedBy, Stored
  <2> QED BY <1>2, <2>1 DEF Dead, ChunkFile
<1> QED BY <1>1, <1>2 DEF Dead

\* Nothing that is alive is dead: what the metastore needs is not removed.
LEMMA LiveAreNotDead ==
  ASSUME FileInv
  PROVE  /\ \A p \in PId : HasMainFile(p) => ~Dead(MainFile(p))
         /\ \A c \in CId : Stored(c) => ~Dead(ChunkFile(c))
         /\ \A s \in Slot : \A p \in Kids(s) : ~Dead(MainFile(p))
         /\ \A f \in VisibleFiles : ~Dead(f)
<1>1. ASSUME NEW p \in PId, HasMainFile(p) PROVE ~Dead(MainFile(p))
  BY <1>1 DEF HasMainFile, Active, Dead, MainFile, ChunkFile
<1>2. ASSUME NEW c \in CId, Stored(c) PROVE ~Dead(ChunkFile(c))
  BY <1>2 DEF Stored, Dead, MainFile, ChunkFile
<1>3. ASSUME NEW s \in Slot, NEW p \in Kids(s) PROVE ~Dead(MainFile(p))
  <2>1. Fresh(p)
    BY <1>3 DEF FileInv, KidsAreFresh
  <2> QED BY <2>1 DEF Fresh, Dead, MainFile, ChunkFile
<1>4. ASSUME NEW f \in VisibleFiles PROVE ~Dead(f)
  BY <1>1, <1>2 DEF VisibleFiles, Live, Stored
<1> QED BY <1>1, <1>2, <1>3, <1>4

\* Only dead files are removed.
LEMMA OnlyDeadGo ==
  ASSUME Shape, FileInv, Next, NEW f \in remote, f \notin remote'
  PROVE  Dead(f)
BY RemoteSteps DEF FileInv, DeadAreCollected

\* What the metastore needs is there.
LEMMA FilesStayThere ==
  ASSUME Shape, FileInv, Next
  PROVE  FilesAreThere'
<1>1. ASSUME NEW p \in PId, HasMainFile(p)' PROVE MainFile(p) \in remote'
  <2>1. partition'[p].state = "active" /\ partition'[p].rows # {}
    BY <1>1 DEF HasMainFile, Active
  <2>2. CASE PartitionStays(p)
    <3>1. HasMainFile(p)
      BY <2>1, <2>2 DEF PartitionStays, HasMainFile, Active
    <3> QED BY <3>1, LiveAreNotDead, OnlyDeadGo DEF FileInv, FilesAreThere
  <2>3. ASSUME NEW s \in Slot, Activates(s, p) PROVE MainFile(p) \in remote'
    <3>1. MainFile(p) \in remote /\ p \in Kids(s)
      BY <2>3 DEF Activates, FileInv, FilesAreThere, Kids
    <3> QED BY <3>1, LiveAreNotDead, OnlyDeadGo
  <2> QED BY <2>1, <2>2, <2>3, PartitionSteps DEF PartitionChange
<1>2. ASSUME NEW c \in CId, Stored(c)' PROVE ChunkFile(c) \in remote'
  <2>1. Stored(c) \/ ChunkFile(c) \in remote'
    BY <1>2, ChunkSteps DEF ChunkChange, ChunkStays, ActivatedBy, DeletedBy, Stored
  <2> QED BY <2>1, LiveAreNotDead, OnlyDeadGo DEF FileInv, FilesAreThere
<1>3. ASSUME NEW s \in Slot, job'[s].pc = "swapping", NEW p \in DOMAIN job'[s].out
      PROVE  MainFile(p) \in remote'
  <2>1. CASE job'[s] = job[s]
    <3>1. MainFile(p) \in remote /\ p \in Kids(s)
      BY <1>3, <2>1 DEF FileInv, FilesAreThere, Kids
    <3> QED BY <3>1, LiveAreNotDead, OnlyDeadGo
  <2>2. CASE job'[s] # job[s]
    <3>1. job[s].pc = "merging" /\ \E cuts : Writes(s, cuts)
      BY <1>3, <2>2, SplitSteps
    <3>2. PICK cuts : Writes(s, cuts)
      BY <3>1
    <3>3. p \in UsedKids(job[s], cuts)
      BY <1>3, <3>2 DEF Writes, SplitAt, Shape
    <3> QED BY <3>2, <3>3 DEF Writes
  <2> QED BY <2>1, <2>2
<1> QED BY <1>1, <1>2, <1>3 DEF FilesAreThere, HasMainFile, Active, Stored, MainFile, ChunkFile

\* What is in the queue to be removed is dead.
LEMMA DeadStayCollected ==
  ASSUME Shape, FileInv, Next
  PROVE  DeadAreCollected'
<1>1. ASSUME NEW c \in CId, <<"deleted", c>> \in events' PROVE chunk'[c].state = "deleted"
  <2>1. CASE chunk[c].state = "deleted"
    BY <2>1, ChunkSteps DEF ChunkChange, ChunkStays, ActivatedBy, DeletedBy, Stored
  <2> QED BY <1>1, <2>1, EventSteps DEF FileInv, DeadAreCollected
<1>2. ASSUME NEW u \in gc', u.kind = "file" PROVE Dead(u.id)'
  <2>1. ASSUME Dead(u.id) PROVE Dead(u.id)'
    BY <2>1, DeadStay
  <2>2. ASSUME NEW t \in gc, u.kind = t.kind, u.id = t.id PROVE Dead(u.id)
    BY <1>2, <2>2 DEF FileInv, DeadAreCollected
  <2>3. ASSUME NEW p \in PId, u.id = MainFile(p), partition[p].rows # {},
               partition[p].state = "inactive"
        PROVE  Dead(u.id)
    BY <2>3 DEF Dead
  <2>4. ASSUME NEW c \in CId, u.id = ChunkFile(c), <<"deleted", c>> \in events
        PROVE  Dead(u.id)
    BY <2>4 DEF Dead, FileInv, DeadAreCollected
  <2> QED BY <1>2, <2>1, <2>2, <2>3, <2>4, TaskSteps DEF TaskChange
<1> QED BY <1>1, <1>2 DEF DeadAreCollected

\* The removal of a file waits for the selects that need it.
LEMMA RemovalsStillWait ==
  ASSUME Shape, FileInv, Next
  PROVE  RemovalsWait'
<1> SUFFICES ASSUME NEW u \in gc', NEW r \in Reader, u.kind = "file", u.id \in sel'[r]
             PROVE  r \in u.wait
  BY DEF RemovalsWait
<1>1. CASE sel'[r] = VisibleFiles /\ UNCHANGED <<data, job, gc>>
  BY <1>1, LiveAreNotDead DEF FileInv, DeadAreCollected
<1>2. CASE sel'[r] = sel[r]
  <2>1. CASE u \in gc
    BY <1>2, <2>1 DEF FileInv, RemovalsWait
  <2>2. ASSUME NEW t \in gc, NEW who, u.kind = t.kind, u.id = t.id, u.wait = t.wait \ {who},
               Ends(who)
        PROVE  r \in u.wait
    <3>1. r \in t.wait
      BY <1>2, <2>2 DEF FileInv, RemovalsWait
    <3>2. who # r
      BY <2>2, PartitionsAssumption DEF Ends, Holder
    <3> QED BY <2>2, <3>1, <3>2
  <2>3. CASE u.wait \in {AfterQueries, AfterJobs}
    BY <1>2, <2>3 DEF AfterQueries, AfterJobs, Readers
  <2> QED BY <2>1, <2>2, <2>3, TaskSteps DEF TaskChange
<1> QED BY <1>1, <1>2, SelectSteps

\* A select that runs finds its files, because a removal that is due waits for no one.
LEMMA SelectsStillFind ==
  ASSUME Shape, FileInv, Next
  PROVE  SelectFindsItsFiles'
<1> SUFFICES ASSUME NEW r \in Reader, NEW f \in sel'[r] PROVE f \in remote'
  BY DEF SelectFindsItsFiles
<1>1. CASE sel'[r] = VisibleFiles /\ UNCHANGED <<data, job, gc>>
  BY <1>1 DEF FileInv, FilesAreThere, VisibleFiles, Live, Stored, data
<1>2. CASE sel'[r] = sel[r]
  <2>1. f \in remote
    BY <1>2 DEF FileInv, SelectFindsItsFiles
  <2>2. ASSUME NEW t \in gc, Due(t), t.kind = "file", t.id = f PROVE FALSE
    BY <1>2, <2>2 DEF Due, FileInv, RemovalsWait
  <2> QED BY <2>1, <2>2, RemoteSteps
<1> QED BY <1>1, <1>2, SelectSteps

\* The invariant of the files.
LEMMA FileInvHolds == Spec => [](Shape /\ FileInv)
<1>1. Init => Shape /\ FileInv
  BY InitShape, InitFiles
<1>2. Shape /\ FileInv /\ [Next]_vars => (Shape /\ FileInv)'
  <2>1. ASSUME Shape, FileInv, Next PROVE FileInv'
    <3>1. KidsAreFresh' /\ FilesAreThere' /\ DeadAreCollected'
      BY <2>1, KidsStayFresh, FilesStayThere, DeadStayCollected
    <3>2. RemovalsWait' /\ SelectFindsItsFiles'
      BY <2>1, RemovalsStillWait, SelectsStillFind
    <3> QED BY <3>1, <3>2 DEF FileInv
  <2>2. ASSUME FileInv, UNCHANGED vars PROVE FileInv'
    BY <2>2 DEF vars, FileInv, KidsAreFresh, Kids, Fresh, FilesAreThere, HasMainFile, Active,
           Stored, DeadAreCollected, Dead, RemovalsWait, SelectFindsItsFiles, MainFile, ChunkFile
  <2> QED BY <2>1, <2>2, ShapeStep
<1> QED BY <1>1, <1>2, PTL DEF Spec

\* A select that was planned finds all of its files until it ends, for any number of
\* selects, compactions, failures and collections: nothing that the metastore still
\* needs is in the queue of removals, and a removal waits for every select that was
\* planned before the file became garbage.
THEOREM SelectsFindTheirFiles == Spec => []SelectFindsItsFiles
<1>1. Shape /\ FileInv => SelectFindsItsFiles
  BY DEF FileInv
<1> QED BY <1>1, FileInvHolds, PTL

-----------------------------------------------------------------------------
(* Chunks *)

\* A chunk that an insert or a repartition holds is not active yet, and no one
\* else holds it.
LEMMA HeldStayCreated ==
  ASSUME Shape, ChunkInv, Next, ~SlowInserts
  PROVE  HeldAreCreated'
<1>0. \A x \in Holder : Held(x) \in SUBSET CId /\ Held(x)' \in SUBSET CId
  <2>1. ASSUME NEW x \in Holder PROVE Held(x) \in SUBSET CId
    BY <2>1, JobCases DEF Held, Holder, Shape, InsertState
  <2>2. Shape'
    BY ShapeStep
  <2>3. ASSUME NEW x \in Holder PROVE Held(x)' \in SUBSET CId
    <3>1. x \in Insert => (ins'[x].pc = "uploaded" => ins'[x].chunks \in SUBSET CId)
      BY <2>2 DEF Shape, InsertState
    <3>2. x \in Slot => job'[x] \in {Idle} \cup Compaction \cup Repartition
      BY <2>2 DEF Shape
    <3>3. x \in Slot => (job'[x].pc = "moving" => job'[x].chunks \in SUBSET CId)
      BY <3>2 DEF Idle, Compaction, Repartition
    <3> QED BY <3>1, <3>3 DEF Held, Holder
  <2> QED BY <2>1, <2>3
<1>1. ASSUME NEW x \in Holder, NEW c \in Held(x)' PROVE chunk'[c].state = "created"
  <2>0. c \in CId /\ HeldChange(x, c)
    BY <1>0, HeldSteps
  <2>1. CASE c \in Held(x)
    <3>1. chunk[c].state = "created"
      BY <2>1 DEF ChunkInv, HeldAreCreated
    <3>2. ASSUME NEW y \in Holder, ActivatedBy(y, c) PROVE FALSE
      <4>1. x = y
        BY <2>1, <3>2 DEF ActivatedBy, ChunkInv, HeldAreCreated
      <4> QED BY <3>2, <4>1 DEF ActivatedBy
    <3>3. ASSUME NEW t \in gc, DeletedBy(t, c) PROVE FALSE
      BY <2>1, <3>3 DEF DeletedBy, Due, ChunkInv, DeletionsWait
    <3> QED BY <2>0, <3>1, <3>2, <3>3, ChunkSteps DEF ChunkChange, ChunkStays
  <2>2. CASE c \notin Held(x)
    BY <2>0, <2>2 DEF HeldChange
  <2> QED BY <2>1, <2>2
<1>2. ASSUME NEW x \in Holder, NEW y \in Holder, x # y, NEW c \in Held(x)', c \in Held(y)'
      PROVE  FALSE
  <2>1. HeldChange(x, c) /\ HeldChange(y, c)
    BY <1>2, HeldSteps
  <2>2. \A z \in Holder : c \in Held(z) => chunk[c].state # "free"
    BY DEF ChunkInv, HeldAreCreated
  <2>3. c \notin Held(x) \/ c \notin Held(y)
    BY <1>2 DEF ChunkInv, HeldAreCreated
  <2> QED BY <1>2, <2>1, <2>2, <2>3 DEF HeldChange
<1> QED BY <1>1, <1>2 DEF HeldAreCreated

\* Who holds a chunk has not ended, and is waited for by what is scheduled now.
LEMMA HoldersAreTasks ==
  ASSUME ~SlowInserts, NEW x \in Holder, NEW c \in Held(x)
  PROVE  x \in AfterJobs
<1>1. CASE x \in Insert
  BY <1>1 DEF Held, AfterJobs, Inserting
<1>2. CASE x \in Slot /\ x \notin Insert
  BY <1>2 DEF Held, AfterJobs, Working
<1> QED BY <1>1, <1>2 DEF Holder

\* The deletion of a chunk waits for who would activate it, and comes after a look
\* at its state that stays true.
LEMMA DeletionsStillWait ==
  ASSUME Shape, ChunkInv, Next, ~SlowInserts
  PROVE  DeletionsWait'
<1> SUFFICES ASSUME NEW u \in gc', u.kind = "chunk"
             PROVE  /\ chunk'[u.id].state # "free"
                    /\ \A x \in Holder : u.id \in Held(x)' => x \in u.wait
                    /\ u.checked => u.wait = {} /\ ~Live(u.id)'
  BY DEF DeletionsWait
<1>0. u.id \in CId
  <2>1. gc' \subseteq Garbage
    BY ShapeStep DEF Shape
  <2>2. u \in Garbage
    BY <2>1
  <2> QED BY <2>2 DEF Garbage
\* Where the queue held the task before, with a wait for someone who did not end
<1>1. ASSUME NEW t \in gc, t.kind = "chunk", t.id = u.id, u.checked => t.checked,
             u.wait \subseteq t.wait,
             \A x \in Holder : x \in t.wait /\ x \notin u.wait => Held(x)' = {}
      PROVE  /\ chunk'[u.id].state # "free"
             /\ \A x \in Holder : u.id \in Held(x)' => x \in u.wait
             /\ u.checked => u.wait = {} /\ ~Live(u.id)'
  <2>1. /\ chunk[u.id].state # "free"
        /\ \A x \in Holder : u.id \in Held(x) => x \in t.wait
        /\ t.checked => t.wait = {} /\ ~Live(u.id)
    BY <1>1 DEF ChunkInv, DeletionsWait
  <2>2. chunk'[u.id].state # "free"
    BY <1>0, <2>1, ChunkSteps DEF ChunkChange, ChunkStays, ActivatedBy, DeletedBy
  <2>3. ASSUME NEW x \in Holder, u.id \in Held(x)' PROVE x \in u.wait
    <3>1. u.id \in Held(x)
      BY <2>1, <2>3, HeldSteps DEF HeldChange
    <3> QED BY <1>1, <2>1, <2>3, <3>1
  <2>4. ASSUME u.checked PROVE u.wait = {} /\ ~Live(u.id)'
    <3>1. t.wait = {} /\ ~Live(u.id)
      BY <1>1, <2>1, <2>4
    <3>2. ASSUME NEW x \in Holder, ActivatedBy(x, u.id) PROVE FALSE
      BY <2>1, <3>1, <3>2 DEF ActivatedBy
    <3>3. chunk'[u.id].state # "active"
      BY <1>0, <3>1, <3>2, ChunkSteps DEF ChunkChange, ChunkStays, DeletedBy, Live
    <3> QED BY <1>1, <3>1, <3>3 DEF Live
  <2> QED BY <2>2, <2>3, <2>4
<1>2. CASE u \in gc
  BY <1>1, <1>2
<1>3. ASSUME NEW t \in gc, NEW who, u.kind = t.kind, u.id = t.id, u.checked = t.checked,
             u.wait = t.wait \ {who}, Ends(who)
      PROVE  /\ chunk'[u.id].state # "free"
             /\ \A x \in Holder : u.id \in Held(x)' => x \in u.wait
             /\ u.checked => u.wait = {} /\ ~Live(u.id)'
  <2>1. \A x \in Holder : x \in t.wait /\ x \notin u.wait => Held(x)' = {}
    BY <1>3, PartitionsAssumption DEF Ends, Holder
  <2> QED BY <1>1, <1>3, <2>1
<1>4. ASSUME UNCHANGED <<data, tasks>>
      PROVE  /\ chunk' = chunk
             /\ \A x \in Holder : Held(x)' = Held(x)
  BY <1>4 DEF Held, data, tasks
<1>5. ASSUME UNCHANGED <<data, tasks>>, NEW t \in gc, Due(t), t.kind = "chunk", u.id = t.id,
             u.wait = {}, ~Live(u.id)
      PROVE  /\ chunk'[u.id].state # "free"
             /\ \A x \in Holder : u.id \in Held(x)' => x \in u.wait
             /\ u.checked => u.wait = {} /\ ~Live(u.id)'
  BY <1>4, <1>5 DEF ChunkInv, DeletionsWait, Due, Live
<1>6. ASSUME UNCHANGED <<data, tasks>>, ~u.checked,
             \/ chunk[u.id].state = "inactive"
             \/ chunk[u.id].state = "created" /\ u.wait = AfterJobs
      PROVE  /\ chunk'[u.id].state # "free"
             /\ \A x \in Holder : u.id \in Held(x)' => x \in u.wait
             /\ u.checked => u.wait = {} /\ ~Live(u.id)'
  <2>1. ASSUME NEW x \in Holder, u.id \in Held(x) PROVE x \in u.wait
    BY <1>6, <2>1, HoldersAreTasks DEF ChunkInv, HeldAreCreated
  <2> QED BY <1>4, <1>6, <2>1
<1> QED BY <1>2, <1>3, <1>5, <1>6, TaskSteps DEF TaskChange

\* The invariant of the chunks.
LEMMA ChunkInvHolds == ASSUME ~SlowInserts PROVE Spec => [](Shape /\ ChunkInv)
<1>1. Init => Shape /\ ChunkInv
  <2>1. Init => ChunkInv
    BY SlotsAreNoInserts
       DEF Init, ChunkInv, HeldAreCreated, DeletionsWait, Held, Holder, NotInserted, Idle
  <2> QED BY <2>1, InitShape
<1>2. Shape /\ ChunkInv /\ [Next]_vars => (Shape /\ ChunkInv)'
  <2>1. ASSUME Shape, ChunkInv, Next PROVE ChunkInv'
    BY <2>1, HeldStayCreated, DeletionsStillWait DEF ChunkInv
  <2>2. ASSUME ChunkInv, UNCHANGED vars PROVE ChunkInv'
    BY <2>2 DEF vars, ChunkInv, HeldAreCreated, DeletionsWait, Held, Live
  <2> QED BY <2>1, <2>2, ShapeStep
<1> QED BY <1>1, <1>2, PTL DEF Spec

\* An active chunk is not deleted, although its deletion does not look at its state
\* again: when no insert outlasts the delay of the garbage collection, the chunk had
\* nobody left to activate it when its state was looked at.
THEOREM ActiveChunksAreKept == ASSUME ~SlowInserts PROVE Spec => ActiveChunksStay
<1>1. ASSUME Shape, ChunkInv, Next, NEW c \in CId, Live(c) PROVE chunk[c]'.state # "deleted"
  <2>1. ASSUME NEW t \in gc, DeletedBy(t, c) PROVE FALSE
    BY <1>1, <2>1 DEF DeletedBy, ChunkInv, DeletionsWait
  <2> QED BY <1>1, <2>1, ChunkSteps DEF ChunkChange, ChunkStays, ActivatedBy, Live
<1>2. Shape /\ ChunkInv /\ [Next]_vars
        => [\A c \in CId : Live(c) => chunk[c]'.state # "deleted"]_chunk
  BY <1>1 DEF vars
<1> QED BY <1>2, ChunkInvHolds, PTL DEF Spec, ActiveChunksStay

-----------------------------------------------------------------------------
(* The hierarchy *)

\* Chunks belong to a partition, and partitions to one that was created before.
WholeInv ==
  /\ HierarchyIsWhole
  /\ \A c \in CId : chunk[c].state # "free" => chunk[c].part \in PId
  /\ \A p \in PId : Exists(p) => partition[p].parent < p

\* Parents are partitions.
LEMMA ParentIsPartition ==
  ASSUME Shape, NEW p \in PId
  PROVE  partition[p].parent \in {0} \cup PId
BY DEF Shape, PartitionRecord

\* What a step does to the partition of a chunk
PlaceChange(c) ==
  \/ /\ chunk'[c].part = chunk[c].part /\ chunk[c].state # "free"
     /\ Live(c)' => Live(c) \/ (Exists(chunk[c].part) /\ UNCHANGED partition)
  \/ chunk'[c].state = "free"
  \/ chunk'[c].state = "created" /\ chunk'[c].part \in PId
  \/ /\ chunk'[c].part \in PId /\ partition'[chunk'[c].part].state = "active"
     /\ chunk[c].state # "free"

\* Chunks just created belong to one of the partitions.
LEMMA NewChunksPlace ==
  ASSUME Shape, NEW ps \in SUBSET PId, NEW rows \in SUBSET Row, Routable(ps, rows),
         NEW news, news = NewChunks(ps, rows), Ids(news) \subseteq CId,
         chunk' = WithChunks(news), NEW c \in CId
  PROVE  PlaceChange(c)
<1>1. /\ \A n \in news : n.id \in CId /\ n.part \in ps
      /\ \A n, m \in news : n # m => n.id # m.id
  <2>1. Spread(ps, rows, news)
    BY NewChunksFacts
  <2> QED BY <2>1 DEF Spread
<1>2. /\ \A n \in news : n.id \in CId =>
           chunk'[n.id] = [state |-> "created", part |-> n.part, rows |-> n.rows]
      /\ \A d \in CId \ Ids(news) : chunk'[d] = chunk[d]
  BY <1>1, WithChunksFacts
<1>3. CASE c \in Ids(news)
  <2>1. PICK n \in news : c = n.id
    BY <1>3 DEF Ids
  <2>2. chunk'[c] = [state |-> "created", part |-> n.part, rows |-> n.rows]
    BY <1>2, <2>1
  <2>3. chunk'[c].state = "created" /\ chunk'[c].part \in PId
    BY <1>1, <2>2
  <2> QED BY <2>3 DEF PlaceChange
<1>4. CASE c \notin Ids(news)
  BY <1>2, <1>4 DEF PlaceChange, Live
<1> QED BY <1>3, <1>4

\* A chunk keeps its partition, or moves to the only child of a compaction.
LEMMA PlaceSteps ==
  ASSUME Shape, Next, NEW c \in CId
  PROVE  PlaceChange(c)
<1>1. ASSUME UNCHANGED chunk PROVE PlaceChange(c)
  BY <1>1 DEF PlaceChange, Live
<1>2. ASSUME NEW i \in Insert, InsertUpload(i) PROVE PlaceChange(c)
  <2>1. ins[i].parts \in SUBSET PId
    BY <1>2 DEF InsertUpload, Shape, InsertState
  <2> DEFINE news == NewChunks(ins[i].parts, RowsOf(i))
  <2>2. ASSUME Routable(ins[i].parts, RowsOf(i))
        PROVE  Ids(news) \subseteq CId /\ chunk' = WithChunks(news)
    BY <1>2, <2>2 DEF InsertUpload
  <2> HIDE DEF news
  <2>3. CASE Routable(ins[i].parts, RowsOf(i))
    BY <2>1, <2>2, <2>3, RowsOfAreRows, NewChunksPlace DEF news
  <2>4. CASE ~Routable(ins[i].parts, RowsOf(i))
    BY <1>1, <1>2, <2>4 DEF InsertUpload
  <2> QED BY <2>3, <2>4
<1>3. ASSUME NEW s \in Slot, RepartitionUpload(s) PROVE PlaceChange(c)
  <2>1. job[s].parts \in SUBSET PId /\ chunk[job[s].chunk].rows \in SUBSET Row
    BY <1>3, JobCases DEF RepartitionUpload, Shape
  <2> DEFINE news == NewChunks(job[s].parts, chunk[job[s].chunk].rows)
  <2>2. ASSUME Routable(job[s].parts, chunk[job[s].chunk].rows)
        PROVE  Ids(news) \subseteq CId /\ chunk' = WithChunks(news)
    BY <1>3, <2>2 DEF RepartitionUpload
  <2> HIDE DEF news
  <2>3. CASE Routable(job[s].parts, chunk[job[s].chunk].rows)
    BY <2>1, <2>2, <2>3, NewChunksPlace DEF news
  <2>4. CASE ~Routable(job[s].parts, chunk[job[s].chunk].rows)
    BY <1>1, <1>3, <2>4 DEF RepartitionUpload
  <2> QED BY <2>3, <2>4
<1>4. ASSUME NEW i \in Insert, InsertActivate(i) PROVE PlaceChange(c)
  <2>1. CASE CanActivate(ins[i].chunks) /\ c \in ins[i].chunks
    BY <1>4, <2>1 DEF InsertActivate, CanActivate, SetState, Stored, PlaceChange, Shape
  <2>2. CASE ~(CanActivate(ins[i].chunks) /\ c \in ins[i].chunks)
    <3>1. chunk'[c] = chunk[c]
      BY <1>4, <2>2 DEF InsertActivate, SetState
    <3> QED BY <3>1 DEF PlaceChange, Live
  <2> QED BY <2>1, <2>2
<1>5. ASSUME NEW s \in Slot, CompactSwap(s) PROVE PlaceChange(c)
  <2>1. CASE CanSwapPartitions(job[s])
    <3>0. chunk' = SwappedChunks(job[s]) /\ partition' = SwappedPartitions(job[s])
      BY <1>5, <2>1 DEF CompactSwap
    <3>1. CASE c \in job[s].chunks
      BY <2>1, <3>0, <3>1 DEF SwappedChunks, CanSwapPartitions, Live, PlaceChange, Shape
    <3>2. CASE c \notin job[s].chunks /\ TakesOver(job[s]) /\ c \in ChunksOf(job[s].part)
      <4> DEFINE q == Min(DOMAIN job[s].out)
      <4>1. DOMAIN job[s].out \in SUBSET PId
        BY <1>5, JobCases, SplitFacts DEF CompactSwap
      <4>2. IsFiniteSet(DOMAIN job[s].out) /\ DOMAIN job[s].out # {}
        BY <3>2, <4>1, PIdFinite, FS_EmptySet DEF TakesOver
      <4>3. q \in DOMAIN job[s].out /\ q \in PId
        BY <4>1, <4>2, PIdFinite, FiniteHasMin
      <4>4. partition[q].state = "inactive" /\ partition[job[s].part].state = "active"
        BY <2>1, <4>3 DEF CanSwapPartitions, Active
      <4>5. PartitionRecord(partition[q])
        BY <4>3 DEF Shape
      <4>6. partition'[q].state = "active"
        BY <3>0, <4>3, <4>4, <4>5 DEF SwappedPartitions, PartitionRecord
      <4>7. chunk'[c].part = q /\ chunk[c].state # "free"
        BY <3>0, <3>2 DEF SwappedChunks, ChunksOf, Stored, Shape
      <4> HIDE DEF q
      <4> QED BY <4>3, <4>6, <4>7 DEF PlaceChange
    <3>3. CASE c \notin job[s].chunks /\ ~(TakesOver(job[s]) /\ c \in ChunksOf(job[s].part))
      <4>1. chunk'[c] = chunk[c]
        BY <3>0, <3>3 DEF SwappedChunks
      <4> QED BY <4>1 DEF PlaceChange, Live
    <3> QED BY <3>1, <3>2, <3>3
  <2>2. CASE ~CanSwapPartitions(job[s])
    BY <1>1, <1>5, <2>2 DEF CompactSwap
  <2> QED BY <2>1, <2>2
<1>6. ASSUME NEW s \in Slot, RepartitionSwap(s) PROVE PlaceChange(c)
  <2>1. CASE ~CanSwapChunks(job[s])
    BY <1>1, <1>6, <2>1 DEF RepartitionSwap
  <2>2. CASE CanSwapChunks(job[s]) /\ c = job[s].chunk
    BY <1>6, <2>2 DEF RepartitionSwap, CanSwapChunks, Live, PlaceChange, Shape
  <2>3. CASE CanSwapChunks(job[s]) /\ c # job[s].chunk /\ c \in job[s].chunks
    BY <1>6, <2>3 DEF RepartitionSwap, CanSwapChunks, Stored, PlaceChange, Shape
  <2>4. CASE CanSwapChunks(job[s]) /\ c # job[s].chunk /\ c \notin job[s].chunks
    BY <1>6, <2>4 DEF RepartitionSwap, Live, PlaceChange, Shape
  <2> QED BY <2>1, <2>2, <2>3, <2>4
<1>7. ASSUME NEW t \in gc, DeleteChunk(t) PROVE PlaceChange(c)
  BY <1>7 DEF DeleteChunk, SetState, Stored, Live, PlaceChange, Shape
<1>8. ASSUME NEW i \in Insert, InsertRoute(i) \/ InsertFails(i) PROVE PlaceChange(c)
  BY <1>1, <1>8 DEF InsertRoute, InsertFails, data
<1>9. ASSUME NEW s \in Slot, \/ \E q \in PId : CompactRead(s, q)
                             \/ \E d \in CId : RepartitionRead(s, d)
                             \/ JobFails(s) \/ CompactPlan(s) \/ CompactWrite(s)
      PROVE  PlaceChange(c)
  BY <1>1, <1>9 DEF CompactRead, RepartitionRead, JobFails, CompactPlan, CompactWrite, data
<1>10. ASSUME NEW r \in Reader, SelectPlan(r) \/ SelectEnd(r) PROVE PlaceChange(c)
  BY <1>1, <1>10 DEF SelectPlan, SelectEnd, data
<1>11. ASSUME (\E e \in events : HandleEvent(e)) \/ Reconciles \/ SchedulerRestart
       PROVE  PlaceChange(c)
  BY <1>1, <1>11, ReconcileCases DEF HandleEvent, SchedulerRestart, data
<1>12. ASSUME NEW t \in gc, \/ CheckChunk(t) \/ RemoveRemoteFile(t)
                            \/ DeletePartition(t) \/ DeleteMiddleManPartition(t)
       PROVE  PlaceChange(c)
  BY <1>1, <1>12
     DEF CheckChunk, RemoveRemoteFile, DeletePartition, DeleteMiddleManPartition, data
<1> QED
  BY <1>2, <1>3, <1>4, <1>5, <1>6, <1>7, <1>8, <1>9, <1>10, <1>11, <1>12, NextCases
     DEF InsertStep, RepartitionStep, GcStep

\* Steps that leave the partitions alone.
LEMMA PartitionsUntouched ==
  ASSUME Next
  PROVE  \/ UNCHANGED partition
         \/ \E s \in Slot : CompactPlan(s) \/ CompactWrite(s) \/ CompactSwap(s)
         \/ \E t \in gc : DeletePartition(t) \/ DeleteMiddleManPartition(t)
<1>1. ASSUME NEW i \in Insert, InsertStep(i) \/ InsertFails(i) PROVE UNCHANGED partition
  BY <1>1 DEF InsertStep, InsertFails, InsertRoute, InsertUpload, InsertActivate, data
<1>2. ASSUME NEW s \in Slot, \/ \E q \in PId : CompactRead(s, q)
                             \/ \E c \in CId : RepartitionRead(s, c)
                             \/ JobFails(s) \/ RepartitionStep(s)
      PROVE  UNCHANGED partition
  BY <1>2 DEF CompactRead, RepartitionRead, JobFails, RepartitionStep, RepartitionUpload,
              RepartitionSwap, data
<1>3. ASSUME NEW r \in Reader, SelectPlan(r) \/ SelectEnd(r) PROVE UNCHANGED partition
  BY <1>3 DEF SelectPlan, SelectEnd, data
<1>4. ASSUME (\E e \in events : HandleEvent(e)) \/ Reconciles \/ SchedulerRestart
      PROVE  UNCHANGED partition
  BY <1>4, ReconcileCases DEF HandleEvent, SchedulerRestart, data
<1>5. ASSUME NEW t \in gc, CheckChunk(t) \/ DeleteChunk(t) \/ RemoveRemoteFile(t)
      PROVE  UNCHANGED partition
  BY <1>5 DEF CheckChunk, DeleteChunk, RemoveRemoteFile, data
<1> QED BY <1>1, <1>2, <1>3, <1>4, <1>5, NextCases DEF GcStep

\* A swap changes states, rows and bounds, and no parent.
LEMMA SwappedFacts ==
  ASSUME Shape, NEW j, NEW p \in PId
  PROVE  /\ SwappedPartitions(j)[p].parent = partition[p].parent
         /\ p = j.part => SwappedPartitions(j)[p].state = "inactive"
         /\ p # j.part /\ p \in DOMAIN j.out => SwappedPartitions(j)[p].state = "active"
         /\ p # j.part /\ p \notin DOMAIN j.out => SwappedPartitions(j)[p] = partition[p]
<1>0. PartitionRecord(partition[p])
  BY DEF Shape
<1>1. CASE p = j.part
  BY <1>0, <1>1 DEF SwappedPartitions, PartitionRecord
<1>2. CASE p # j.part /\ p \in DOMAIN j.out
  BY <1>0, <1>2 DEF SwappedPartitions, PartitionRecord
<1>3. CASE p # j.part /\ p \notin DOMAIN j.out
  BY <1>3 DEF SwappedPartitions
<1> QED BY <1>1, <1>2, <1>3

\* A partition is deleted when it has no chunks.
LEMMA DeletedHasNoChunks ==
  ASSUME Shape, Next, NEW p \in PId, Exists(p), ~Exists(p)'
  PROVE  ChunksOf(p) = {} /\ UNCHANGED chunk
<1>1. ASSUME NEW s \in Slot, CompactPlan(s) PROVE FALSE
  BY <1>1, CompactPlanCases DEF Plans, Exists, NewChild, NoPartition
<1>2. ASSUME NEW s \in Slot, CompactWrite(s) PROVE ChunksOf(p) = {} /\ UNCHANGED chunk
  <2>1. ASSUME NEW cuts, Writes(s, cuts)
        PROVE  ChunksOf(p) = {}
    BY <2>1 DEF Writes, Exists, CanDropChildren
  <2> QED BY <1>2, <2>1, CompactWriteCases DEF CompactWrite, Exists
<1>3. ASSUME NEW s \in Slot, CompactSwap(s) PROVE FALSE
  <2>1. partition' = SwappedPartitions(job[s]) \/ partition' = partition
    BY <1>3 DEF CompactSwap
  <2> QED BY <2>1, SwappedFacts DEF Exists
<1>4. ASSUME NEW t \in gc, DeletePartition(t) PROVE ChunksOf(p) = {} /\ UNCHANGED chunk
  <2>1. p = t.id /\ CanDropChildren({t.id})
    BY <1>4 DEF DeletePartition, Exists, Shape
  <2> QED BY <1>4, <2>1 DEF DeletePartition, CanDropChildren
<1>5. ASSUME NEW t \in gc, DeleteMiddleManPartition(t) PROVE ChunksOf(p) = {} /\ UNCHANGED chunk
  <2>1. PartitionRecord(partition[p])
    BY DEF Shape
  <2>2. p = t.id /\ MiddleMan(t.id)
    BY <1>5, <2>1 DEF DeleteMiddleManPartition, Exists, PartitionRecord
  <2> QED BY <1>5, <2>2 DEF DeleteMiddleManPartition, MiddleMan
<1> QED BY <1>1, <1>2, <1>3, <1>4, <1>5, PartitionsUntouched DEF Exists

\* A step that deletes partitions without children, and changes no parent, leaves no
\* orphan.
LEMMA DropKeepsParents ==
  ASSUME Shape, WholeInv, NEW gone,
         \A p \in PId : p \in gone => ChildrenOf(p) = {},
         \A p \in PId : partition'[p].parent = partition[p].parent,
         \A p \in PId : p \notin gone => (Exists(p)' <=> Exists(p)),
         \A p \in PId : p \in gone => ~Exists(p)',
         NEW p \in PId, Exists(p)'
  PROVE  HasItsParent(p)' /\ partition'[p].parent < p
<1>1. p \notin gone /\ Exists(p) /\ HasItsParent(p) /\ partition[p].parent < p
  BY DEF WholeInv, HierarchyIsWhole
<1>2. CASE partition[p].parent = 0
  BY <1>1, <1>2 DEF HasItsParent
<1>3. CASE partition[p].parent # 0
  <2>1. PICK q \in PId : q = partition[p].parent
    BY <1>3, ParentIsPartition
  <2>2. Exists(q)
    BY <1>1, <1>3, <2>1 DEF HasItsParent
  <2>3. p \in ChildrenOf(q)
    BY <1>1, <2>1 DEF ChildrenOf
  <2>4. Exists(q)'
    BY <2>2, <2>3
  <2>5. partition'[p].parent = q
    BY <2>1
  <2> QED BY <1>1, <2>1, <2>4, <2>5 DEF HasItsParent, Exists
<1> QED BY <1>2, <1>3

\* No partition loses its parent.
LEMMA ParentsStay ==
  ASSUME Shape, WholeInv, Next, NEW p \in PId, Exists(p)'
  PROVE  HasItsParent(p)' /\ partition'[p].parent < p
<1>0. \A q \in PId : PartitionRecord(partition[q])
  BY DEF Shape
<1>1. ASSUME UNCHANGED partition PROVE HasItsParent(p)' /\ partition'[p].parent < p
  BY <1>1 DEF WholeInv, HierarchyIsWhole, HasItsParent, Exists
<1>2. ASSUME NEW s \in Slot, CompactPlan(s)
      PROVE  HasItsParent(p)' /\ partition'[p].parent < p
  <2>1. ASSUME NEW cs \in SUBSET CId, NEW kids \in SUBSET PId, Plans(s, cs, kids)
        PROVE  HasItsParent(p)' /\ partition'[p].parent < p
    <3>1. job[s].part \in PId /\ Exists(job[s].part)
      <4>1. PICK c \in CId : c \in LiveChunksOf(job[s].part)
        BY <2>1 DEF Plans
      <4> QED BY <1>2, <4>1, JobCases
              DEF CompactPlan, LiveChunksOf, ChunksOf, WholeInv, HierarchyIsWhole
    <3>2. \A q \in PId : Exists(q) => q \notin kids /\ partition'[q] = partition[q]
      BY <2>1 DEF Plans, Exists
    <3>3. CASE p \in kids
      <4>1. partition'[p] = NewChild(job[s].part)
        BY <2>1, <3>3 DEF Plans
      <4>2. partition'[p].parent = job[s].part
        BY <4>1 DEF NewChild, NoPartition
      <4>3. job[s].part < p
        <5>1. p > LastPartition
          BY <2>1, <3>3, LastPartitionIsLast, PartitionsAssumption DEF Plans
        <5>2. ~(job[s].part > LastPartition)
          BY <3>1, LastPartitionIsLast DEF Exists
        <5> QED BY <3>1, <5>1, <5>2, LastPartitionIsLast DEF PId
      <4>4. partition'[job[s].part] = partition[job[s].part]
        BY <3>1, <3>2
      <4> QED BY <3>1, <4>2, <4>3, <4>4 DEF HasItsParent, Exists
    <3>4. CASE p \notin kids
      <4>1. partition'[p] = partition[p]
        BY <2>1, <3>4 DEF Plans
      <4>2. Exists(p) /\ HasItsParent(p) /\ partition[p].parent < p
        BY <4>1 DEF Exists, WholeInv, HierarchyIsWhole
      <4>3. CASE partition[p].parent = 0
        BY <4>1, <4>2, <4>3 DEF HasItsParent
      <4>4. CASE partition[p].parent # 0
        <5>1. PICK q \in PId : q = partition[p].parent
          BY <4>4, ParentIsPartition
        <5>2. Exists(q) /\ partition'[q] = partition[q]
          BY <3>2, <4>2, <4>4, <5>1 DEF HasItsParent
        <5> QED BY <4>1, <4>2, <5>1, <5>2 DEF HasItsParent, Exists
      <4> QED BY <4>3, <4>4
    <3> QED BY <3>3, <3>4
  <2> QED BY <1>1, <1>2, <2>1, CompactPlanCases
<1>3. ASSUME NEW s \in Slot, CompactWrite(s)
      PROVE  HasItsParent(p)' /\ partition'[p].parent < p
  <2>1. ASSUME NEW cuts, Writes(s, cuts)
        PROVE  HasItsParent(p)' /\ partition'[p].parent < p
    <3> DEFINE gone == job[s].kids \ UsedKids(job[s], cuts)
    <3>1. \A q \in PId : q \in gone => ChildrenOf(q) = {}
      BY <2>1 DEF Writes, CanDropChildren
    <3>2. \A q \in PId : partition'[q].parent = partition[q].parent
      BY <1>0, <2>1 DEF Writes, PartitionRecord
    <3>3. \A q \in PId : q \notin gone => (Exists(q)' <=> Exists(q))
      BY <2>1 DEF Writes, Exists
    <3>4. \A q \in PId : q \in gone => ~Exists(q)'
      BY <1>0, <2>1 DEF Writes, Exists, PartitionRecord
    <3> HIDE DEF gone
    <3> QED BY <3>1, <3>2, <3>3, <3>4, DropKeepsParents
  <2> QED BY <1>1, <1>3, <2>1, CompactWriteCases
<1>4. ASSUME NEW s \in Slot, CompactSwap(s)
      PROVE  HasItsParent(p)' /\ partition'[p].parent < p
  <2>1. CASE CanSwapPartitions(job[s])
    <3>1. partition' = SwappedPartitions(job[s])
      BY <1>4, <2>1 DEF CompactSwap
    <3>2. \A q \in PId : partition'[q].parent = partition[q].parent
      BY <3>1, SwappedFacts
    <3>3. \A q \in PId : Exists(q)' <=> Exists(q)
      BY <2>1, <3>1, SwappedFacts DEF CanSwapPartitions, Active, Exists
    <3> DEFINE gone == {}
    <3>4. /\ \A q \in PId : q \in gone => ChildrenOf(q) = {}
          /\ \A q \in PId : q \notin gone => (Exists(q)' <=> Exists(q))
          /\ \A q \in PId : q \in gone => ~Exists(q)'
      BY <3>3
    <3> HIDE DEF gone
    <3> QED BY <3>2, <3>4, DropKeepsParents
  <2>2. CASE ~CanSwapPartitions(job[s])
    BY <1>1, <1>4, <2>2 DEF CompactSwap
  <2> QED BY <2>1, <2>2
<1>5. ASSUME NEW t \in gc, DeletePartition(t)
      PROVE  HasItsParent(p)' /\ partition'[p].parent < p
  <2>1. CASE CanDropChildren({t.id})
    <3>0. partition' = [partition EXCEPT ![t.id].state = "deleted"]
      BY <1>5, <2>1 DEF DeletePartition
    <3> DEFINE gone == {t.id}
    <3>1. \A q \in PId : q \in gone => ChildrenOf(q) = {}
      BY <2>1 DEF CanDropChildren
    <3>2. \A q \in PId : partition'[q].parent = partition[q].parent
      BY <1>0, <3>0 DEF PartitionRecord, Shape
    <3>3. \A q \in PId : q \notin gone => (Exists(q)' <=> Exists(q))
      BY <3>0 DEF Exists, Shape
    <3>4. \A q \in PId : q \in gone => ~Exists(q)'
      BY <1>0, <3>0 DEF Exists, PartitionRecord, Shape
    <3> HIDE DEF gone
    <3> QED BY <3>1, <3>2, <3>3, <3>4, DropKeepsParents
  <2>2. CASE ~CanDropChildren({t.id})
    BY <1>1, <1>5, <2>2 DEF DeletePartition
  <2> QED BY <2>1, <2>2
<1>6. ASSUME NEW t \in gc, DeleteMiddleManPartition(t)
      PROVE  HasItsParent(p)' /\ partition'[p].parent < p
  <2>1. CASE MiddleMan(t.id)
    <3>0. t.id \in PId
      <4>1. t \in Garbage
        BY DEF Shape
      <4> QED BY <1>6, <4>1 DEF DeleteMiddleManPartition, Garbage
    <3>1. partition' = [q \in PId |->
            IF q = t.id THEN [partition[q] EXCEPT !.state = "deleted"]
            ELSE IF q \in ChildrenOf(t.id)
                 THEN [partition[q] EXCEPT !.parent = partition[t.id].parent]
                 ELSE partition[q]]
      BY <1>6, <2>1 DEF DeleteMiddleManPartition
    <3>2. PICK g \in PId : g = partition[t.id].parent
      BY <2>1, <3>0, ParentIsPartition DEF MiddleMan
    <3>3. Exists(g) /\ g < t.id
      BY <2>1, <3>0, <3>2 DEF MiddleMan, WholeInv, Exists
    <3>4. \A q \in PId : q # t.id => (Exists(q)' <=> Exists(q))
      BY <1>0, <3>1 DEF Exists, PartitionRecord
    <3>5. p # t.id /\ Exists(p)
      <4>1. ~Exists(t.id)'
        BY <1>0, <3>0, <3>1 DEF Exists, PartitionRecord
      <4> QED BY <3>4, <4>1
    <3>6. HasItsParent(p) /\ partition[p].parent < p
      BY <3>5 DEF WholeInv, HierarchyIsWhole
    <3>7. CASE p \in ChildrenOf(t.id)
      <4>1. partition'[p].parent = g
        BY <1>0, <3>1, <3>2, <3>5, <3>7 DEF PartitionRecord
      <4>2. g # t.id
        BY <3>3 DEF PId
      <4>3. g < p
        BY <3>3, <3>6, <3>7, <3>0 DEF ChildrenOf, PId
      <4>4. partition[g].state \in {"inactive", "active"} => partition'[g].state \in {"inactive", "active"}
        BY <3>4, <4>2 DEF Exists
      <4> QED BY <3>3, <4>1, <4>3, <4>4 DEF HasItsParent, Exists
    <3>8. CASE p \notin ChildrenOf(t.id)
      <4>1. partition'[p] = partition[p] /\ partition[p].parent # t.id
        BY <3>1, <3>5, <3>8 DEF ChildrenOf
      <4>2. CASE partition[p].parent = 0
        BY <3>6, <4>1, <4>2 DEF HasItsParent
      <4>3. CASE partition[p].parent # 0
        <5>1. PICK q \in PId : q = partition[p].parent
          BY <4>3, ParentIsPartition
        <5>2. Exists(q) /\ q # t.id
          BY <3>6, <4>1, <4>3, <5>1 DEF HasItsParent
        <5>3. partition'[q].state \in {"inactive", "active"}
          BY <3>4, <5>2 DEF Exists
        <5> QED BY <3>6, <4>1, <5>1, <5>3 DEF HasItsParent, Exists
      <4> QED BY <4>2, <4>3
    <3> QED BY <3>7, <3>8
  <2>2. CASE ~MiddleMan(t.id)
    BY <1>1, <1>6, <2>2 DEF DeleteMiddleManPartition
  <2> QED BY <2>1, <2>2
<1> QED BY <1>1, <1>2, <1>3, <1>4, <1>5, <1>6, PartitionsUntouched

\* The invariant of the hierarchy.
LEMMA WholeInvHolds == Spec => [](Shape /\ WholeInv)
<1>1. Init => Shape /\ WholeInv
  <2>1. ASSUME Init PROVE WholeInv
    BY <2>1 DEF Init, WholeInv, HierarchyIsWhole, HasItsParent, Exists, Live, NoPartition,
                NoChunk, PId
  <2> QED BY <2>1, InitShape
<1>2. Shape /\ WholeInv /\ [Next]_vars => (Shape /\ WholeInv)'
  <2>1. ASSUME Shape, WholeInv, Next PROVE WholeInv'
    <3>1. ASSUME NEW p \in PId, Exists(p)' PROVE HasItsParent(p)' /\ partition'[p].parent < p
      BY <2>1, <3>1, ParentsStay
    <3>2. ASSUME NEW c \in CId, Live(c)' PROVE partition'[chunk'[c].part].state \in {"inactive", "active"}
      <4>0. PlaceChange(c)
        BY <2>1, PlaceSteps
      <4>1. CASE chunk'[c].part = chunk[c].part /\ Live(c)
        <5>1. chunk[c].part \in PId /\ Exists(chunk[c].part)
          BY <2>1, <4>1 DEF WholeInv, HierarchyIsWhole, Live
        <5>2. PICK q \in PId : q = chunk[c].part
          BY <5>1
        <5>3. Exists(q) /\ c \in ChunksOf(q)
          BY <4>1, <5>1, <5>2 DEF ChunksOf, Stored, Live
        <5>4. Exists(q)'
          BY <2>1, <5>3, DeletedHasNoChunks
        <5> QED BY <4>1, <5>2, <5>4 DEF Exists
      <4>2. CASE chunk'[c].part = chunk[c].part /\ Exists(chunk[c].part) /\ UNCHANGED partition
        BY <4>2 DEF Exists
      <4>3. CASE chunk'[c].state \in {"free", "created"}
        BY <3>2, <4>3 DEF Live
      <4>4. CASE partition'[chunk'[c].part].state = "active"
        BY <4>4
      <4> QED BY <3>2, <4>0, <4>1, <4>2, <4>3, <4>4 DEF PlaceChange
    <3>3. ASSUME NEW c \in CId, chunk'[c].state # "free" PROVE chunk'[c].part \in PId
      BY <2>1, <3>3, PlaceSteps DEF PlaceChange, WholeInv
    <3>4. HierarchyIsWhole'
      BY <3>1, <3>2 DEF HierarchyIsWhole, Exists
    <3> QED BY <3>1, <3>3, <3>4 DEF WholeInv
  <2>2. ASSUME WholeInv, UNCHANGED vars PROVE WholeInv'
    BY <2>2 DEF vars, WholeInv, HierarchyIsWhole, HasItsParent, Exists, Live
  <2> QED BY <2>1, <2>2, ShapeStep
<1> QED BY <1>1, <1>2, PTL DEF Spec

\* A select finds the parents of each partition up to the root, and an active chunk
\* has its partition, whatever the collections delete: a deleted row has no chunks,
\* and its children get its own parent, which is older than they are.
THEOREM HierarchyStaysWhole == Spec => []HierarchyIsWhole
<1>1. Shape /\ WholeInv => HierarchyIsWhole
  BY DEF WholeInv
<1> QED BY <1>1, WholeInvHolds, PTL
=============================================================================
