----------------------------- MODULE RocksStore -----------------------------
(***************************************************************************)
(* How RocksStore persists a RocksDB store (the metastore, the cachestore) *)
(* to the remote file system, and how a new process loads it again.        *)
(*                                                                         *)
(* The upload loop of the one process that owns the store uploads logs of  *)
(* write batches and, from time to time, a check point; a pointer names    *)
(* the current check point.  Writes go on while the loop awaits the remote *)
(* file system, and the process may be killed between any two awaits.      *)
(*                                                                         *)
(* A write batch has one entry here.  Its row is left out: a write is      *)
(* known by its id, so that the state of a store is the id of the last     *)
(* write of every key.                                                     *)
(***************************************************************************)
EXTENDS Naturals, Sequences, FiniteSets, FiniteSetsExt

CONSTANTS
  Keys,
  LogEnabled,    \* RocksStoreDetails::log_enabled
  LogLimit,      \* batches a log takes, meta_store_log_upload_size_limit
  MinSnapshots,  \* minimum_snapshots_count
  Faults,        \* subset of {"disk", "kill", "upload", "torn", "rewind",
                 \*            "truncate", "interrupt"}
  MaxWrites, MaxTime, MaxStarts   \* bounds of the model

VARIABLES
  db,        \* the writes the local RocksDB applied; its sequence number is Len
  disk,      \* the local directory: "absent", "partial" or "store"
  process,   \* [phase, todo]: where the process is, the logs left to replay
  upload,    \* [pc, from, to, entries]: the upload in flight
  lastCheckpointTime, lastUploadSeq, lastCheckSeq, snapshotUploaded,
  uploadStopped,
  current,   \* remote: the time of the current check point, 0 for none
  snapshot,  \* remote, per time: [files, db, of]
  logs,      \* remote, per time: the logs by their first sequence number
  clock, written, starts,         \* counters
  timeline   \* history variable, per start: the writes it acknowledged

local  == <<db, disk, process>>
seqs   == <<lastCheckpointTime, lastUploadSeq, lastCheckSeq, snapshotUploaded>>
remote == <<current, snapshot, logs>>
vars   == <<local, upload, seqs, uploadStopped, remote, clock, written, starts,
            timeline>>

Times   == 1..MaxTime
Ops     == [op : {"put"}, key : Keys, id : 1..MaxWrites]
             \cup [op : {"truncate"}, id : 1..MaxWrites]
Content == Seq(Ops)
Log     == [readable : BOOLEAN, entries : Content]
Torn    == [readable |-> FALSE, entries |-> <<>>]
NoFiles == [files |-> "absent", db |-> <<>>, of |-> 0]

ASSUME StoreAssumption ==
  /\ Keys # {}
  /\ LogEnabled \in BOOLEAN
  /\ LogLimit \in Nat \ {0} /\ MinSnapshots \in Nat
  /\ MaxWrites \in Nat /\ MaxTime \in Nat /\ MaxStarts \in Nat \ {0}

-----------------------------------------------------------------------------
(* The content of a store.                                                 *)

Touches(w, key) == w.op = "truncate" \/ w.key = key

Has(content, key) == \E i \in DOMAIN content : Touches(content[i], key)

\* The last write of a key, 0 for none.
LastOf(content, key) ==
  IF Has(content, key)
  THEN content[CHOOSE i \in DOMAIN content :
                 /\ Touches(content[i], key)
                 /\ \A j \in DOMAIN content : Touches(content[j], key) => j <= i].id
  ELSE 0

\* The state of a store: the last write of every key.
StateOf(content) == [key \in Keys |-> LastOf(content, key)]

\* WriteBatchContainer has entries for puts and deletes of a key only; the
\* range deletion of a truncate is not among them.
Logged(entries) ==
  LET puts   == {i \in DOMAIN entries : entries[i].op # "truncate"}
      Nth(n) == CHOOSE i \in puts : Cardinality({j \in puts : j <= i}) = n
  IN  [n \in 1..Cardinality(puts) |-> entries[Nth(n)]]

\* The logs that are replayed: in the order of their numbers, up to the first
\* one that cannot be read.
Readable(t) ==
  {n \in DOMAIN logs[t] :
     \A m \in DOMAIN logs[t] : m <= n => logs[t][m].readable}

\* What the check point with its logs has: of every key the row of the last log
\* with an entry for it, or that of the snapshot.
LoadedFrom(t) ==
  LET LogHas(n, key) == n \in Readable(t) /\ Has(logs[t][n].entries, key)
  IN  [key \in Keys |->
         IF \E n \in DOMAIN logs[t] : LogHas(n, key)
         THEN LastOf(logs[t][CHOOSE n \in DOMAIN logs[t] :
                               /\ LogHas(n, key)
                               /\ \A m \in DOMAIN logs[t] :
                                    LogHas(m, key) => m <= n].entries, key)
         ELSE LastOf(snapshot[t].db, key)]

\* What a new process would load from the remote file system.
Loaded == IF current = 0 THEN StateOf(<<>>) ELSE LoadedFrom(current)

-----------------------------------------------------------------------------
(* The life of the process.                                                *)

PutLog(log) ==
  logs' = [logs EXCEPT ![lastCheckpointTime] =
             [n \in DOMAIN @ \cup {upload.from} |->
                IF n = upload.from THEN log ELSE @[n]]]

PutFiles(files) ==
  snapshot' = [snapshot EXCEPT ![lastCheckpointTime] =
                 [files |-> files, db |-> upload.entries, of |-> starts]]

NoUpload == [pc |-> "idle", from |-> 0, to |-> 0, entries |-> <<>>]

\* Mutant of Open: goes on with the check point that it was loaded from.
OpenResumes(content) ==
  /\ db' = content /\ disk' = "store"
  /\ lastUploadSeq' = Len(content) /\ lastCheckSeq' = Len(content)
  /\ lastCheckpointTime' = current /\ snapshotUploaded' = (current # 0)
  /\ uploadStopped' = FALSE
  /\ UNCHANGED upload
\* RocksStore::with_listener_impl: nothing counts as uploaded yet.
Open(content) ==
  /\ db' = content /\ disk' = "store"
  /\ lastUploadSeq' = Len(content) /\ lastCheckSeq' = Len(content)
  /\ lastCheckpointTime' = 0 /\ snapshotUploaded' = FALSE
  /\ uploadStopped' = FALSE
  /\ UNCHANGED upload

\* The writes a process starts from: up to the last one among its rows.
Begun(of, rows) ==
  LET ids == {rows[key] : key \in Keys}
  IN  SubSeq(timeline[of], 1, Max({0} \cup {i \in DOMAIN timeline[of] :
                                              timeline[of][i].id \in ids}))

Running == [phase |-> "running", todo |-> {}]

Started(begun) ==
  /\ starts' = starts + 1
  /\ timeline' = [timeline EXCEPT ![starts + 1] = begun]

\* load_from_remote without local files and without a current check point.
StartFromScratch ==
  /\ process.phase = "down" /\ starts < MaxStarts
  /\ disk = "absent" /\ current = 0
  /\ Open(<<>>) /\ process' = Running /\ Started(<<>>)
  /\ UNCHANGED <<remote, clock, written>>

\* load_from_remote when the local directory is there: its content is not
\* looked at, and no log is replayed.
StartFromDisk ==
  /\ process.phase = "down" /\ starts < MaxStarts
  /\ disk # "absent"
  /\ Open(IF disk = "partial" THEN <<>> ELSE db)
  /\ process' = Running
  /\ Started(timeline[starts])
  /\ UNCHANGED <<remote, clock, written>>

\* load_from_remote creates the local directory, downloads into it ...
StartFromRemote ==
  /\ process.phase = "down" /\ starts < MaxStarts
  /\ disk = "absent" /\ current # 0 /\ snapshot[current].files = "complete"
  /\ disk' = "partial"
  /\ process' = [phase |-> "fetching", todo |-> {}]
  /\ Started(Begun(snapshot[current].of, Loaded))
  /\ UNCHANGED <<db, upload, seqs, uploadStopped, remote, clock, written>>

\* ... opens the store ...
OpenFetched ==
  /\ process.phase = "fetching"
  /\ Open(snapshot[current].db)
  /\ process' = [phase |-> "replaying", todo |-> Readable(current)]
  /\ UNCHANGED <<remote, clock, written, starts, timeline>>

\* Mutant of ReplayLog: in the order of the listing.
ReplayLogAnyOrder(n) ==
  /\ process.phase = "replaying" /\ n \in process.todo
  /\ db' = db \o logs[current][n].entries
  /\ process' = [process EXCEPT !.todo = @ \ {n}]
  /\ UNCHANGED <<disk, upload, seqs, uploadStopped, remote, clock, written,
                 starts, timeline>>
\* ... and replays the logs, each as one batch.
ReplayLog(n) ==
  /\ process.phase = "replaying"
  /\ n \in process.todo /\ \A m \in process.todo : n <= m
  /\ db' = db \o logs[current][n].entries
  /\ process' = [process EXCEPT !.todo = @ \ {n}]
  /\ UNCHANGED <<disk, upload, seqs, uploadStopped, remote, clock, written,
                 starts, timeline>>

LoadDone ==
  /\ process.phase = "replaying" /\ process.todo = {}
  /\ process' = Running
  /\ UNCHANGED <<db, disk, upload, seqs, uploadStopped, remote, clock, written,
                 starts, timeline>>

\* The process ends, in the middle of an upload or of a load as well; its
\* local files are lost with it or not.  An upload to a directory is a copy:
\* killed in it, the process leaves a log that cannot be read, or a check point
\* with some of its files.
Die ==
  /\ starts < MaxStarts
  /\ \/ process.phase = "running" /\ "disk" \in Faults /\ disk' = "absent"
     \/ process.phase = "running" /\ "kill" \in Faults /\ UNCHANGED disk
     \/ /\ process.phase \in {"fetching", "replaying"}
        /\ "interrupt" \in Faults /\ UNCHANGED disk
  /\ process' = [phase |-> "down", todo |-> {}]
  /\ upload' = NoUpload
  /\ \/ UNCHANGED logs
     \/ "torn" \in Faults /\ upload.pc = "log" /\ snapshotUploaded /\ PutLog(Torn)
  /\ \/ UNCHANGED snapshot
     \/ "torn" \in Faults /\ upload.pc = "files" /\ PutFiles("partial")
  /\ UNCHANGED <<db, seqs, uploadStopped, current, clock, written, starts,
                 timeline>>

-----------------------------------------------------------------------------
(* Writes: the read-write loop commits a batch and answers.                *)

Commit(w) ==
  /\ process.phase = "running" /\ written < MaxWrites
  /\ db' = Append(db, w)
  /\ timeline' = [timeline EXCEPT ![starts] = Append(@, w)]
  /\ written' = written + 1
  /\ UNCHANGED <<disk, process, upload, seqs, uploadStopped, remote, clock,
                 starts>>

Write(key) == Commit([op |-> "put", key |-> key, id |-> written + 1])

Truncate == "truncate" \in Faults /\ Commit([op |-> "truncate", id |-> written + 1])

-----------------------------------------------------------------------------
(* The upload loop: RocksStore::run_upload and upload_check_point.         *)

At(pc) == process.phase = "running" /\ upload.pc = pc
Go(pc) == upload' = [NoUpload EXCEPT !.pc = pc]

\* get_updates_since returns the batch with the given sequence number too.
Since == IF lastUploadSeq = 0 THEN 1 ELSE lastUploadSeq

\* Mutant of CollectLog: nothing to do once all logs are uploaded.
CollectLogIfNew ==
  /\ At("idle") /\ lastUploadSeq # Len(db)
  /\ LET to == IF Since + LogLimit - 1 < Len(db) THEN Since + LogLimit - 1
               ELSE Len(db)
     IN  IF LogEnabled
         THEN upload' = [pc |-> "log", from |-> Since, to |-> to,
                         entries |-> Logged(SubSeq(db, Since, to))]
         ELSE Go("logged")
  /\ UNCHANGED <<local, seqs, uploadStopped, remote, clock, written, starts,
                 timeline>>
\* Mutant of CollectLog: uploads logs although they are disabled.
CollectLogAlways ==
  /\ At("idle") /\ lastCheckSeq # Len(db)
  /\ LET to == IF Since + LogLimit - 1 < Len(db) THEN Since + LogLimit - 1
               ELSE Len(db)
     IN  upload' = [pc |-> "log", from |-> Since, to |-> to,
                    entries |-> Logged(SubSeq(db, Since, to))]
  /\ UNCHANGED <<local, seqs, uploadStopped, remote, clock, written, starts,
                 timeline>>
\* The updates of a log are collected before anything is awaited.
CollectLog ==
  /\ At("idle") /\ lastCheckSeq # Len(db)
  /\ LET to == IF Since + LogLimit - 1 < Len(db) THEN Since + LogLimit - 1
               ELSE Len(db)
     IN  IF LogEnabled
         THEN upload' = [pc |-> "log", from |-> Since, to |-> to,
                         entries |-> Logged(SubSeq(db, Since, to))]
         ELSE Go("logged")
  /\ UNCHANGED <<local, seqs, uploadStopped, remote, clock, written, starts,
                 timeline>>

\* Mutant of UploadLog: counts the batch after the last one.
UploadLogCountsNext ==
  /\ At("log")
  /\ IF snapshotUploaded THEN PutLog([readable |-> TRUE, entries |-> upload.entries])
     ELSE UNCHANGED logs
  /\ lastUploadSeq' = upload.to + 1
  /\ Go("logged")
  /\ UNCHANGED <<local, lastCheckpointTime, lastCheckSeq, snapshotUploaded,
                 uploadStopped, current, snapshot, clock, written, starts,
                 timeline>>
\* Mutant of UploadLog: counts what was written while it uploaded.
UploadLogCountsAll ==
  /\ At("log")
  /\ IF snapshotUploaded THEN PutLog([readable |-> TRUE, entries |-> upload.entries])
     ELSE UNCHANGED logs
  /\ lastUploadSeq' = Len(db)
  /\ Go("logged")
  /\ UNCHANGED <<local, lastCheckpointTime, lastCheckSeq, snapshotUploaded,
                 uploadStopped, current, snapshot, clock, written, starts,
                 timeline>>
\* Without a check point of this process the log is dropped.
UploadLog ==
  /\ At("log")
  /\ IF snapshotUploaded THEN PutLog([readable |-> TRUE, entries |-> upload.entries])
     ELSE UNCHANGED logs
  /\ lastUploadSeq' = upload.to
  /\ Go("logged")
  /\ UNCHANGED <<local, lastCheckpointTime, lastCheckSeq, snapshotUploaded,
                 uploadStopped, current, snapshot, clock, written, starts,
                 timeline>>

\* An upload that fails may have been done; the loop logs the error and goes
\* on with its next run.
UploadLogFails ==
  /\ "upload" \in Faults /\ clock < MaxTime
  /\ At("log") /\ snapshotUploaded
  /\ PutLog([readable |-> TRUE, entries |-> upload.entries]) \/ UNCHANGED logs
  /\ Go("idle")
  /\ UNCHANGED <<local, seqs, uploadStopped, current, snapshot, clock, written,
                 starts, timeline>>

\* The snapshot interval did not pass, or an operator stopped the check points.
SkipCheckpoint ==
  /\ At("logged") /\ Go("idle")
  /\ UNCHANGED <<local, seqs, uploadStopped, remote, clock, written, starts,
                 timeline>>

\* upload_check_point names the check point first: from now on logs go there.
BeginCheckpoint ==
  /\ At("logged") /\ ~uploadStopped /\ clock < MaxTime
  /\ clock' = clock + 1 /\ lastCheckpointTime' = clock + 1
  /\ Go("checkpoint")
  /\ UNCHANGED <<local, lastUploadSeq, lastCheckSeq, snapshotUploaded,
                 uploadStopped, remote, written, starts, timeline>>

CreateCheckpoint ==
  /\ At("checkpoint")
  /\ upload' = [pc |-> "files", from |-> 0, to |-> Len(db), entries |-> db]
  /\ UNCHANGED <<local, seqs, uploadStopped, remote, clock, written, starts,
                 timeline>>

UploadFiles ==
  /\ At("files")
  /\ PutFiles("complete")
  /\ upload' = [upload EXCEPT !.pc = "pointer"]
  /\ UNCHANGED <<local, seqs, uploadStopped, current, logs, clock, written,
                 starts, timeline>>

WriteCurrent ==
  /\ At("pointer")
  /\ current' = lastCheckpointTime
  /\ upload' = [upload EXCEPT !.pc = "cleanup"]
  /\ UNCHANGED <<local, seqs, uploadStopped, snapshot, logs, clock, written,
                 starts, timeline>>

Present == {t \in Times : snapshot[t].files # "absent" \/ DOMAIN logs[t] # {}}
Newer(t) == {u \in Present : u > t}
\* Mutant of Old: keeps one snapshot fewer than asked for.
OldButFewer(cutoff) ==
  {t \in Present : t < cutoff /\ Cardinality(Newer(t)) >= MinSnapshots}
AtLeastOne == IF MinSnapshots = 0 THEN 1 ELSE MinSnapshots
\* delete_old_snapshots: neither among the newest nor younger than the cutoff.
Old(cutoff) ==
  {t \in Present : t < cutoff /\ Cardinality(Newer(t)) >= AtLeastOne}

Delete(times) ==
  /\ snapshot' = [t \in Times |-> IF t \in times THEN NoFiles ELSE snapshot[t]]
  /\ logs' = [t \in Times |-> IF t \in times THEN <<>> ELSE logs[t]]

\* A check point fails with some of its files uploaded, or with the pointer
\* written, or with some old snapshots deleted; its time stays the time of the
\* logs.
CheckpointFails ==
  /\ "upload" \in Faults /\ clock < MaxTime
  /\ \/ At("files") /\ PutFiles("partial") /\ UNCHANGED <<current, logs>>
     \/ At("files") /\ UNCHANGED remote
     \/ At("pointer") /\ UNCHANGED remote
     \/ /\ At("cleanup") /\ UNCHANGED current
        /\ \E times \in SUBSET Old(clock + 1) : Delete(times)
  /\ Go("idle")
  /\ UNCHANGED <<local, seqs, uploadStopped, clock, written, starts, timeline>>

\* Once the old snapshots are deleted, the check point counts as uploaded.
FinishCheckpoint ==
  /\ At("cleanup")
  /\ \E cutoff \in 0..clock + 1 : Delete(Old(cutoff))
  /\ snapshotUploaded' = TRUE
  /\ lastCheckSeq' = upload.to /\ lastUploadSeq' = upload.to
  /\ Go("idle")
  /\ UNCHANGED <<local, lastCheckpointTime, uploadStopped, current, clock,
                 written, starts, timeline>>

-----------------------------------------------------------------------------
(* SYS METASTORE SET_CURRENT.                                              *)

\* upload_check_point holds snapshots_upload_stopped until it ends.
Uploading == upload.pc \in {"checkpoint", "files", "pointer", "cleanup"}

\* Mutant of SetCurrentSnapshot: does not wait for a check point in flight.
SetCurrentUnlocked(t) ==
  /\ "rewind" \in Faults /\ process.phase = "running"
  /\ snapshot[t].files # "absent" /\ t # current
  /\ current' = t /\ uploadStopped' = TRUE
  /\ UNCHANGED <<local, upload, seqs, snapshot, logs, clock, written, starts,
                 timeline>>
SetCurrentSnapshot(t) ==
  /\ "rewind" \in Faults /\ process.phase = "running" /\ ~Uploading
  /\ snapshot[t].files # "absent" /\ t # current
  /\ current' = t /\ uploadStopped' = TRUE
  /\ UNCHANGED <<local, upload, seqs, snapshot, logs, clock, written, starts,
                 timeline>>

-----------------------------------------------------------------------------
Init ==
  /\ db = <<>> /\ disk = "absent"
  /\ process = [phase |-> "down", todo |-> {}]
  /\ upload = NoUpload
  /\ lastCheckpointTime = 0 /\ lastUploadSeq = 0 /\ lastCheckSeq = 0
  /\ snapshotUploaded = FALSE /\ uploadStopped = FALSE
  /\ current = 0
  /\ snapshot = [t \in Times |-> NoFiles]
  /\ logs = [t \in Times |-> <<>>]
  /\ clock = 0 /\ written = 0 /\ starts = 0
  /\ timeline = [n \in 0..MaxStarts |-> <<>>]

Load == StartFromScratch \/ StartFromDisk \/ StartFromRemote \/ OpenFetched
          \/ LoadDone \/ \E n \in process.todo : ReplayLog(n)

\* The steps of a run of the upload loop that end when all goes well.
Advance == CollectLog \/ CreateCheckpoint

Next ==
  \/ Load \/ Die
  \/ \E key \in Keys : Write(key)
  \/ Truncate
  \/ Advance \/ UploadLog \/ UploadLogFails
  \/ SkipCheckpoint \/ BeginCheckpoint
  \/ UploadFiles \/ WriteCurrent \/ FinishCheckpoint \/ CheckpointFails
  \/ \E t \in Times : SetCurrentSnapshot(t)

Spec == Init /\ [][Next]_vars

\* A process is started again; its loop goes on; the snapshot interval passes
\* again and again; an upload that is repeated succeeds some time.
Fairness ==
  /\ WF_vars(Load)
  /\ WF_vars(Advance) /\ WF_vars(SkipCheckpoint)
  /\ SF_vars(BeginCheckpoint)
  /\ SF_vars(UploadLog) /\ SF_vars(UploadFiles) /\ SF_vars(WriteCurrent)
  /\ WF_vars(FinishCheckpoint)

FairSpec == Spec /\ Fairness

-----------------------------------------------------------------------------
(* Safety.                                                                 *)

\* Sequence numbers name batches of the local store, times name check points
\* that were begun, and a log is kept under the number of its first batch.
TypeOK ==
  /\ db \in Content /\ disk \in {"absent", "partial", "store"}
  /\ process.phase \in {"down", "fetching", "replaying", "running"}
  /\ process.todo \subseteq Nat
  /\ upload.pc \in {"idle", "log", "logged", "checkpoint", "files", "pointer",
                   "cleanup"}
  /\ upload.from \in 0..upload.to + 1 /\ upload.to \in 0..Len(db)
  /\ upload.entries \in Content
  /\ lastUploadSeq \in 0..Len(db) /\ lastCheckSeq \in 0..Len(db)
  /\ lastCheckpointTime \in 0..clock /\ current \in 0..clock
  /\ snapshotUploaded \in BOOLEAN /\ uploadStopped \in BOOLEAN
  /\ \A t \in Times : /\ snapshot[t].files \in {"absent", "partial", "complete"}
                      /\ snapshot[t].db \in Content
                      /\ \A n \in DOMAIN logs[t] : n > 0 /\ logs[t][n] \in Log
  /\ clock \in 0..MaxTime /\ written \in 0..MaxWrites /\ starts \in 0..MaxStarts
  /\ \A n \in 0..MaxStarts : timeline[n] \in Content

\* The writes of the process that the current check point is of.
Acknowledged == timeline[IF current = 0 THEN 0 ELSE snapshot[current].of]

\* What can be loaded is the state after some prefix of the writes, never a
\* mixture: the snapshot, the logs that follow it and their order agree
\* whatever is written during an upload (run_upload, upload_check_point,
\* load_metastore_logs).
RestoredIsPrefix ==
  \E n \in 0..Len(Acknowledged) :
    Loaded = StateOf(SubSeq(Acknowledged, 1, n))

\* What the store counts as uploaded can be loaded (last_upload_seq is what
\* write_completed_notify announces).
UploadedIsRestorable ==
  snapshotUploaded /\ ~uploadStopped /\ lastUploadSeq \in DOMAIN db =>
    \E key \in Keys : Loaded[key] >= db[lastUploadSeq].id

\* A process that runs has the rows of every write acknowledged before, as far
\* as they were saved when its local files were lost (load_from_remote).
StoreHasItsWrites ==
  process.phase = "running" => StateOf(db) = StateOf(timeline[starts])

\* The pointer always names a check point that is there completely, although
\* old ones are deleted (upload_checkpoint, delete_old_snapshots).
CurrentIsComplete == current # 0 => snapshot[current].files = "complete"

\* Once an operator chose a snapshot, only an operator changes it until the
\* process ends (set_current_snapshot against upload_check_point).
ChosenSnapshotStands ==
  [][uploadStopped /\ uploadStopped' /\ current' # current
       => \E t \in Times : SetCurrentSnapshot(t)]_vars

\* A truncate cannot be undone: a write made after it is never loaded together
\* with one made before it.
TruncateIsFinal ==
  \A i \in DOMAIN Acknowledged :
    LET truncate == Acknowledged[i]  loaded == Loaded IN
    truncate.op = "truncate" /\ (\E key \in Keys : loaded[key] > truncate.id)
      => \A key \in Keys : loaded[key] \notin 1..truncate.id - 1

\* The store implements its contract: the saved prefix only grows, and a
\* process without local files continues from it.
Saved ==
  LET history == timeline[starts]
      Fits(n) == \A key \in Keys : Loaded[key] = LastOf(SubSeq(history, 1, n), key)
  IN  IF \E n \in 0..Len(history) : Fits(n)
      THEN CHOOSE n \in 0..Len(history) : Fits(n)
      ELSE Len(history) + 1
Contract == INSTANCE RocksStoreContract
              WITH Writes <- Ops, history <- timeline[starts], saved <- Saved
ContractHolds == Contract!Spec

-----------------------------------------------------------------------------
(* Progress.                                                               *)

\* Every write reaches the remote file system, through a log or a check point
\* and although uploads fail, while the process lives (run_upload).
WritesReachRemote ==
  \A id \in 1..MaxWrites :
    written >= id ~> \E key \in Keys : Loaded[key] >= id
=============================================================================
