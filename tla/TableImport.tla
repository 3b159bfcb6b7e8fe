----------------------------- MODULE TableImport -----------------------------
(***************************************************************************)
(* CREATE TABLE ... LOCATION of Cube Store: the connection that creates    *)
(* the table and waits for its import jobs, the scheduler that adds the    *)
(* jobs and removes orphaned ones, the workers that run them, and the      *)
(* metastore events that connect the three and may be lost.  All tables    *)
(* have the same name here; each attempt to create it has an id of its own.*)
(***************************************************************************)
EXTENDS Integers, Sequences, FiniteSets

CONSTANTS
  Location,     \* locations of the table
  Frames,       \* data frames the file of a location is cut into
  Worker,       \* job runners
  Creator,      \* CREATE TABLE commands
  IfNotExists,  \* those that say IF NOT EXISTS
  MaxRetries,   \* create_table_max_retries
  MaxTable,     \* bound: tables ever created
  MaxFaults,    \* bound: faults of all kinds
  Faults        \* kinds of faults

ASSUME TableImportAssumption ==
  /\ Frames \in Nat \ {0} /\ MaxRetries \in Nat
  /\ MaxTable \in Nat /\ MaxFaults \in Nat
  /\ IfNotExists \subseteq Creator
  /\ Faults \subseteq {"crash", "slow", "error", "lag", "timeout", "restart"}

TId == 1 .. MaxTable
Frame == 1 .. Frames
Key == TId \X Location       \* row reference and type of a job
Part == Location \X Frame

VARIABLES
  table,      \* state of the row of each table
  rows,       \* how often the rows of each frame are active
  uploads,    \* file of each location: it stays, is a temporary upload, or gone
  job,        \* rows of the jobs table
  creator,    \* progress of the CREATE TABLE commands
  worker,     \* progress of the job runners
  frames,     \* tasks that upload and activate a data frame
  inserted,   \* tables whose insertion the scheduler has not heard of
  placing,    \* jobs the scheduler is about to add
  sweep,      \* orphaned jobs the scheduler is about to remove
  faults      \* faults so far

tables == <<table, rows, uploads>>
runners == <<worker, frames>>
scheduler == <<inserted, placing, sweep>>
vars == <<table, rows, uploads, job, creator, worker, frames, inserted, placing,
          sweep, faults>>

NoJob == [status |-> "none", late |-> FALSE]
HasJob(k) == job[k].status # "none"
Present(t) == table[t] \in {"importing", "ready"}
Ended == {"completed", "error", "timeout", "orphaned"}

NoRows == [x \in Part |-> 0]
NoNews == [l \in Location |-> <<>>]
NotBegun == [pc |-> "idle", table |-> 0, pending |-> {}, news |-> NoNews,
             verdict |-> "ok", retries |-> 0]
Idle == [pc |-> "idle", key |-> <<>>]

Busy(c) == creator[c].pc \in {"creating", "waiting", "dropping"}
Running(w, k) == worker[w].pc # "idle" /\ worker[w].key = k

Fault(kind) ==
  /\ kind \in Faults /\ faults < MaxFaults
  /\ faults' = faults + 1

Init ==
  /\ table = [t \in TId |-> "free"]
  /\ rows = [t \in TId |-> NoRows]
  /\ uploads \in [Location -> {"stays", "temporary"}]
  /\ job = [k \in Key |-> NoJob]
  /\ creator = [c \in Creator |-> NotBegun]
  /\ worker = [w \in Worker |-> Idle]
  /\ frames = {} /\ inserted = {} /\ placing = {} /\ sweep = {}
  /\ faults = 0

-----------------------------------------------------------------------------
(* Job rows.  A change of the status is an event: listeners that wait for   *)
(* the job keep it until they read it.                                      *)

Publish(k, status) ==
  creator' = [c \in Creator |->
    IF creator[c].pc = "waiting" /\ creator[c].table = k[1] /\ k[2] \in creator[c].pending
    THEN [creator[c] EXCEPT !.news[k[2]] = Append(@, status)]
    ELSE creator[c]]

\* update_status, which also renews the heart beat; the row must be there
UpdateStatus(k, status) ==
  IF HasJob(k)
  THEN /\ job' = [job EXCEPT ![k] = [status |-> status, late |-> FALSE]]
       /\ IF job[k].status # status THEN Publish(k, status) ELSE UNCHANGED creator
  ELSE UNCHANGED <<job, creator>>

DeleteJob(k) == job' = [job EXCEPT ![k] = NoJob]

-----------------------------------------------------------------------------
(* CREATE TABLE.                                                            *)

\* Mutant of Begin: a table that is ready is not looked for
BeginUnseen(c) ==
  /\ creator[c].pc = "idle"
  /\ c \in IfNotExists => \A d \in IfNotExists : ~Busy(d)
  /\ creator' = [creator EXCEPT ![c].pc = "creating"]
  /\ UNCHANGED <<tables, job, runners, scheduler, faults>>

\* With IF NOT EXISTS one command per name runs, and others wait for its
\* result; a table that is ready is the result of the one that runs.
Begin(c) ==
  /\ creator[c].pc = "idle"
  /\ c \in IfNotExists => \A d \in IfNotExists : ~Busy(d)
  /\ creator' = IF c \in IfNotExists /\ \E t \in TId : table[t] = "ready"
                THEN [creator EXCEPT ![c].pc = "done",
                        ![c].table = CHOOSE t \in TId : table[t] = "ready"]
                ELSE [creator EXCEPT ![c].pc = "creating"]
  /\ UNCHANGED <<tables, job, runners, scheduler, faults>>

Join(c, d) ==
  /\ creator[c].pc = "idle" /\ {c, d} \subseteq IfNotExists /\ Busy(d)
  /\ creator' = [creator EXCEPT ![c].pc = "joined"]
  /\ UNCHANGED <<tables, job, runners, scheduler, faults>>

\* A joined command gets the result of the one it waits for
Result(c, pc) == [NotBegun EXCEPT !.pc = pc, !.table = creator[c].table]
Return(c, pc) ==
  creator' = [d \in Creator |->
    IF d = c \/ (c \in IfNotExists /\ creator[d].pc = "joined")
    THEN Result(c, pc) ELSE creator[d]]

\* drop_table_impl: the row of the table, its partitions and its chunks
Dropped(ts) == [t \in TId |-> IF t \in ts /\ Present(t) THEN "dropped" ELSE table[t]]
Drop(t) ==
  /\ table' = Dropped({t})
  /\ rows' = [rows EXCEPT ![t] = NoRows]

\* The sizes of the files are looked up, then create_table of the metastore
\* replaces or refuses a table of the name; the listener was opened before
CannotCreate(c) ==
  \/ \E l \in Location : uploads[l] = "gone"
  \/ c \notin IfNotExists /\ \E t \in TId : Present(t)

Create(c) ==
  /\ creator[c].pc = "creating"
  /\ IF CannotCreate(c)
     THEN Return(c, "failed") /\ UNCHANGED <<table, rows, inserted>>
     ELSE \E t \in TId :
            /\ table[t] = "free" /\ \A u \in TId : u < t => table[u] # "free"
            /\ table' = [u \in TId |-> IF u = t THEN "importing" ELSE Dropped(TId)[u]]
            /\ rows' = [u \in TId |-> NoRows]
            /\ inserted' = inserted \cup {t}
            /\ creator' = [creator EXCEPT ![c] =
                 [@ EXCEPT !.pc = "waiting", !.table = t, !.pending = Location,
                           !.news = NoNews, !.verdict = "ok"]]
  /\ UNCHANGED <<uploads, job, runners, placing, sweep, faults>>

\* The first result that is no success decides
Verdict(sofar, status) ==
  IF sofar # "ok" \/ status = "completed" THEN sofar
  ELSE IF status = "orphaned" THEN "orphaned" ELSE "error"
Resolution(command, l, status) ==
  [command EXCEPT !.pending = @ \ {l}, !.news[l] = <<>>,
                  !.verdict = Verdict(command.verdict, status)]
Resolved(c, l, status) ==
  [creator EXCEPT ![c] = Resolution(creator[c], l, status)]

Receive(c, l) ==
  /\ creator[c].pc = "waiting" /\ creator[c].news[l] # <<>>
  /\ creator' = Resolved(c, l, Head(creator[c].news[l]))
  /\ UNCHANGED <<tables, job, runners, scheduler, faults>>

\* Mutants of Outcome: a job that is gone was completed, or is waited for
OutcomeGoneIsDone(k) == IF HasJob(k) THEN job[k].status ELSE "completed"
OutcomeGoneIsPending(k) == IF HasJob(k) THEN job[k].status ELSE "scheduled"

\* resolve_pending_from_metastore: every 30 seconds, and after lost events.
\* A job that is gone may or may not have been completed.
Outcome(k) == IF HasJob(k) THEN job[k].status ELSE "orphaned"

Poll(c, l) ==
  /\ creator[c].pc = "waiting" /\ l \in creator[c].pending
  /\ Outcome(<<creator[c].table, l>>) \in Ended
  /\ creator' = Resolved(c, l, Outcome(<<creator[c].table, l>>))
  /\ UNCHANGED <<tables, job, runners, scheduler, faults>>

AllImported(c) ==
  /\ creator[c].pc = "waiting"
  /\ creator[c].pending = {} /\ creator[c].verdict = "ok"

TableReady(c) ==
  /\ AllImported(c)
  /\ IF Present(creator[c].table)
     THEN table' = [table EXCEPT ![creator[c].table] = "ready"] /\ Return(c, "done")
     ELSE UNCHANGED table /\ creator' = [creator EXCEPT ![c].pc = "dropping"]
  /\ UNCHANGED <<rows, uploads, job, runners, scheduler, faults>>

\* After orphaned jobs the table is dropped and created again
Retries(c) ==
  /\ creator[c].verdict = "orphaned" /\ Present(creator[c].table)
  /\ creator[c].retries < MaxRetries
Again(command) == [command EXCEPT !.pc = "creating", !.retries = @ + 1]

\* Mutant of DropTable: only orphaned jobs make it drop the table
DropTableOfOrphans(c) ==
  /\ \/ creator[c].pc = "dropping"
     \/ /\ creator[c].pc = "waiting"
        /\ creator[c].pending = {} /\ creator[c].verdict # "ok"
  /\ IF creator[c].verdict = "orphaned" THEN Drop(creator[c].table)
     ELSE UNCHANGED <<table, rows>>
  /\ IF Retries(c)
     THEN creator' = [creator EXCEPT ![c] = Again(@)]
     ELSE Return(c, "failed")
  /\ UNCHANGED <<uploads, job, runners, scheduler, faults>>

\* The drop_table is taken to succeed: when the metastore refuses it, the code
\* logs that and returns the error of the import, and DropNotReadyTable is left to
\* remove the table.
DropTable(c) ==
  /\ \/ creator[c].pc = "dropping"
     \/ /\ creator[c].pc = "waiting"
        /\ creator[c].pending = {} /\ creator[c].verdict # "ok"
  /\ Drop(creator[c].table)
  /\ IF Retries(c)
     THEN creator' = [creator EXCEPT ![c] = Again(@)]
     ELSE Return(c, "failed")
  /\ UNCHANGED <<uploads, job, runners, scheduler, faults>>

\* create_table_timeout ends the wait; a table_ready under way is still done
TimesOut(c) ==
  /\ Fault("timeout") /\ creator[c].pc = "waiting"
  /\ creator' = [creator EXCEPT ![c].pc = "dropping", ![c].verdict = "error"]
  /\ \/ UNCHANGED table
     \/ /\ AllImported(c) /\ Present(creator[c].table)
        /\ table' = [table EXCEPT ![creator[c].table] = "ready"]
  /\ UNCHANGED <<rows, uploads, job, runners, scheduler>>

-----------------------------------------------------------------------------
(* Scheduler.  The tasks that handle two events are not ordered.            *)

HandleInsert(t) ==
  /\ t \in inserted
  /\ inserted' = inserted \ {t}
  /\ placing' = IF Present(t) THEN placing \cup ({t} \X Location) ELSE placing
  /\ UNCHANGED <<tables, job, creator, runners, sweep, faults>>

\* add_job: nothing happens when there is a row for the same work
AddJob(k) ==
  /\ k \in placing
  /\ placing' = placing \ {k}
  /\ job' = IF HasJob(k) THEN job
            ELSE [job EXCEPT ![k] = [status |-> "scheduled", late |-> FALSE]]
  /\ UNCHANGED <<tables, creator, runners, inserted, sweep, faults>>

\* remove_orphaned_jobs reads the rows first, then marks and deletes one after
\* another; an error ends the run
ScanOrphans ==
  /\ sweep = {}
  /\ sweep' = {<<"mark", k>> : k \in {x \in Key : job[x].late}}
  /\ sweep' # {}
  /\ UNCHANGED <<tables, job, creator, runners, inserted, placing, faults>>

MarkOrphan(k) ==
  /\ <<"mark", k>> \in sweep /\ \A x \in sweep : x[1] # "delete"
  /\ UpdateStatus(k, "orphaned")
  /\ sweep' = IF HasJob(k) THEN (sweep \ {<<"mark", k>>}) \cup {<<"delete", k>>} ELSE {}
  /\ UNCHANGED <<tables, runners, inserted, placing, faults>>

DeleteOrphan(k) ==
  /\ <<"delete", k>> \in sweep
  /\ DeleteJob(k)
  /\ sweep' = IF HasJob(k) THEN sweep \ {<<"delete", k>>} ELSE {}
  /\ UNCHANGED <<tables, creator, runners, inserted, placing, faults>>

\* not_ready_tables: older than any command may wait
DropNotReadyTable(t) ==
  /\ table[t] = "importing"
  /\ \A c \in Creator : ~(Busy(c) /\ creator[c].table = t)
  /\ Drop(t)
  /\ UNCHANGED <<uploads, job, creator, runners, scheduler, faults>>

\* A reader of the event channel that lags behind loses events
LoseInsert(t) ==
  /\ Fault("lag") /\ t \in inserted
  /\ inserted' = inserted \ {t}
  /\ UNCHANGED <<tables, job, creator, runners, placing, sweep>>

LoseNews(c, l) ==
  /\ Fault("lag") /\ creator[c].news[l] # <<>>
  /\ creator' = [creator EXCEPT ![c].news[l] = Tail(@)]
  /\ UNCHANGED <<tables, job, runners, scheduler>>

\* The router holds the commands, the scheduler and the events
RouterRestart ==
  /\ Fault("restart")
  /\ creator' = [c \in Creator |-> IF Busy(c) \/ creator[c].pc = "joined"
                                  THEN Result(c, "lost")
                                  ELSE creator[c]]
  /\ inserted' = {} /\ placing' = {} /\ sweep' = {}
  /\ UNCHANGED <<tables, job, runners>>

-----------------------------------------------------------------------------
(* Job runners.                                                             *)

StartJob(w, k) ==
  /\ worker[w].pc = "idle" /\ job[k].status = "scheduled"
  /\ job' = [job EXCEPT ![k] = [status |-> "processing", late |-> FALSE]]
  /\ worker' = [worker EXCEPT ![w] = [pc |-> "starting", key |-> k]]
  /\ UNCHANGED <<tables, creator, frames, scheduler, faults>>

\* The row of the table, and the file
ReadTable(w) ==
  /\ worker[w].pc = "starting"
  /\ Present(worker[w].key[1]) /\ uploads[worker[w].key[2]] # "gone"
  /\ worker' = [worker EXCEPT ![w] = [pc |-> "importing", key |-> @.key, queued |-> 0,
                                     good |-> {}, bad |-> {}]]
  /\ UNCHANGED <<tables, job, creator, frames, scheduler, faults>>

QueueDataFrame(w) ==
  /\ worker[w].pc = "importing" /\ worker[w].queued < Frames
  /\ worker' = [worker EXCEPT ![w].queued = @ + 1]
  /\ frames' = frames \cup {[by |-> w, key |-> worker[w].key,
                             frame |-> worker[w].queued + 1]}
  /\ UNCHANGED <<tables, job, creator, scheduler, faults>>

Waits(f) == worker[f.by].pc = "importing" /\ worker[f.by].key = f.key

\* activate_chunks: all rows of the frame, or none without the table
ActivateFrame(f) ==
  /\ f \in frames /\ Present(f.key[1])
  /\ frames' = frames \ {f}
  /\ rows' = [rows EXCEPT ![f.key[1]][<<f.key[2], f.frame>>] = @ + 1]
  /\ worker' = IF Waits(f) THEN [worker EXCEPT ![f.by].good = @ \cup {f.frame}] ELSE worker
  /\ UNCHANGED <<table, uploads, job, creator, scheduler, faults>>

FrameFails(f) ==
  /\ f \in frames
  /\ IF Present(f.key[1]) THEN Fault("error") ELSE UNCHANGED faults
  /\ frames' = frames \ {f}
  /\ worker' = IF Waits(f) THEN [worker EXCEPT ![f.by].bad = @ \cup {f.frame}] ELSE worker
  /\ UNCHANGED <<tables, job, creator, scheduler>>

\* wait_completion and drop_temp_uploads
FinishImport(w) ==
  /\ worker[w].pc = "importing" /\ worker[w].good = Frame
  /\ uploads' = [uploads EXCEPT ![worker[w].key[2]] =
                    IF @ = "temporary" THEN "gone" ELSE @]
  /\ worker' = [worker EXCEPT ![w] = [pc |-> "reporting", key |-> @.key]]
  /\ UNCHANGED <<table, rows, job, creator, frames, scheduler, faults>>

Complete(w) ==
  /\ worker[w].pc = "reporting"
  /\ UpdateStatus(worker[w].key, "completed")
  /\ worker' = [worker EXCEPT ![w] = IF HasJob(@.key)
                                     THEN [pc |-> "deleting", key |-> @.key] ELSE Idle]
  /\ UNCHANGED <<tables, frames, scheduler, faults>>

DeleteCompleted(w) ==
  /\ worker[w].pc = "deleting"
  /\ DeleteJob(worker[w].key)
  /\ worker' = [worker EXCEPT ![w] = Idle]
  /\ UNCHANGED <<tables, creator, frames, scheduler, faults>>

\* wait_completion meets the failure of a frame after all frames before it
Fails(w) ==
  \/ /\ worker[w].pc = "starting"
     /\ ~Present(worker[w].key[1]) \/ uploads[worker[w].key[2]] = "gone"
  \/ /\ worker[w].pc = "importing" /\ worker[w].queued = Frames
     /\ \E b \in worker[w].bad : 1 .. b - 1 \subseteq worker[w].good

\* The frames of an import that ends early go on
JobEndsEarly(w, status) ==
  /\ UpdateStatus(worker[w].key, status)
  /\ worker' = [worker EXCEPT ![w] = Idle]
  /\ UNCHANGED <<tables, frames, scheduler>>

JobFails(w) == Fails(w) /\ JobEndsEarly(w, "error") /\ UNCHANGED faults

\* An error in the file, import_job_timeout
JobAborted(w, status) ==
  /\ Fault("error") /\ worker[w].pc \in {"starting", "importing"}
  /\ JobEndsEarly(w, status)

Crash(w) ==
  /\ Fault("crash") /\ worker[w].pc # "idle"
  /\ worker' = [worker EXCEPT ![w] = Idle]
  /\ frames' = {f \in frames : f.by # w}
  /\ UNCHANGED <<tables, job, creator, scheduler>>

\* Mutant of NobodyBeats: only jobs under way are orphaned
NobodyBeatsProcessing(k) ==
  /\ job[k].status = "processing" /\ ~job[k].late
  /\ IF \E w \in Worker : Running(w, k) THEN Fault("slow") ELSE UNCHANGED faults
  /\ job' = [job EXCEPT ![k].late = TRUE]
  /\ UNCHANGED <<tables, creator, runners, scheduler>>

\* 120 seconds without a heart beat: nobody runs the job, or its runner is slow
NobodyBeats(k) ==
  /\ job[k].status \notin {"none", "scheduled"} /\ ~job[k].late
  /\ IF \E w \in Worker : Running(w, k) THEN Fault("slow") ELSE UNCHANGED faults
  /\ job' = [job EXCEPT ![k].late = TRUE]
  /\ UNCHANGED <<tables, creator, runners, scheduler>>

\* The next heart beat
HeartBeat(w) ==
  /\ worker[w].pc # "idle" /\ job[worker[w].key].late
  /\ job' = [job EXCEPT ![worker[w].key].late = FALSE]
  /\ UNCHANGED <<tables, creator, runners, scheduler, faults>>

-----------------------------------------------------------------------------
CreatorStep(c) ==
  \/ Create(c) \/ TableReady(c) \/ DropTable(c)
  \/ \E l \in Location : Receive(c, l) \/ Poll(c, l)

WorkerStep(w) ==
  \/ ReadTable(w) \/ QueueDataFrame(w) \/ FinishImport(w)
  \/ Complete(w) \/ DeleteCompleted(w) \/ JobFails(w)

FrameStep(f) == ActivateFrame(f) \/ FrameFails(f)

SchedulerStep ==
  \/ \E t \in TId : HandleInsert(t) \/ DropNotReadyTable(t)
  \/ \E k \in Key : AddJob(k) \/ MarkOrphan(k) \/ DeleteOrphan(k)
  \/ ScanOrphans

Next ==
  \/ \E c \in Creator : Begin(c) \/ CreatorStep(c) \/ TimesOut(c)
  \/ \E c, d \in Creator : Join(c, d)
  \/ SchedulerStep
  \/ \E t \in TId : LoseInsert(t)
  \/ \E c \in Creator, l \in Location : LoseNews(c, l)
  \/ RouterRestart
  \/ \E w \in Worker, k \in Key : StartJob(w, k)
  \/ \E w \in Worker : WorkerStep(w) \/ Crash(w) \/ HeartBeat(w)
  \/ \E w \in Worker, status \in {"error", "timeout"} : JobAborted(w, status)
  \/ \E f \in frames : FrameStep(f)
  \/ \E k \in Key : NobodyBeats(k)

Spec == Init /\ [][Next]_vars

\* Nobody has to issue a command, and no fault has to happen
Fairness ==
  /\ \A c \in Creator : WF_vars(CreatorStep(c))
  /\ WF_vars(SchedulerStep)
  /\ \A w \in Worker : /\ WF_vars(WorkerStep(w)) /\ WF_vars(HeartBeat(w))
                       /\ WF_vars(\E k \in Key : StartJob(w, k))
  /\ WF_vars(\E f \in frames : FrameStep(f))
  /\ \A k \in Key : WF_vars(NobodyBeats(k) /\ UNCHANGED faults)

FairSpec == Spec /\ Fairness

-----------------------------------------------------------------------------
(* Properties *)

Command == [pc : {"idle", "joined", "creating", "waiting", "dropping", "done",
                  "failed", "lost"},
            table : {0} \cup TId, pending : SUBSET Location,
            news : [Location -> Seq(Ended)], verdict : {"ok", "error", "orphaned"},
            retries : 0 .. MaxRetries]

\* A runner without a job, with one that it does not import (yet, or any more),
\* and with one whose data frames it cuts and waits for
Runner ==
  [pc : {"idle"}, key : {<<>>}]
    \cup [pc : {"starting", "reporting", "deleting"}, key : Key]
    \cup [pc : {"importing"}, key : Key, queued : 0 .. Frames,
          good : SUBSET Frame, bad : SUBSET Frame]

TypeOK ==
  /\ table \in [TId -> {"free", "importing", "ready", "dropped"}]
  /\ rows \in [TId -> [Part -> Nat]]
  /\ uploads \in [Location -> {"stays", "temporary", "gone"}]
  /\ job \in [Key -> [status : {"none", "scheduled", "processing"} \cup Ended,
                     late : BOOLEAN]]
  /\ creator \in [Creator -> Command]
  /\ worker \in [Worker -> Runner]
  /\ frames \subseteq [by : Worker, key : Key, frame : Frame]
  /\ inserted \subseteq TId /\ placing \subseteq Key
  /\ sweep \subseteq {"mark", "delete"} \X Key
  /\ faults \in 0 .. MaxFaults

\* A table that is ready has the rows of every frame of every location, once:
\* orphaned, timed out and half finished jobs, their frames that go on, lost
\* events and retries neither lose rows nor leave some twice (the promise of
\* resolve_pending_from_metastore and of finalize_external_table).
ReadyTableIsComplete ==
  \A t \in TId : table[t] = "ready" => \A x \in Part : rows[t][x] = 1

\* A command that failed leaves no table behind (the two drop_table calls of
\* create_table_loop), also when several commands waited for it, provided that
\* the drop itself succeeds.
FailureLeavesNothing ==
  \A c \in Creator : creator[c].pc = "failed" /\ creator[c].table # 0
    => ~Present(creator[c].table)

\* The table that a command reported as created stays: a command of the same
\* name with IF NOT EXISTS, which may replace a table in create_table, joins
\* the one that runs or finds the table ready.
CreatedTableStays ==
  [][\A c \in Creator : creator[c].pc = "done" /\ table[creator[c].table] = "ready"
       => table'[creator[c].table] = "ready"]_<<table, creator>>

\* A command ends, with or without a table, whatever events and workers are
\* lost: the poll of wait_for_job_results_with_poll.  (Or the bound on the
\* number of tables stops it.)
InProgress(c) ==
  \/ creator[c].pc = "joined"
  \/ Busy(c) /\ ~(creator[c].pc = "creating" /\ \A t \in TId : table[t] # "free")
CreateReturns == \A c \in Creator : []<>~InProgress(c)

\* Jobs and tables whose command or worker is gone do not stay: the sweeps of
\* the scheduler reach what each failure leaves behind.
Settled == (\A k \in Key : ~HasJob(k)) /\ (\A t \in TId : table[t] # "importing")
ImportsSettle == []<>Settled
=============================================================================
