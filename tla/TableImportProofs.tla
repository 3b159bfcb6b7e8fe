-------------------------- MODULE TableImportProofs --------------------------
(***************************************************************************)
(* What holds of an import for any number of commands, locations, frames,  *)
(* workers, retries and faults: types, that a table that is ready has      *)
(* every row once, that a failed command leaves no table, and that a       *)
(* created table stays.                                                    *)
(***************************************************************************)
EXTENDS TableImport, TLAPS

USE DEF TId, Frame, Key, Part

(* Types.  One lemma for the actions of each actor.                         *)

\* The initial state is typed.
LEMMA InitTyped == Init => TypeOK
BY TableImportAssumption DEF Init, TypeOK, NoRows, NoJob, NotBegun, NoNews, Command, Idle, Runner

\* A status of a job that ended reaches those who wait for it as news.
LEMMA PublishTyped ==
  ASSUME TypeOK, NEW k \in Key, NEW status \in Ended, Publish(k, status)
  PROVE  creator' \in [Creator -> Command]
<1>1. ASSUME NEW c \in Creator, creator[c].pc = "waiting"
      PROVE  [creator[c] EXCEPT !.news[k[2]] = Append(@, status)] \in Command
  <2>1. creator[c] \in Command /\ k[2] \in Location
    BY DEF TypeOK
  <2>2. Append(creator[c].news[k[2]], status) \in Seq(Ended)
    BY <2>1 DEF Command
  <2> QED BY <2>1, <2>2 DEF Command
<1> QED BY <1>1 DEF Publish, TypeOK

\* Functions are changed in one place.
LEMMA ExceptTyped ==
  ASSUME NEW D, NEW S, NEW f \in [D -> S], NEW d, NEW e \in S
  PROVE  [f EXCEPT ![d] = e] \in [D -> S]
OBVIOUS

\* A change of a job's status keeps the jobs and the commands typed.
LEMMA UpdateStatusTyped ==
  ASSUME TypeOK, NEW k \in Key, NEW status \in Ended, UpdateStatus(k, status)
  PROVE  /\ job' \in [Key -> [status : {"none", "scheduled", "processing"} \cup Ended,
                              late : BOOLEAN]]
         /\ creator' \in [Creator -> Command]
<1>1. CASE HasJob(k)
  <2>1. creator' \in [Creator -> Command]
    BY <1>1, PublishTyped DEF UpdateStatus, TypeOK
  <2>2. [status |-> status, late |-> FALSE] \in
          [status : {"none", "scheduled", "processing"} \cup Ended, late : BOOLEAN]
    OBVIOUS
  <2>3. job' \in [Key -> [status : {"none", "scheduled", "processing"} \cup Ended,
                          late : BOOLEAN]]
    BY <1>1, <2>2 DEF UpdateStatus, TypeOK
  <2> QED BY <2>1, <2>3
<1>2. CASE ~HasJob(k)
  BY <1>2 DEF UpdateStatus, TypeOK
<1> QED BY <1>1, <1>2

\* The end of a command gives its result to the commands that joined it.
LEMMA ReturnTyped ==
  ASSUME TypeOK, NEW c \in Creator, NEW pc \in {"done", "failed", "lost"}, Return(c, pc)
  PROVE  creator' \in [Creator -> Command]
<1> DEFINE News == Seq(Ended)
<1>1. <<>> \in News
  OBVIOUS
<1> HIDE DEF News
<1>2. NoNews \in [Location -> News]
  BY <1>1 DEF NoNews
<1>3. creator[c].table \in {0} \cup TId
  BY DEF TypeOK, Command
<1>4. Result(c, pc) \in Command
  <2>2. 0 \in 0 .. MaxRetries
    BY TableImportAssumption
  <2>3. NoNews \in [Location -> Seq(Ended)]
    BY <1>2 DEF News
  <2> QED BY <2>2, <2>3, <1>3 DEF Command, Result, NotBegun
<1> QED BY <1>4 DEF Return, TypeOK

\* Dropping a table keeps the tables typed.
LEMMA DropTyped ==
  ASSUME TypeOK, NEW t \in TId \cup {0}, Drop(t)
  PROVE  /\ table' \in [TId -> {"free", "importing", "ready", "dropped"}]
         /\ rows' \in [TId -> [Part -> Nat]]
BY DEF Drop, Dropped, NoRows, TypeOK

\* A fault is counted up to its bound.
LEMMA FaultTyped ==
  ASSUME TypeOK, NEW kind, Fault(kind)
  PROVE  faults' \in 0 .. MaxFaults
BY TableImportAssumption DEF Fault, TypeOK

\* A result that the command received or looked up is taken off its list.
LEMMA ResolvedTyped ==
  ASSUME TypeOK, NEW c \in Creator, NEW l \in Location, NEW status
  PROVE  Resolved(c, l, status) \in [Creator -> Command]
<1>1. creator[c] \in Command
  BY DEF TypeOK
<1>2. <<>> \in Seq(Ended)
  OBVIOUS
<1>3. [creator[c].news EXCEPT ![l] = <<>>] \in [Location -> Seq(Ended)]
  BY <1>1, <1>2, ExceptTyped DEF Command
<1>4. Verdict(creator[c].verdict, status) \in {"ok", "error", "orphaned"}
  BY <1>1 DEF Command, Verdict
<1>5. Resolution(creator[c], l, status) \in Command
  BY <1>1, <1>3, <1>4 DEF Command, Resolution
<1> QED BY <1>5 DEF TypeOK, Resolved

\* The commands, until they end.
LEMMA CreatorTyped ==
  ASSUME TypeOK, NEW c \in Creator, CreatorStep(c)
  PROVE  TypeOK'
<1> USE DEF tables, runners, scheduler
<1>0. creator[c] \in Command
  BY DEF TypeOK
<1>1. CASE Create(c)
  <2>1. CASE CannotCreate(c)
    <3>1. Return(c, "failed") /\ UNCHANGED <<table, rows, inserted>>
      BY <1>1, <2>1 DEF Create
    <3>2. creator' \in [Creator -> Command]
      BY <3>1, ReturnTyped
    <3> QED BY <1>1, <3>1, <3>2 DEF Create, TypeOK
  <2>2. CASE ~CannotCreate(c)
    <3>1. PICK t \in TId :
            /\ table' = [u \in TId |-> IF u = t THEN "importing" ELSE Dropped(TId)[u]]
            /\ rows' = [u \in TId |-> NoRows]
            /\ inserted' = inserted \cup {t}
            /\ creator' = [creator EXCEPT ![c] =
                 [@ EXCEPT !.pc = "waiting", !.table = t, !.pending = Location,
                           !.news = NoNews, !.verdict = "ok"]]
      BY <1>1, <2>2 DEF Create
    <3>2. NoNews \in [Location -> Seq(Ended)]
      BY DEF NoNews
    <3>3. creator' \in [Creator -> Command]
      <4>1. [creator[c] EXCEPT !.pc = "waiting", !.table = t, !.pending = Location,
                               !.news = NoNews, !.verdict = "ok"] \in Command
        BY <1>0, <3>2 DEF Command
      <4> QED BY <3>1, <4>1 DEF TypeOK
    <3>4. Dropped(TId) \in [TId -> {"free", "importing", "ready", "dropped"}]
      BY DEF Dropped, TypeOK
    <3>5. /\ table' \in [TId -> {"free", "importing", "ready", "dropped"}]
          /\ rows' \in [TId -> [Part -> Nat]]
      BY <3>1, <3>4 DEF NoRows
    <3> QED BY <1>1, <2>2, <3>1, <3>3, <3>5 DEF Create, TypeOK
  <2> QED BY <2>1, <2>2
<1>2. CASE TableReady(c)
  <2>1. creator' \in [Creator -> Command]
    <3>1. CASE Present(creator[c].table)
      BY <1>2, <3>1, ReturnTyped DEF TableReady
    <3>2. CASE ~Present(creator[c].table)
      <4>1. [creator[c] EXCEPT !.pc = "dropping"] \in Command
        BY <1>0 DEF Command
      <4> QED BY <1>2, <3>2, <4>1 DEF TableReady, TypeOK
    <3> QED BY <3>1, <3>2
  <2>2. table' \in [TId -> {"free", "importing", "ready", "dropped"}]
    BY <1>2 DEF TableReady, TypeOK
  <2> QED BY <1>2, <2>1, <2>2 DEF TableReady, TypeOK
<1>3. CASE DropTable(c)
  <2>1. creator[c].table \in TId \cup {0}
    BY <1>0 DEF Command
  <2>2. creator' \in [Creator -> Command]
    <3>1. CASE Retries(c)
      <4>1. creator[c].retries + 1 \in 0 .. MaxRetries
        <5>1. creator[c].retries \in 0 .. MaxRetries
          BY <1>0 DEF Command
        <5> QED BY <3>1, <5>1, TableImportAssumption DEF Retries
      <4>2. Again(creator[c]) \in Command
        BY <1>0, <4>1 DEF Command, Again
      <4> QED BY <1>3, <3>1, <4>2 DEF DropTable, TypeOK
    <3> QED BY <1>3, <3>1, ReturnTyped DEF DropTable
  <2> QED BY <1>3, <2>1, <2>2, DropTyped DEF DropTable, TypeOK
<1>4. ASSUME NEW l \in Location, Receive(c, l) \/ Poll(c, l)
      PROVE  TypeOK'
  <2>1. creator' \in [Creator -> Command]
    BY <1>4, ResolvedTyped DEF Receive, Poll
  <2> QED BY <1>4, <2>1 DEF Receive, Poll, TypeOK
<1> QED BY <1>1, <1>2, <1>3, <1>4 DEF CreatorStep

\* The scheduler.
LEMMA SchedulerTyped ==
  ASSUME TypeOK, SchedulerStep
  PROVE  TypeOK'
<1> USE DEF tables, runners, scheduler
<1>1. ASSUME NEW t \in TId, HandleInsert(t)
      PROVE  TypeOK'
  BY <1>1 DEF HandleInsert, TypeOK
<1>2. ASSUME NEW t \in TId, DropNotReadyTable(t)
      PROVE  TypeOK'
  BY <1>2, DropTyped DEF DropNotReadyTable, TypeOK
<1>3. ASSUME NEW k \in Key, AddJob(k)
      PROVE  TypeOK'
  BY <1>3 DEF AddJob, TypeOK
<1>4. ASSUME NEW k \in Key, MarkOrphan(k)
      PROVE  TypeOK'
  <2>1. "orphaned" \in Ended
    BY DEF Ended
  <2>2. UpdateStatus(k, "orphaned")
    BY <1>4 DEF MarkOrphan
  <2>3. sweep' \subseteq {"mark", "delete"} \X Key
    BY <1>4 DEF MarkOrphan, TypeOK
  <2> QED BY <1>4, <2>1, <2>2, <2>3, UpdateStatusTyped DEF MarkOrphan, TypeOK
<1>5. ASSUME NEW k \in Key, DeleteOrphan(k)
      PROVE  TypeOK'
  BY <1>5 DEF DeleteOrphan, DeleteJob, NoJob, TypeOK
<1>6. CASE ScanOrphans
  <2>1. sweep' \subseteq {"mark", "delete"} \X Key
    BY <1>6 DEF ScanOrphans
  <2> QED BY <1>6, <2>1 DEF ScanOrphans, TypeOK
<1> QED BY <1>1, <1>2, <1>3, <1>4, <1>5, <1>6 DEF SchedulerStep

\* The job runners.
LEMMA WorkerTyped ==
  ASSUME TypeOK, NEW w \in Worker, WorkerStep(w)
  PROVE  TypeOK'
<1> USE DEF tables, runners, scheduler
<1>0. worker[w] \in Runner
  BY DEF TypeOK
<1>1. CASE ReadTable(w)
  <2>1. worker[w].key \in Key
    BY <1>0, <1>1 DEF ReadTable, Runner
  <2>2. [pc |-> "importing", key |-> worker[w].key, queued |-> 0, good |-> {}, bad |-> {}]
          \in Runner
    BY <2>1, TableImportAssumption DEF Runner
  <2> QED BY <1>1, <2>2 DEF ReadTable, TypeOK
<1>2. CASE QueueDataFrame(w)
  <2>1. worker[w] \in [pc : {"importing"}, key : Key, queued : 0 .. Frames,
                       good : SUBSET Frame, bad : SUBSET Frame]
    BY <1>0, <1>2 DEF QueueDataFrame, Runner
  <2>2. [worker[w] EXCEPT !.queued = @ + 1] \in Runner
    BY <1>2, <2>1, TableImportAssumption DEF QueueDataFrame, Runner
  <2>3. [by |-> w, key |-> worker[w].key, frame |-> worker[w].queued + 1]
          \in [by : Worker, key : Key, frame : Frame]
    BY <1>2, <2>1, TableImportAssumption DEF QueueDataFrame
  <2> QED BY <1>2, <2>2, <2>3 DEF QueueDataFrame, TypeOK
<1>3. CASE FinishImport(w)
  <2>1. worker[w].key \in Key
    BY <1>0, <1>3 DEF FinishImport, Runner
  <2>2. [pc |-> "reporting", key |-> worker[w].key] \in Runner
    BY <2>1 DEF Runner
  <2> QED BY <1>3, <2>2 DEF FinishImport, TypeOK
<1>4. CASE Complete(w)
  <2>1. worker[w].key \in Key /\ "completed" \in Ended
    BY <1>0, <1>4 DEF Complete, Runner, Ended
  <2>2. Idle \in Runner /\ [pc |-> "deleting", key |-> worker[w].key] \in Runner
    BY <2>1 DEF Runner, Idle
  <2>3. worker' \in [Worker -> Runner]
    BY <1>4, <2>2 DEF Complete, TypeOK
  <2> QED BY <1>4, <2>1, <2>3, UpdateStatusTyped DEF Complete, TypeOK
<1>5. CASE DeleteCompleted(w)
  <2>1. Idle \in Runner
    BY DEF Runner, Idle
  <2> QED BY <1>5, <2>1 DEF DeleteCompleted, DeleteJob, NoJob, TypeOK
<1>6. CASE JobFails(w)
  <2>1. worker[w].key \in Key /\ "error" \in Ended
    BY <1>0, <1>6 DEF JobFails, Fails, Runner, Ended
  <2>2. Idle \in Runner
    BY DEF Runner, Idle
  <2> QED BY <1>6, <2>1, <2>2, UpdateStatusTyped DEF JobFails, JobEndsEarly, TypeOK
<1> QED BY <1>1, <1>2, <1>3, <1>4, <1>5, <1>6 DEF WorkerStep

\* What may happen at any time: commands, timeouts, lost events, crashes, and
\* restarts of the router.
LEMMA OtherTyped ==
  ASSUME TypeOK, Next
  PROVE  TypeOK'
<1> USE DEF tables, runners, scheduler
<1>1. ASSUME NEW c \in Creator, Begin(c)
      PROVE  TypeOK'
  <2>1. creator[c] \in Command
    BY DEF TypeOK
  <2>2. ASSUME NEW t \in TId
        PROVE  [creator[c] EXCEPT !.pc = "done", !.table = t] \in Command
    BY <2>1 DEF Command
  <2>3. [creator[c] EXCEPT !.pc = "creating"] \in Command
    BY <2>1 DEF Command
  <2>4. creator' \in [Creator -> Command]
    BY <1>1, <2>2, <2>3 DEF Begin, TypeOK
  <2> QED BY <1>1, <2>4 DEF Begin, TypeOK
<1>2. ASSUME NEW c \in Creator, NEW d \in Creator, Join(c, d)
      PROVE  TypeOK'
  <2>1. creator[c] \in Command
    BY DEF TypeOK
  <2>2. [creator[c] EXCEPT !.pc = "joined"] \in Command
    BY <2>1 DEF Command
  <2> QED BY <1>2, <2>2 DEF Join, TypeOK
<1>3. ASSUME NEW c \in Creator, TimesOut(c)
      PROVE  TypeOK'
  <2>0. creator[c] \in Command
    BY DEF TypeOK
  <2>1. [creator[c] EXCEPT !.pc = "dropping", !.verdict = "error"] \in Command
    BY <2>0 DEF Command
  <2>2. creator' \in [Creator -> Command]
    BY <1>3, <2>1 DEF TimesOut, TypeOK
  <2>3. table' \in [TId -> {"free", "importing", "ready", "dropped"}]
    BY <1>3 DEF TimesOut, TypeOK
  <2> QED BY <1>3, <2>2, <2>3, FaultTyped DEF TimesOut, TypeOK
<1>4. ASSUME NEW t \in TId, LoseInsert(t)
      PROVE  TypeOK'
  BY <1>4, FaultTyped DEF LoseInsert, TypeOK
<1>5. ASSUME NEW c \in Creator, NEW l \in Location, LoseNews(c, l)
      PROVE  TypeOK'
  <2>1. creator[c] \in Command
    BY DEF TypeOK
  <2>2. Tail(creator[c].news[l]) \in Seq(Ended)
    <3>1. creator[c].news[l] \in Seq(Ended)
      BY <2>1 DEF Command
    <3> QED BY <1>5, <3>1 DEF LoseNews
  <2>3. [creator[c].news EXCEPT ![l] = Tail(@)] \in [Location -> Seq(Ended)]
    BY <2>1, <2>2 DEF Command
  <2>4. [creator[c] EXCEPT !.news = [creator[c].news EXCEPT ![l] = Tail(@)]] \in Command
    BY <2>1, <2>3 DEF Command
  <2>5. creator' \in [Creator -> Command]
    BY <1>5, <2>4 DEF LoseNews, TypeOK
  <2> QED BY <1>5, <2>5, FaultTyped DEF LoseNews, TypeOK
<1>6. CASE RouterRestart
  <2> DEFINE News == Seq(Ended)
  <2>1. <<>> \in News
    OBVIOUS
  <2> HIDE DEF News
  <2>2. NoNews \in [Location -> News]
    BY <2>1 DEF NoNews
  <2>3. ASSUME NEW c \in Creator
        PROVE  Result(c, "lost") \in Command
    <3>1. NoNews \in [Location -> Seq(Ended)]
      BY <2>2 DEF News
    <3>2. 0 \in 0 .. MaxRetries /\ creator[c].table \in {0} \cup TId
      BY TableImportAssumption DEF TypeOK, Command
    <3> QED BY <3>1, <3>2 DEF Command, Result, NotBegun
  <2>4. creator' \in [Creator -> Command]
    BY <1>6, <2>3 DEF RouterRestart, TypeOK
  <2> QED BY <1>6, <2>4, FaultTyped DEF RouterRestart, TypeOK
<1>7. ASSUME NEW w \in Worker, NEW k \in Key, StartJob(w, k)
      PROVE  TypeOK'
  <2>1. [pc |-> "starting", key |-> k] \in Runner
    BY DEF Runner
  <2> QED BY <1>7, <2>1 DEF StartJob, TypeOK
<1>8. ASSUME NEW w \in Worker, Crash(w)
      PROVE  TypeOK'
  <2>1. Idle \in Runner
    BY DEF Runner, Idle
  <2> QED BY <1>8, <2>1, FaultTyped DEF Crash, TypeOK
<1>9. ASSUME NEW w \in Worker, HeartBeat(w)
      PROVE  TypeOK'
  <2>1. /\ job \in [Key -> [status : {"none", "scheduled", "processing"} \cup Ended,
                           late : BOOLEAN]]
        /\ job' = [job EXCEPT ![worker[w].key].late = FALSE]
    BY <1>9 DEF HeartBeat, TypeOK
  <2>2. job' \in [Key -> [status : {"none", "scheduled", "processing"} \cup Ended,
                          late : BOOLEAN]]
    BY <2>1
  <2> QED BY <1>9, <2>2 DEF HeartBeat, TypeOK
<1>10. ASSUME NEW w \in Worker, NEW status \in {"error", "timeout"}, JobAborted(w, status)
      PROVE  TypeOK'
  <2>1. worker[w].key \in Key /\ status \in Ended /\ Idle \in Runner
    BY <1>10 DEF JobAborted, Runner, Ended, Idle, TypeOK
  <2>2. UpdateStatus(worker[w].key, status)
    BY <1>10 DEF JobAborted, JobEndsEarly
  <2> QED BY <1>10, <2>1, <2>2, UpdateStatusTyped, FaultTyped DEF JobAborted, JobEndsEarly, TypeOK
<1>11. ASSUME NEW f \in frames, FrameStep(f)
      PROVE  TypeOK'
  <2>1. f \in [by : Worker, key : Key, frame : Frame]
    BY DEF TypeOK
  <2>4. rows' \in [TId -> [Part -> Nat]]
    <3>1. rows \in [TId -> [Part -> Nat]]
      BY DEF TypeOK
    <3>2. f.key[1] \in TId /\ <<f.key[2], f.frame>> \in Part
      BY <2>1
    <3>3. [rows[f.key[1]] EXCEPT ![<<f.key[2], f.frame>>] = @ + 1] \in [Part -> Nat]
      <4> HIDE DEF Part
      <4>1. rows[f.key[1]] \in [Part -> Nat]
        BY <3>1, <3>2
      <4>2. rows[f.key[1]][<<f.key[2], f.frame>>] + 1 \in Nat
        BY <3>2, <4>1
      <4> QED BY <4>1, <4>2, ExceptTyped
    <3>4. rows' = [rows EXCEPT ![f.key[1]] =
                     [rows[f.key[1]] EXCEPT ![<<f.key[2], f.frame>>] = @ + 1]]
            \/ rows' = rows
      BY <1>11, <3>1, <3>2 DEF FrameStep, ActivateFrame, FrameFails
    <3> HIDE DEF Part
    <3> QED BY <3>1, <3>2, <3>3, <3>4
  <2>5. faults' \in 0 .. MaxFaults
    BY <1>11, FaultTyped DEF FrameStep, ActivateFrame, FrameFails, TypeOK
  <2>2. CASE Waits(f)
    <3>1. worker[f.by] \in [pc : {"importing"}, key : Key, queued : 0 .. Frames,
                            good : SUBSET Frame, bad : SUBSET Frame]
      BY <2>1, <2>2 DEF Waits, Runner, TypeOK
    <3>2. /\ [worker[f.by] EXCEPT !.good = @ \cup {f.frame}] \in Runner
          /\ [worker[f.by] EXCEPT !.bad = @ \cup {f.frame}] \in Runner
      BY <2>1, <3>1 DEF Runner
    <3>3. worker' \in [Worker -> Runner]
      BY <1>11, <2>1, <2>2, <3>2 DEF FrameStep, ActivateFrame, FrameFails, TypeOK
    <3> QED BY <1>11, <2>4, <2>5, <3>3 DEF FrameStep, ActivateFrame, FrameFails, TypeOK
  <2>3. CASE ~Waits(f)
    BY <1>11, <2>4, <2>5, <2>3 DEF FrameStep, ActivateFrame, FrameFails, TypeOK
  <2> QED BY <2>2, <2>3
<1>12. ASSUME NEW k \in Key, NobodyBeats(k)
      PROVE  TypeOK'
  BY <1>12, FaultTyped DEF NobodyBeats, TypeOK
<1> QED BY <1>1, <1>2, <1>3, <1>4, <1>5, <1>6, <1>7, <1>8, <1>9, <1>10, <1>11, <1>12,
           CreatorTyped, SchedulerTyped, WorkerTyped DEF Next

\* The variables have their types: news hold only ends of jobs, a command
\* retries at most MaxRetries times, a runner cuts at most Frames frames.
THEOREM TypeCorrect == Spec => []TypeOK
<1>1. TypeOK /\ UNCHANGED vars => TypeOK'
  BY DEF vars, TypeOK
<1> QED BY <1>1, InitTyped, OtherTyped, PTL DEF Spec

-----------------------------------------------------------------------------
(* A table that is ready is complete.                                       *)

\* The job of a location may still be added; it may still be started
Coming(k) == k \in placing \/ k[1] \in inserted \/ table[k[1]] = "free"
Unstarted(k) == Coming(k) \/ job[k].status = "scheduled"

NoFrames(k) == \A f \in frames : f.key # k
RowsAre(k, n) == Present(k[1]) => \A i \in Frame : rows[k[1]][<<k[2], i>>] = n
Imports(w, k) == worker[w].pc \in {"starting", "importing"} /\ worker[w].key = k

\* The location is imported, and no runner will change that
Imported(k) ==
  ~Unstarted(k) /\ NoFrames(k) /\ RowsAre(k, 1) /\ \A w \in Worker : ~Imports(w, k)

\* A job is added once
AddedOnce ==
  /\ \A k \in Key : Coming(k) => ~HasJob(k)
  /\ \A t \in inserted : table[t] # "free" /\ \A l \in Location : <<t, l>> \notin placing
  /\ \A k \in placing : table[k[1]] # "free"

\* and started once
StartedOnce ==
  /\ \A k \in Key : Unstarted(k) =>
       NoFrames(k) /\ RowsAre(k, 0) /\ \A w \in Worker : ~Running(w, k)
  /\ \A w, v \in Worker : \A k \in Key : Running(w, k) /\ Running(v, k) => w = v

\* A frame is on its way once, and then its rows are not active
FramesOnce ==
  /\ \A f, g \in frames : f.key = g.key /\ f.frame = g.frame => f = g
  /\ \A f \in frames : Present(f.key[1]) => rows[f.key[1]][<<f.key[2], f.frame>>] = 0

\* What a runner knows of a frame, and of all
Known(w, i) ==
  LET k == worker[w].key
      gone == \A f \in frames : ~(f.key = k /\ f.frame = i)
  IN  /\ worker[w].queued < i =>
           /\ i \notin worker[w].good /\ gone
           /\ Present(k[1]) => rows[k[1]][<<k[2], i>>] = 0
      /\ i \in worker[w].good =>
           gone /\ (Present(k[1]) => rows[k[1]][<<k[2], i>>] = 1)

RunnerKnows ==
  \A w \in Worker :
    /\ worker[w].pc = "starting" => NoFrames(worker[w].key) /\ RowsAre(worker[w].key, 0)
    /\ worker[w].pc = "importing" => \A i \in Frame : Known(w, i)
    /\ worker[w].pc \in {"reporting", "deleting"} => Imported(worker[w].key)

\* Who says completed is right
Heard(c, l) ==
  \/ \E i \in DOMAIN creator[c].news[l] : creator[c].news[l][i] = "completed"
  \/ creator[c].verdict = "ok" /\ l \notin creator[c].pending
  => Imported(<<creator[c].table, l>>)

CompletedIsImported ==
  /\ \A k \in Key : job[k].status = "completed" => Imported(k)
  /\ \A c \in Creator : creator[c].pc = "waiting" => \A l \in Location : Heard(c, l)
  /\ \A t \in TId : table[t] = "ready" => \A l \in Location : Imported(<<t, l>>)

\* The table of a command, where the command is
Fits(c) ==
  LET t == creator[c].table IN
  /\ creator[c].pc \in {"idle", "joined"} => t = 0
  /\ creator[c].pc \in {"waiting", "dropping", "done"} => t # 0
  /\ t # 0 => table[t] # "free"
  /\ creator[c].pc \in {"creating", "failed"} /\ t # 0 => table[t] = "dropped"

TablesOfCommands == \A c \in Creator : Fits(c)

\* When all say IF NOT EXISTS one command runs, and a table that is ready is
\* nobody's but that of a command that timed out
OneRuns ==
  /\ \A c, d \in Creator : Busy(c) /\ Busy(d) => c = d
  /\ \A c \in Creator : Busy(c) =>
       \A t \in TId : table[t] = "ready" => creator[c].pc = "dropping" /\ creator[c].table = t
  /\ \A c, d \in Creator : Busy(c) /\ creator[d].pc = "done" /\ creator[c].table # 0
       => creator[d].table # creator[c].table

-----------------------------------------------------------------------------
(* What a step does to tables, jobs and runners, whoever takes it.          *)

data == <<table, rows, job, worker, frames, inserted, placing>>

Created(t) ==
  /\ table[t] = "free" /\ inserted' = inserted \cup {t}
  /\ \A u \in TId : table'[u] = IF u = t THEN "importing"
                                ELSE IF table[u] = "free" THEN "free" ELSE "dropped"
  /\ rows' = [u \in TId |-> NoRows]
  /\ UNCHANGED <<job, worker, frames, placing>>

Readied(t) ==
  /\ \E c \in Creator : AllImported(c) /\ creator[c].table = t
  /\ Present(t) /\ table' = [table EXCEPT ![t] = "ready"]
  /\ UNCHANGED <<rows, job, worker, frames, inserted, placing>>

Removed(t) == Drop(t) /\ UNCHANGED <<job, worker, frames, inserted, placing>>

Forgotten ==
  /\ inserted' \subseteq inserted /\ placing' \subseteq placing
  /\ UNCHANGED <<table, rows, job, worker, frames>>

\* The row of a job changes, but not to scheduled or completed
Touched(k) ==
  \/ job' = job
  \/ /\ job' = [job EXCEPT ![k] = job'[k]]
     /\ job'[k].status # "none" => HasJob(k)
     /\ job'[k].status \in {"scheduled", "completed"} => job'[k].status = job[k].status

Noted(k) == Touched(k) /\ UNCHANGED <<table, rows, worker, frames, inserted, placing>>

Reported(w) ==
  /\ worker[w].pc = "reporting"
  /\ job' = [job EXCEPT ![worker[w].key] = [status |-> "completed", late |-> FALSE]]
  /\ HasJob(worker[w].key)
  /\ worker' = [worker EXCEPT ![w] = [pc |-> "deleting", key |-> worker[w].key]]
  /\ UNCHANGED <<table, rows, frames, inserted, placing>>

Stopped(w) ==
  /\ worker[w].pc # "idle"
  /\ worker' = [worker EXCEPT ![w] = Idle] /\ frames' \subseteq frames
  /\ Touched(worker[w].key)
  /\ UNCHANGED <<table, rows, inserted, placing>>

\* Every step is one of these.
LEMMA DataSteps ==
  ASSUME TypeOK, Next
  PROVE  \/ UNCHANGED data
         \/ \E t \in TId : Created(t) \/ Readied(t) \/ Removed(t) \/ HandleInsert(t)
         \/ Forgotten
         \/ \E k \in Key : AddJob(k) \/ Noted(k)
         \/ \E w \in Worker : \/ \E k \in Key : StartJob(w, k)
                              \/ ReadTable(w) \/ QueueDataFrame(w) \/ FinishImport(w)
                              \/ Reported(w) \/ Stopped(w)
         \/ \E f \in frames : FrameStep(f)
<1> DEFINE Goal == \/ UNCHANGED data
                   \/ \E t \in TId : Created(t) \/ Readied(t) \/ Removed(t) \/ HandleInsert(t)
                   \/ Forgotten
                   \/ \E k \in Key : AddJob(k) \/ Noted(k)
                   \/ \E w \in Worker :
                        \/ \E k \in Key : StartJob(w, k)
                        \/ ReadTable(w) \/ QueueDataFrame(w) \/ FinishImport(w)
                        \/ Reported(w) \/ Stopped(w)
                   \/ \E f \in frames : FrameStep(f)
<1> USE DEF tables, runners, scheduler
<1>1. ASSUME NEW c \in Creator, Create(c)
      PROVE  Goal
  <2>1. CASE CannotCreate(c)
    BY <1>1, <2>1 DEF Create, data
  <2>2. CASE ~CannotCreate(c)
    <3>1. PICK t \in TId : /\ table[t] = "free" /\ inserted' = inserted \cup {t}
                           /\ table' = [u \in TId |-> IF u = t THEN "importing"
                                                      ELSE Dropped(TId)[u]]
                           /\ rows' = [u \in TId |-> NoRows]
      BY <1>1, <2>2 DEF Create
    <3>2. \A u \in TId : table'[u] = IF u = t THEN "importing"
                                     ELSE IF table[u] = "free" THEN "free" ELSE "dropped"
      BY <3>1 DEF Dropped, Present, TypeOK
    <3> QED BY <1>1, <3>1, <3>2 DEF Create, Created
  <2> QED BY <2>1, <2>2
<1>2. ASSUME NEW c \in Creator, TableReady(c) \/ TimesOut(c)
      PROVE  Goal
  <2>1. creator[c].table \in TId \cup {0}
    BY DEF TypeOK, Command
  <2>2. CASE creator[c].table \in TId
    BY <1>2, <2>2 DEF TableReady, TimesOut, Readied, data
  <2>3. CASE creator[c].table = 0
    <3>1. [table EXCEPT ![creator[c].table] = "ready"] = table
      BY <2>3 DEF TypeOK
    <3> QED BY <1>2, <3>1 DEF TableReady, TimesOut, data
  <2> QED BY <2>1, <2>2, <2>3
<1>3. ASSUME NEW c \in Creator, DropTable(c)
      PROVE  Goal
  <2>1. creator[c].table \in TId \cup {0}
    BY DEF TypeOK, Command
  <2>2. CASE creator[c].table \in TId
    BY <1>3, <2>2 DEF DropTable, Removed
  <2>3. CASE creator[c].table = 0
    BY <1>3, <2>3 DEF DropTable, Drop, Dropped, data, TypeOK
  <2> QED BY <2>1, <2>2, <2>3
<1>4. ASSUME NEW t \in TId, DropNotReadyTable(t)
      PROVE  Goal
  BY <1>4 DEF DropNotReadyTable, Removed
<1>5. ASSUME RouterRestart \/ \E t \in TId : LoseInsert(t)
      PROVE  Goal
  BY <1>5 DEF RouterRestart, LoseInsert, Forgotten
<1>6. ASSUME NEW k \in Key, MarkOrphan(k) \/ DeleteOrphan(k) \/ NobodyBeats(k)
      PROVE  Goal
  <2>1. Touched(k)
    <3>1. CASE MarkOrphan(k)
      BY <3>1 DEF MarkOrphan, UpdateStatus, Touched, HasJob, TypeOK
    <3>2. CASE DeleteOrphan(k)
      <4>1. job' = [job EXCEPT ![k] = NoJob] /\ job'[k] = NoJob
        BY <3>2 DEF DeleteOrphan, DeleteJob, TypeOK
      <4>2. job' = [job EXCEPT ![k] = job'[k]]
        BY <4>1
      <4>3. job'[k].status = "none"
        BY <4>1 DEF NoJob
      <4> QED BY <4>2, <4>3 DEF Touched
    <3>3. CASE NobodyBeats(k)
      BY <3>3 DEF NobodyBeats, Touched, HasJob, TypeOK
    <3> QED BY <1>6, <3>1, <3>2, <3>3
  <2> QED BY <1>6, <2>1 DEF MarkOrphan, DeleteOrphan, NobodyBeats, Noted
<1>7. ASSUME NEW w \in Worker, HeartBeat(w)
      PROVE  Goal
  <2>1. worker[w].key \in Key
    BY <1>7 DEF HeartBeat, Runner, TypeOK
  <2>2. Touched(worker[w].key)
    <3>1. /\ job' = [job EXCEPT ![worker[w].key] = job'[worker[w].key]]
          /\ job'[worker[w].key].status = job[worker[w].key].status
      BY <1>7, <2>1 DEF HeartBeat, TypeOK
    <3> QED BY <3>1 DEF Touched, HasJob
  <2> QED BY <1>7, <2>1, <2>2 DEF HeartBeat, Noted
<1>8. ASSUME NEW w \in Worker, Complete(w)
      PROVE  Goal
  <2>1. worker[w].key \in Key
    BY <1>8 DEF Complete, Runner, TypeOK
  <2>2. CASE HasJob(worker[w].key)
    BY <1>8, <2>2 DEF Complete, UpdateStatus, Reported
  <2>3. CASE ~HasJob(worker[w].key)
    BY <1>8, <2>3 DEF Complete, UpdateStatus, Stopped, Touched
  <2> QED BY <2>2, <2>3
<1>9. ASSUME NEW w \in Worker, DeleteCompleted(w)
      PROVE  Goal
  <2>1. worker[w].key \in Key
    BY <1>9 DEF DeleteCompleted, Runner, TypeOK
  <2>2. Touched(worker[w].key)
    <3>1. job' = [job EXCEPT ![worker[w].key] = NoJob] /\ job'[worker[w].key] = NoJob
      BY <1>9, <2>1 DEF DeleteCompleted, DeleteJob, TypeOK
    <3>2. job' = [job EXCEPT ![worker[w].key] = job'[worker[w].key]]
      BY <3>1
    <3>3. job'[worker[w].key].status = "none"
      BY <3>1 DEF NoJob
    <3> QED BY <3>2, <3>3 DEF Touched
  <2> QED BY <1>9, <2>2 DEF DeleteCompleted, Stopped
<1>10. ASSUME NEW w \in Worker, NEW status \in {"error", "timeout"},
              JobEndsEarly(w, status), worker[w].pc \in {"starting", "importing"}
       PROVE  Stopped(w)
  <2>1. worker[w].key \in Key
    BY <1>10 DEF Runner, TypeOK
  <2>2. Touched(worker[w].key)
    BY <1>10, <2>1 DEF JobEndsEarly, UpdateStatus, Touched, HasJob, TypeOK
  <2> QED BY <1>10, <2>2 DEF JobEndsEarly, Stopped
<1>11. ASSUME NEW w \in Worker, JobFails(w)
       PROVE  Goal
  BY <1>10, <1>11 DEF JobFails, Fails
<1>12. ASSUME NEW w \in Worker, NEW status \in {"error", "timeout"}, JobAborted(w, status)
       PROVE  Goal
  BY <1>10, <1>12 DEF JobAborted
<1>13. ASSUME NEW w \in Worker, Crash(w)
       PROVE  Goal
  BY <1>13 DEF Crash, Stopped, Touched
<1>14. \/ \E c \in Creator, l \in Location : Receive(c, l) \/ Poll(c, l) \/ LoseNews(c, l)
       \/ \E c \in Creator : Begin(c) \/ \E d \in Creator : Join(c, d)
       \/ ScanOrphans
       => UNCHANGED data
  BY DEF Receive, Poll, LoseNews, Begin, Join, ScanOrphans, data
<1> HIDE DEF Goal
<1>15. ASSUME \/ \E t \in TId : HandleInsert(t)
              \/ \E k \in Key : AddJob(k)
              \/ \E w \in Worker, k \in Key : StartJob(w, k)
              \/ \E w \in Worker : ReadTable(w) \/ QueueDataFrame(w) \/ FinishImport(w)
              \/ \E f \in frames : FrameStep(f)
              \/ UNCHANGED data
       PROVE  Goal
  BY <1>15 DEF Goal
<1>16. (\E c \in Creator : CreatorStep(c)) => Goal
  BY <1>1, <1>2, <1>3, <1>14, <1>15 DEF CreatorStep
<1>17. SchedulerStep => Goal
  BY <1>4, <1>6, <1>14, <1>15 DEF SchedulerStep
<1>18. (\E w \in Worker : WorkerStep(w)) => Goal
  BY <1>8, <1>9, <1>11, <1>15 DEF WorkerStep
<1>19. (\E c \in Creator : Begin(c) \/ TimesOut(c) \/ \E d \in Creator : Join(c, d)) => Goal
  BY <1>2, <1>14, <1>15
<1>20. (\E w \in Worker : \/ Crash(w) \/ HeartBeat(w)
                        \/ \E status \in {"error", "timeout"} : JobAborted(w, status)) => Goal
  BY <1>7, <1>12, <1>13
<1>21. (\E c \in Creator, l \in Location : LoseNews(c, l)) => Goal
  BY <1>14, <1>15
<1>22. \/ \E c \in Creator : CreatorStep(c)
       \/ \E c \in Creator : Begin(c) \/ TimesOut(c) \/ \E d \in Creator : Join(c, d)
       \/ SchedulerStep
       \/ RouterRestart \/ \E t \in TId : LoseInsert(t)
       \/ \E c \in Creator, l \in Location : LoseNews(c, l)
       \/ \E w \in Worker, k \in Key : StartJob(w, k)
       \/ \E w \in Worker : WorkerStep(w)
       \/ \E w \in Worker : \/ Crash(w) \/ HeartBeat(w)
                          \/ \E status \in {"error", "timeout"} : JobAborted(w, status)
       \/ \E f \in frames : FrameStep(f)
       \/ \E k \in Key : NobodyBeats(k)
  BY DEF Next
<1>23. (\E w \in Worker, k \in Key : StartJob(w, k)) \/ (\E f \in frames : FrameStep(f)) => Goal
  BY <1>15
<1>24. (\E k \in Key : NobodyBeats(k)) => Goal
  BY <1>6
<1>25. Goal
  BY <1>5, <1>16, <1>17, <1>18, <1>19, <1>20, <1>21, <1>22, <1>23, <1>24
<1> QED BY <1>25 DEF Goal

-----------------------------------------------------------------------------
(* The parts of the invariant.                                              *)

\* A job is added once: nobody hears of the insertion of its table twice.
LEMMA AddedOnceStep ==
  ASSUME TypeOK, AddedOnce, Next
  PROVE  AddedOnce'
<1> USE DEF AddedOnce, Coming, HasJob, TypeOK, tables, runners, scheduler
<1>1. CASE UNCHANGED <<table, job, inserted, placing>>
  BY <1>1
<1>2. ASSUME NEW t \in TId, Created(t)
      PROVE  AddedOnce'
  BY <1>2 DEF Created
<1>3. ASSUME NEW t \in TId, Readied(t) \/ Removed(t)
      PROVE  AddedOnce'
  <2>1. \A u \in TId : table'[u] = "free" => table[u] = "free"
    BY <1>3 DEF Readied, Removed, Drop, Dropped, Present
  <2>2. \A u \in TId : table[u] = "free" => table'[u] = "free"
    BY <1>3 DEF Readied, Removed, Drop, Dropped, Present
  <2> QED BY <1>3, <2>1, <2>2 DEF Readied, Removed
<1>4. ASSUME NEW t \in TId, HandleInsert(t)
      PROVE  AddedOnce'
  BY <1>4 DEF HandleInsert
<1>5. CASE Forgotten
  BY <1>5 DEF Forgotten
<1>6. ASSUME NEW k \in Key, AddJob(k)
      PROVE  AddedOnce'
  BY <1>6 DEF AddJob
<1>7. ASSUME NEW k \in Key, Touched(k), UNCHANGED <<table, inserted, placing>>
      PROVE  AddedOnce'
  BY <1>7 DEF Touched
<1>8. ASSUME NEW w \in Worker, NEW k \in Key, StartJob(w, k)
      PROVE  AddedOnce'
  BY <1>8 DEF StartJob
<1>9. ASSUME NEW w \in Worker, Stopped(w) \/ Reported(w)
      PROVE  AddedOnce'
  <2>1. worker[w].key \in Key
    BY <1>9 DEF Stopped, Reported, Runner
  <2>2. CASE Stopped(w)
    BY <1>7, <2>1, <2>2 DEF Stopped
  <2>3. CASE Reported(w)
    BY <2>1, <2>3 DEF Reported
  <2> QED BY <1>9, <2>2, <2>3
<1>10. \/ UNCHANGED data
       \/ \E w \in Worker : ReadTable(w) \/ QueueDataFrame(w) \/ FinishImport(w)
       \/ \E f \in frames : FrameStep(f)
       => UNCHANGED <<table, job, inserted, placing>>
  BY DEF data, ReadTable, QueueDataFrame, FinishImport, FrameStep, ActivateFrame, FrameFails
<1> QED BY <1>1, <1>2, <1>3, <1>4, <1>5, <1>6, <1>7, <1>8, <1>9, <1>10, DataSteps DEF Noted

\* A job that was started is not started again.
LEMMA StartedStays ==
  ASSUME TypeOK, Next, NEW k \in Key, ~Unstarted(k)
  PROVE  ~Unstarted(k)'
<1> USE DEF Unstarted, Coming, HasJob, TypeOK, tables, runners, scheduler
<1>1. CASE UNCHANGED <<table, job, inserted, placing>>
  BY <1>1
<1>2. ASSUME NEW t \in TId, Created(t)
      PROVE  ~Unstarted(k)'
  BY <1>2 DEF Created
<1>3. ASSUME NEW t \in TId, Readied(t) \/ Removed(t)
      PROVE  ~Unstarted(k)'
  BY <1>3 DEF Readied, Removed, Drop, Dropped, Present
<1>4. ASSUME NEW t \in TId, HandleInsert(t)
      PROVE  ~Unstarted(k)'
  BY <1>4 DEF HandleInsert
<1>5. CASE Forgotten
  BY <1>5 DEF Forgotten
<1>6. ASSUME NEW j \in Key, AddJob(j)
      PROVE  ~Unstarted(k)'
  BY <1>6 DEF AddJob
<1>7. ASSUME NEW j \in Key, Touched(j), UNCHANGED <<table, inserted, placing>>
      PROVE  ~Unstarted(k)'
  BY <1>7 DEF Touched
<1>8. ASSUME NEW w \in Worker, NEW j \in Key, StartJob(w, j)
      PROVE  ~Unstarted(k)'
  BY <1>8 DEF StartJob
<1>9. ASSUME NEW w \in Worker, Stopped(w) \/ Reported(w)
      PROVE  ~Unstarted(k)'
  <2>1. worker[w].key \in Key
    BY <1>9 DEF Stopped, Reported, Runner
  <2>2. CASE Stopped(w)
    BY <1>7, <2>1, <2>2 DEF Stopped
  <2>3. CASE Reported(w)
    BY <2>1, <2>3 DEF Reported
  <2> QED BY <1>9, <2>2, <2>3
<1>10. \/ UNCHANGED data
       \/ \E w \in Worker : ReadTable(w) \/ QueueDataFrame(w) \/ FinishImport(w)
       \/ \E f \in frames : FrameStep(f)
       => UNCHANGED <<table, job, inserted, placing>>
  BY DEF data, ReadTable, QueueDataFrame, FinishImport, FrameStep, ActivateFrame, FrameFails
<1> QED BY <1>1, <1>2, <1>3, <1>4, <1>5, <1>6, <1>7, <1>8, <1>9, <1>10, DataSteps DEF Noted

\* The rows of a place change with its frame only, or with the table.
LEMMA RowsStay ==
  ASSUME TypeOK, Next, NEW k \in Key, table[k[1]] # "free", Present(k[1])', NEW i \in Frame
  PROVE  /\ Present(k[1])
         /\ \/ rows'[k[1]][<<k[2], i>>] = rows[k[1]][<<k[2], i>>]
            \/ \E f \in frames : f.key = k /\ f.frame = i /\ ActivateFrame(f)
<1> USE DEF TypeOK, Present, tables, runners, scheduler
<1>1. CASE UNCHANGED <<table, rows>>
  BY <1>1
<1>2. ASSUME NEW t \in TId, Created(t) \/ Readied(t) \/ Removed(t)
      PROVE  Present(k[1]) /\ rows'[k[1]] = rows[k[1]]
  BY <1>2 DEF Created, Readied, Removed, Drop, Dropped
<1>3. ASSUME NEW f \in frames, ActivateFrame(f)
      PROVE  /\ Present(k[1])
             /\ \/ rows'[k[1]][<<k[2], i>>] = rows[k[1]][<<k[2], i>>]
                \/ f.key = k /\ f.frame = i
  <2>1. table' = table /\ f.key \in Key
    BY <1>3 DEF ActivateFrame
  <2>2. CASE f.key = k /\ f.frame = i
    BY <2>1, <2>2
  <2>3. CASE f.key # k \/ f.frame # i
    <3>1. k[1] \in TId /\ <<k[2], i>> \in Part /\ rows \in [TId -> [Part -> Nat]]
      OBVIOUS
    <3>2. f.key[1] # k[1] \/ <<f.key[2], f.frame>> # <<k[2], i>>
      <4> HIDE DEF TypeOK
      <4> QED BY <2>1, <2>3
    <3>3. rows' = [rows EXCEPT ![f.key[1]] =
                     [rows[f.key[1]] EXCEPT ![<<f.key[2], f.frame>>] = @ + 1]]
      BY <1>3, <3>1 DEF ActivateFrame
    <3> HIDE DEF TypeOK, Part
    <3>4. rows'[k[1]][<<k[2], i>>] = rows[k[1]][<<k[2], i>>]
      BY <3>1, <3>2, <3>3
    <3> QED BY <2>1, <3>4
  <2> QED BY <2>2, <2>3
<1>4. \/ UNCHANGED data \/ Forgotten
      \/ \E t \in TId : HandleInsert(t)
      \/ \E j \in Key : AddJob(j) \/ Noted(j)
      \/ \E w \in Worker : \/ \E j \in Key : StartJob(w, j)
                           \/ ReadTable(w) \/ QueueDataFrame(w) \/ FinishImport(w)
                           \/ Reported(w) \/ Stopped(w)
      \/ \E f \in frames : FrameFails(f)
      => UNCHANGED <<table, rows>>
  BY DEF data, Forgotten, HandleInsert, AddJob, Noted, StartJob, ReadTable, QueueDataFrame,
         FinishImport, Reported, Stopped, FrameFails
<1> QED BY <1>1, <1>2, <1>3, <1>4, DataSteps DEF FrameStep

\* Frames come from runners that import.
LEMMA FramesCome ==
  ASSUME TypeOK, Next, NEW f \in frames', f \notin frames
  PROVE  \E w \in Worker : /\ QueueDataFrame(w)
                           /\ f.key = worker[w].key /\ f.frame = worker[w].queued + 1
<1> USE DEF tables, runners, scheduler
<1>1. ASSUME NEW w \in Worker, QueueDataFrame(w)
      PROVE  f.key = worker[w].key /\ f.frame = worker[w].queued + 1
  BY <1>1 DEF QueueDataFrame
<1>2. \/ UNCHANGED data \/ Forgotten
      \/ \E t \in TId : Created(t) \/ Readied(t) \/ Removed(t) \/ HandleInsert(t)
      \/ \E k \in Key : AddJob(k) \/ Noted(k)
      \/ \E w \in Worker : \/ \E k \in Key : StartJob(w, k)
                           \/ ReadTable(w) \/ FinishImport(w)
                           \/ Reported(w) \/ Stopped(w)
      \/ \E g \in frames : FrameStep(g)
      => frames' \subseteq frames
  BY DEF data, Forgotten, Created, Readied, Removed, HandleInsert, AddJob, Noted, StartJob,
         ReadTable, FinishImport, Reported, Stopped, FrameStep, ActivateFrame, FrameFails
<1> QED BY <1>1, <1>2, DataSteps

\* How a runner gets to where it is.
Comes(w) ==
  \/ worker'[w] = worker[w]
  \/ \E k \in Key : StartJob(w, k) /\ worker'[w] = [pc |-> "starting", key |-> k]
  \/ /\ ReadTable(w)
     /\ worker'[w] = [pc |-> "importing", key |-> worker[w].key, queued |-> 0,
                      good |-> {}, bad |-> {}]
  \/ QueueDataFrame(w) /\ worker'[w] = [worker[w] EXCEPT !.queued = @ + 1]
  \/ \E f \in frames : /\ ActivateFrame(f) /\ f.by = w /\ Waits(f)
                       /\ worker'[w] = [worker[w] EXCEPT !.good = @ \cup {f.frame}]
  \/ \E f \in frames : /\ FrameFails(f) /\ f.by = w /\ Waits(f)
                       /\ worker'[w] = [worker[w] EXCEPT !.bad = @ \cup {f.frame}]
  \/ FinishImport(w) /\ worker'[w] = [pc |-> "reporting", key |-> worker[w].key]
  \/ /\ worker[w].pc = "reporting"
     /\ worker'[w] = [pc |-> "deleting", key |-> worker[w].key]

LEMMA RunnerComes ==
  ASSUME TypeOK, Next, NEW w \in Worker, worker'[w].pc # "idle"
  PROVE  Comes(w)
<1> USE DEF tables, runners, scheduler
<1>0. DOMAIN worker = Worker /\ worker = [v \in Worker |-> worker[v]]
  BY DEF TypeOK
<1>1. \/ UNCHANGED data \/ Forgotten
      \/ \E t \in TId : Created(t) \/ Readied(t) \/ Removed(t) \/ HandleInsert(t)
      \/ \E k \in Key : AddJob(k) \/ Noted(k)
      => worker' = worker
  BY DEF data, Forgotten, Created, Readied, Removed, HandleInsert, AddJob, Noted
<1>2. ASSUME NEW v \in Worker, NEW k \in Key, StartJob(v, k)
      PROVE  Comes(w)
  BY <1>0, <1>2 DEF StartJob, Comes
<1>3. ASSUME NEW v \in Worker, ReadTable(v)
      PROVE  Comes(w)
  BY <1>0, <1>3 DEF ReadTable, Comes
<1>4. ASSUME NEW v \in Worker, QueueDataFrame(v)
      PROVE  Comes(w)
  BY <1>0, <1>4 DEF QueueDataFrame, Comes
<1>5. ASSUME NEW v \in Worker, FinishImport(v)
      PROVE  Comes(w)
  BY <1>0, <1>5 DEF FinishImport, Comes
<1>6. ASSUME NEW v \in Worker, Reported(v)
      PROVE  Comes(w)
  BY <1>0, <1>6 DEF Reported, Comes
<1>7. ASSUME NEW v \in Worker, Stopped(v)
      PROVE  Comes(w)
  BY <1>0, <1>7 DEF Stopped, Idle, Comes
<1>8. ASSUME NEW f \in frames, ActivateFrame(f)
      PROVE  Comes(w)
  <2>1. \/ worker'[w] = worker[w]
        \/ f.by = w /\ Waits(f) /\ worker'[w] = [worker[w] EXCEPT !.good = @ \cup {f.frame}]
    BY <1>0, <1>8 DEF ActivateFrame
  <2> QED BY <1>8, <2>1 DEF Comes
<1>9. ASSUME NEW f \in frames, FrameFails(f)
      PROVE  Comes(w)
  <2>1. \/ worker'[w] = worker[w]
        \/ f.by = w /\ Waits(f) /\ worker'[w] = [worker[w] EXCEPT !.bad = @ \cup {f.frame}]
    BY <1>0, <1>9 DEF FrameFails
  <2> QED BY <1>9, <2>1 DEF Comes
<1>10. worker' = worker => Comes(w)
  BY DEF Comes
<1> QED BY <1>1, <1>2, <1>3, <1>4, <1>5, <1>6, <1>7, <1>8, <1>9, <1>10, DataSteps DEF FrameStep

\* A runner keeps its key until it stops.
LEMMA KeyStays ==
  ASSUME TypeOK, Next, NEW w \in Worker, worker'[w].pc # "idle",
         \A k \in Key : ~(StartJob(w, k) /\ worker'[w] = [pc |-> "starting", key |-> k])
  PROVE  /\ worker[w].pc # "idle" /\ worker'[w].key = worker[w].key
         /\ worker'[w].pc \in {"starting", "importing"}
              => worker[w].pc \in {"starting", "importing"}
<1>1. worker[w] \in Runner
  BY DEF TypeOK
<1>2. CASE worker'[w] = worker[w]
  BY <1>2
<1>3. CASE QueueDataFrame(w) /\ worker'[w] = [worker[w] EXCEPT !.queued = @ + 1]
  BY <1>1, <1>3 DEF QueueDataFrame, Runner
<1>4. ASSUME NEW f \in frames, f.by = w, Waits(f),
             \/ worker'[w] = [worker[w] EXCEPT !.good = @ \cup {f.frame}]
             \/ worker'[w] = [worker[w] EXCEPT !.bad = @ \cup {f.frame}]
      PROVE  /\ worker[w].pc = "importing" /\ worker'[w].pc = "importing"
             /\ worker'[w].key = worker[w].key
  BY <1>1, <1>4 DEF Waits, Runner
<1>5. CASE \/ ReadTable(w) /\ worker'[w] = [pc |-> "importing", key |-> worker[w].key,
                                            queued |-> 0, good |-> {}, bad |-> {}]
           \/ FinishImport(w) /\ worker'[w] = [pc |-> "reporting", key |-> worker[w].key]
           \/ /\ worker[w].pc = "reporting"
              /\ worker'[w] = [pc |-> "deleting", key |-> worker[w].key]
  BY <1>5 DEF ReadTable, FinishImport
<1>6. Comes(w)
  BY RunnerComes
<1> QED BY <1>2, <1>3, <1>4, <1>5, <1>6 DEF Comes

\* From where a runner gets to each phase.
LEMMA PhaseBefore ==
  ASSUME TypeOK, Next, NEW w \in Worker, worker'[w].pc # "idle"
  PROVE  /\ worker'[w].pc = "starting" =>
              \/ worker'[w] = worker[w]
              \/ \E k \in Key : StartJob(w, k) /\ worker'[w] = [pc |-> "starting", key |-> k]
         /\ worker'[w].pc = "importing" =>
              \/ worker[w].pc = "importing"
              \/ /\ ReadTable(w)
                 /\ worker'[w] = [pc |-> "importing", key |-> worker[w].key, queued |-> 0,
                                  good |-> {}, bad |-> {}]
         /\ worker'[w].pc \in {"reporting", "deleting"} =>
              \/ FinishImport(w)
              \/ worker[w].pc \in {"reporting", "deleting"} /\ worker'[w].key = worker[w].key
<1>1. CASE worker'[w] = worker[w]
  BY <1>1
<1>2. CASE /\ worker[w].pc = "importing"
           /\ \/ worker'[w] = [worker[w] EXCEPT !.queued = @ + 1]
              \/ \E f \in frames : worker'[w] = [worker[w] EXCEPT !.good = @ \cup {f.frame}]
              \/ \E f \in frames : worker'[w] = [worker[w] EXCEPT !.bad = @ \cup {f.frame}]
  <2>1. worker[w] \in [pc : {"importing"}, key : Key, queued : 0 .. Frames,
                       good : SUBSET Frame, bad : SUBSET Frame]
    BY <1>2 DEF TypeOK, Runner
  <2>2. worker'[w].pc = "importing"
    BY <1>2, <2>1
  <2> QED BY <1>2, <2>2
<1>3. ASSUME NEW k \in Key, StartJob(w, k), worker'[w] = [pc |-> "starting", key |-> k]
      PROVE  worker'[w].pc = "starting"
  BY <1>3
<1>4. CASE \/ ReadTable(w) /\ worker'[w] = [pc |-> "importing", key |-> worker[w].key,
                                            queued |-> 0, good |-> {}, bad |-> {}]
           \/ FinishImport(w) /\ worker'[w] = [pc |-> "reporting", key |-> worker[w].key]
           \/ /\ worker[w].pc = "reporting"
              /\ worker'[w] = [pc |-> "deleting", key |-> worker[w].key]
  BY <1>4
<1>5. QueueDataFrame(w) => worker[w].pc = "importing"
  BY DEF QueueDataFrame
<1>6. \A f \in frames : f.by = w /\ Waits(f) => worker[w].pc = "importing"
  BY DEF Waits
<1>7. Comes(w)
  BY RunnerComes
<1>8. \/ worker'[w] = worker[w]
      \/ \E k \in Key : StartJob(w, k) /\ worker'[w] = [pc |-> "starting", key |-> k]
      \/ /\ worker[w].pc = "importing"
         /\ \/ worker'[w] = [worker[w] EXCEPT !.queued = @ + 1]
            \/ \E f \in frames : worker'[w] = [worker[w] EXCEPT !.good = @ \cup {f.frame}]
            \/ \E f \in frames : worker'[w] = [worker[w] EXCEPT !.bad = @ \cup {f.frame}]
      \/ ReadTable(w) /\ worker'[w] = [pc |-> "importing", key |-> worker[w].key,
                                       queued |-> 0, good |-> {}, bad |-> {}]
      \/ FinishImport(w) /\ worker'[w] = [pc |-> "reporting", key |-> worker[w].key]
      \/ /\ worker[w].pc = "reporting"
         /\ worker'[w] = [pc |-> "deleting", key |-> worker[w].key]
  BY <1>5, <1>6, <1>7 DEF Comes
<1> QED BY <1>1, <1>2, <1>3, <1>4, <1>8

\* A location that is imported stays so.
LEMMA ImportedStays ==
  ASSUME TypeOK, Next, NEW k \in Key, Imported(k)
  PROVE  Imported(k)'
<1>1. ~Unstarted(k)'
  BY StartedStays DEF Imported
<1>2. NoFrames(k)'
  <2>1. ASSUME NEW f \in frames', f.key = k
        PROVE  FALSE
    <3>1. PICK w \in Worker : QueueDataFrame(w) /\ f.key = worker[w].key
      BY <2>1, FramesCome DEF Imported, NoFrames
    <3> QED BY <2>1, <3>1 DEF Imported, Imports, QueueDataFrame
  <2> QED BY <2>1 DEF NoFrames
<1>3. RowsAre(k, 1)'
  <2>1. table[k[1]] # "free"
    BY DEF Imported, Unstarted, Coming
  <2>2. ASSUME Present(k[1])', NEW i \in Frame
        PROVE  rows'[k[1]][<<k[2], i>>] = 1
    BY <2>1, <2>2, RowsStay DEF Imported, NoFrames, RowsAre
  <2> QED BY <2>2 DEF RowsAre, Present
<1>4. ASSUME NEW w \in Worker, Imports(w, k)'
      PROVE  FALSE
  <2>1. ASSUME NEW j \in Key, StartJob(w, j), worker'[w] = [pc |-> "starting", key |-> j]
        PROVE  FALSE
    BY <1>4, <2>1 DEF Imports, StartJob, Imported, Unstarted
  <2>2. ~Imports(w, k)
    BY DEF Imported
  <2> QED BY <1>4, <2>1, <2>2, KeyStays DEF Imports
<1> QED BY <1>1, <1>2, <1>3, <1>4 DEF Imported

\* A job is started once.
LEMMA StartedOnceStep ==
  ASSUME TypeOK, AddedOnce, StartedOnce, Next
  PROVE  StartedOnce'
<1>1. ASSUME NEW k \in Key, Unstarted(k)'
      PROVE  NoFrames(k)' /\ RowsAre(k, 0)' /\ \A w \in Worker : ~Running(w, k)'
  <2>1. Unstarted(k)
    BY <1>1, StartedStays
  <2>2. NoFrames(k) /\ RowsAre(k, 0) /\ \A w \in Worker : ~Running(w, k)
    BY <2>1 DEF StartedOnce
  <2>3. ASSUME NEW f \in frames', f.key = k
        PROVE  FALSE
    <3>1. PICK w \in Worker : QueueDataFrame(w) /\ f.key = worker[w].key
      BY <2>2, <2>3, FramesCome DEF NoFrames
    <3> QED BY <2>2, <2>3, <3>1 DEF Running, QueueDataFrame
  <2>4. RowsAre(k, 0)'
    <3>1. CASE table[k[1]] = "free"
      <4>1. ASSUME NEW t \in TId, Created(t)
            PROVE  RowsAre(k, 0)'
        BY <4>1 DEF Created, RowsAre, NoRows, TypeOK
      <4>2. ASSUME NEW t \in TId, Readied(t) \/ Removed(t)
            PROVE  ~Present(k[1])'
        BY <3>1, <4>2 DEF Readied, Removed, Drop, Dropped, Present, TypeOK
      <4>3. \/ UNCHANGED data \/ Forgotten
            \/ \E t \in TId : HandleInsert(t)
            \/ \E j \in Key : AddJob(j) \/ Noted(j)
            \/ \E w \in Worker : \/ \E j \in Key : StartJob(w, j)
                                 \/ ReadTable(w) \/ QueueDataFrame(w) \/ FinishImport(w)
                                 \/ Reported(w) \/ Stopped(w)
            \/ \E f \in frames : FrameStep(f)
            => UNCHANGED table
        BY DEF data, Forgotten, HandleInsert, AddJob, Noted, StartJob, ReadTable,
               QueueDataFrame, FinishImport, Reported, Stopped, FrameStep, ActivateFrame,
               FrameFails, tables
      <4>4. UNCHANGED table => ~Present(k[1])'
        BY <3>1 DEF Present
      <4>5. ~Present(k[1])' => RowsAre(k, 0)'
        BY DEF RowsAre, Present
      <4> QED BY <4>1, <4>2, <4>3, <4>4, <4>5, DataSteps
    <3>2. CASE table[k[1]] # "free"
      <4>1. ASSUME Present(k[1])', NEW i \in Frame
            PROVE  rows'[k[1]][<<k[2], i>>] = 0
        BY <2>2, <3>2, <4>1, RowsStay DEF NoFrames, RowsAre
      <4> QED BY <4>1 DEF RowsAre, Present
    <3> QED BY <3>1, <3>2
  <2>5. ASSUME NEW w \in Worker, Running(w, k)'
        PROVE  FALSE
    <3>1. ASSUME NEW j \in Key, StartJob(w, j), worker'[w] = [pc |-> "starting", key |-> j]
          PROVE  FALSE
      <4>1. j = k
        BY <2>5, <3>1 DEF Running
      <4>2. HasJob(k) /\ job'[k].status = "processing"
        BY <3>1, <4>1 DEF StartJob, HasJob, TypeOK
      <4>3. Coming(k)' => Coming(k)
        BY <3>1 DEF StartJob, Coming, tables, scheduler
      <4> QED BY <1>1, <4>2, <4>3 DEF AddedOnce, Unstarted
    <3>2. ~Running(w, k)
      BY <2>2
    <3> QED BY <2>5, <3>1, <3>2, KeyStays DEF Running
  <2> QED BY <2>3, <2>4, <2>5 DEF NoFrames
<1>2. ASSUME NEW w \in Worker, NEW v \in Worker, NEW k \in Key,
             Running(w, k)', Running(v, k)', ~Running(w, k)
      PROVE  w = v
  <2>1. PICK j \in Key : StartJob(w, j) /\ worker'[w] = [pc |-> "starting", key |-> j]
    BY <1>2, KeyStays DEF Running
  <2>2. StartJob(w, k)
    BY <1>2, <2>1 DEF Running
  <2>3. ~Running(v, k)
    BY <2>2 DEF StartJob, Unstarted, StartedOnce
  <2> QED BY <1>2, <2>2, <2>3 DEF StartJob, Running, TypeOK
<1>3. ASSUME NEW w \in Worker, NEW v \in Worker, NEW k \in Key,
             Running(w, k)', Running(v, k)'
      PROVE  w = v
  BY <1>2, <1>3 DEF StartedOnce
<1> QED BY <1>1, <1>3 DEF StartedOnce

\* A new frame is one that its runner had not queued.
LEMMA NewFrame ==
  ASSUME TypeOK, RunnerKnows, Next, NEW w \in Worker, QueueDataFrame(w)
  PROVE  LET i == worker[w].queued + 1
             k == worker[w].key
         IN  /\ i \in Frame /\ k \in Key
             /\ \A g \in frames : ~(g.key = k /\ g.frame = i)
             /\ Present(k[1]) => rows[k[1]][<<k[2], i>>] = 0
<1>1. worker[w].queued \in 0 .. Frames /\ worker[w].queued < Frames /\ worker[w].key \in Key
  BY DEF QueueDataFrame, TypeOK, Runner
<1>2. worker[w].queued + 1 \in Frame /\ worker[w].queued < worker[w].queued + 1
  BY <1>1, TableImportAssumption
<1> QED BY <1>1, <1>2 DEF RunnerKnows, Known, QueueDataFrame

\* A frame is on its way once.
LEMMA FramesOnceStep ==
  ASSUME TypeOK, StartedOnce, FramesOnce, RunnerKnows, Next
  PROVE  FramesOnce'
<1>1. ASSUME NEW f \in frames', NEW g \in frames', f.key = g.key, f.frame = g.frame
      PROVE  f = g
  <2>1. CASE f \in frames /\ g \in frames
    BY <1>1, <2>1 DEF FramesOnce
  <2>2. CASE f \notin frames
    <3>1. PICK w \in Worker : /\ QueueDataFrame(w)
                              /\ f.key = worker[w].key /\ f.frame = worker[w].queued + 1
      BY <2>2, FramesCome
    <3> QED BY <1>1, <2>2, <3>1, NewFrame DEF QueueDataFrame
  <2>3. CASE g \notin frames
    <3>1. PICK w \in Worker : /\ QueueDataFrame(w)
                              /\ g.key = worker[w].key /\ g.frame = worker[w].queued + 1
      BY <2>3, FramesCome
    <3> QED BY <1>1, <2>3, <3>1, NewFrame DEF QueueDataFrame
  <2> QED BY <2>1, <2>2, <2>3
<1>2. ASSUME NEW f \in frames', Present(f.key[1])'
      PROVE  rows'[f.key[1]][<<f.key[2], f.frame>>] = 0
  <2>1. CASE f \in frames
    <3>1. f.key \in Key /\ f.frame \in Frame
      BY <2>1 DEF TypeOK
    <3>2. table[f.key[1]] # "free"
      BY <2>1, <3>1 DEF StartedOnce, Unstarted, Coming, NoFrames
    <3>3. ASSUME NEW g \in frames, g.key = f.key, g.frame = f.frame, ActivateFrame(g)
          PROVE  FALSE
      BY <1>2, <2>1, <3>3 DEF FramesOnce, ActivateFrame
    <3> QED BY <1>2, <2>1, <3>1, <3>2, <3>3, RowsStay DEF FramesOnce
  <2>2. CASE f \notin frames
    <3>1. PICK w \in Worker : /\ QueueDataFrame(w)
                              /\ f.key = worker[w].key /\ f.frame = worker[w].queued + 1
      BY <2>2, FramesCome
    <3>2. UNCHANGED <<table, rows>>
      BY <3>1 DEF QueueDataFrame, tables
    <3> QED BY <1>2, <3>1, <3>2, NewFrame DEF Present
  <2> QED BY <2>1, <2>2
<1> QED BY <1>1, <1>2 DEF FramesOnce, Present

\* Without a frame on its way to it a place stays as it is.
LEMMA PlaceStays ==
  ASSUME TypeOK, Next, NEW k \in Key, NEW i \in Frame, table[k[1]] # "free",
         \A f \in frames : ~(f.key = k /\ f.frame = i),
         \A w \in Worker : QueueDataFrame(w) =>
           ~(worker[w].key = k /\ worker[w].queued + 1 = i)
  PROVE  /\ \A f \in frames' : ~(f.key = k /\ f.frame = i)
         /\ Present(k[1])' => /\ Present(k[1])
                              /\ rows'[k[1]][<<k[2], i>>] = rows[k[1]][<<k[2], i>>]
<1>1. ASSUME NEW f \in frames', f.key = k, f.frame = i
      PROVE  FALSE
  BY <1>1, FramesCome
<1>2. ASSUME Present(k[1])'
      PROVE  Present(k[1]) /\ rows'[k[1]][<<k[2], i>>] = rows[k[1]][<<k[2], i>>]
  BY <1>2, RowsStay
<1> QED BY <1>1, <1>2

\* What a runner knows of a frame stays right, whoever takes a step.
LEMMA KnownStays ==
  ASSUME TypeOK, StartedOnce, FramesOnce, RunnerKnows, Next,
         NEW w \in Worker, worker[w].pc = "importing", worker'[w].pc = "importing",
         NEW i \in Frame
  PROVE  Known(w, i)'
<1>1. worker[w] \in [pc : {"importing"}, key : Key, queued : 0 .. Frames,
                     good : SUBSET Frame, bad : SUBSET Frame]
  BY DEF TypeOK, Runner
<1>0. PICK k \in Key : k = worker[w].key
  BY <1>1
<1> DEFINE gone == \A f \in frames : ~(f.key = k /\ f.frame = i)
<1>2. table[k[1]] # "free" /\ Running(w, k)
  BY <1>0, <1>1 DEF StartedOnce, Unstarted, Coming, Running
<1>3. ASSUME NEW v \in Worker, QueueDataFrame(v), worker[v].key = k
      PROVE  v = w
  BY <1>2, <1>3 DEF StartedOnce, Running, QueueDataFrame
<1>4. Known(w, i)
  BY DEF RunnerKnows
<1>5. ASSUME gone, ~(QueueDataFrame(w) /\ worker[w].queued + 1 = i)
      PROVE  gone' /\ (Present(k[1])' => /\ Present(k[1])
                                         /\ rows'[k[1]][<<k[2], i>>] = rows[k[1]][<<k[2], i>>])
  <2>1. ASSUME NEW v \in Worker, QueueDataFrame(v), worker[v].key = k
        PROVE  worker[v].queued + 1 # i
    BY <1>3, <1>5, <2>1
  <2> QED BY <1>2, <1>5, <2>1, PlaceStays
<1>6. CASE worker'[w] = worker[w]
  <2>1. ~QueueDataFrame(w)
    BY <1>1, <1>6 DEF QueueDataFrame, TypeOK
  <2> QED BY <1>0, <1>4, <1>5, <1>6, <2>1 DEF Known, Present
<1>7. CASE QueueDataFrame(w) /\ worker'[w] = [worker[w] EXCEPT !.queued = @ + 1]
  <2>1. /\ worker'[w].key = k /\ worker'[w].queued = worker[w].queued + 1
        /\ worker'[w].good = worker[w].good
    BY <1>0, <1>1, <1>7
  <2>2. worker'[w].queued < i => worker[w].queued < i /\ worker[w].queued + 1 # i
    BY <1>1, <2>1
  <2>3. i \in worker[w].good => worker[w].queued + 1 # i
    BY <1>1, <1>4 DEF Known
  <2> QED BY <1>0, <1>4, <1>5, <2>1, <2>2, <2>3 DEF Known, Present
<1>8. ASSUME NEW f \in frames, ActivateFrame(f), f.by = w, Waits(f),
             worker'[w] = [worker[w] EXCEPT !.good = @ \cup {f.frame}]
      PROVE  Known(w, i)'
  <2>1. /\ worker'[w].key = k /\ worker'[w].queued = worker[w].queued
        /\ worker'[w].good = worker[w].good \cup {f.frame} /\ f.key = k
    BY <1>0, <1>1, <1>8 DEF Waits
  <2>2. ~QueueDataFrame(w)
    <3>1. ASSUME QueueDataFrame(w) PROVE worker'[w].queued = worker[w].queued + 1
      <4>1. w \in DOMAIN worker
        BY DEF TypeOK
      <4> QED BY <1>1, <3>1, <4>1 DEF QueueDataFrame
    <3> QED BY <1>1, <2>1, <3>1
  <2>3. CASE f.frame = i
    <3>1. ~gone
      BY <2>1, <2>3
    <3>2. ~(worker[w].queued < i) /\ i \notin worker[w].good
      BY <1>0, <1>4, <3>1 DEF Known
    <3>3. \A g \in frames' : ~(g.key = k /\ g.frame = i)
      BY <1>8, <2>1, <2>3 DEF ActivateFrame, FramesOnce
    <3>4. rows'[k[1]][<<k[2], i>>] = 1
      <4>1. rows[k[1]][<<k[2], i>>] = 0
        BY <1>8, <2>1, <2>3 DEF ActivateFrame, FramesOnce
      <4>2. rows \in [TId -> [Part -> Nat]] /\ k[1] \in TId /\ <<k[2], i>> \in Part
        BY DEF TypeOK
      <4>3. rows' = [rows EXCEPT ![k[1]] = [rows[k[1]] EXCEPT ![<<k[2], i>>] = @ + 1]]
        BY <1>8, <2>1, <2>3, <4>2 DEF ActivateFrame
      <4> QED BY <4>1, <4>2, <4>3
    <3> QED BY <2>1, <3>2, <3>3, <3>4 DEF Known
  <2>4. CASE f.frame # i
    BY <1>0, <1>4, <1>5, <2>1, <2>2, <2>4 DEF Known, Present
  <2> QED BY <2>3, <2>4
<1>9. ASSUME NEW f \in frames, FrameFails(f), f.by = w, Waits(f),
             worker'[w] = [worker[w] EXCEPT !.bad = @ \cup {f.frame}]
      PROVE  Known(w, i)'
  <2>1. /\ worker'[w].key = k /\ worker'[w].queued = worker[w].queued
        /\ worker'[w].good = worker[w].good
    BY <1>0, <1>1, <1>9
  <2>2. ~QueueDataFrame(w)
    BY <1>1, <2>1 DEF QueueDataFrame, TypeOK
  <2> QED BY <1>0, <1>4, <1>5, <2>1, <2>2 DEF Known, Present
<1>10. ~(\E j \in Key : StartJob(w, j)) /\ ~ReadTable(w)
       /\ ~(FinishImport(w) /\ worker'[w] = [pc |-> "reporting", key |-> worker[w].key])
  BY DEF StartJob, ReadTable
<1> QED BY <1>6, <1>7, <1>8, <1>9, <1>10, RunnerComes DEF Comes

\* A location whose last frame is active is imported.
LEMMA FinishedIsImported ==
  ASSUME TypeOK, StartedOnce, RunnerKnows, Next, NEW w \in Worker, FinishImport(w)
  PROVE  Imported(worker[w].key)'
<1>1. worker[w] \in [pc : {"importing"}, key : Key, queued : 0 .. Frames,
                     good : SUBSET Frame, bad : SUBSET Frame]
  BY DEF TypeOK, Runner, FinishImport
<1>0. PICK k \in Key : k = worker[w].key
  BY <1>1
<1>2. Running(w, k) /\ ~Unstarted(k)
  BY <1>0, <1>1 DEF StartedOnce, Running
<1>3. UNCHANGED <<table, rows, frames>> /\ worker'[w] = [pc |-> "reporting", key |-> k]
  BY <1>0 DEF FinishImport, TypeOK
<1>4. \A i \in Frame : Known(w, i) /\ i \in worker[w].good
  BY <1>1 DEF RunnerKnows, FinishImport
<1>5. NoFrames(k)
  BY <1>0, <1>4 DEF NoFrames, Known, TypeOK
<1>6. RowsAre(k, 1)
  BY <1>0, <1>4 DEF RowsAre, Known
<1>7. ASSUME NEW v \in Worker, worker'[v].pc \in {"starting", "importing"}, worker'[v].key = k
      PROVE  FALSE
  <2>1. worker'[v] = worker[v] /\ v # w
    BY <1>3, <1>7 DEF FinishImport, TypeOK
  <2>2. Running(v, k)
    BY <1>7, <2>1 DEF Running
  <2> QED BY <1>2, <2>1, <2>2 DEF StartedOnce
<1>8. ~Unstarted(k)'
  BY <1>2, StartedStays
<1>9. worker'[w].key = k
  BY <1>3
<1> QED BY <1>3, <1>5, <1>6, <1>7, <1>8, <1>9
        DEF Imported, NoFrames, RowsAre, Present, Imports, Unstarted, Coming

\* What a runner knows of its frames stays right.
LEMMA RunnerKnowsStep ==
  ASSUME TypeOK, AddedOnce, StartedOnce, FramesOnce, RunnerKnows, Next
  PROVE  RunnerKnows'
<1> SUFFICES ASSUME NEW w \in Worker, worker'[w].pc # "idle"
             PROVE  /\ worker'[w].pc = "starting" =>
                         NoFrames(worker[w].key)' /\ RowsAre(worker[w].key, 0)'
                    /\ worker'[w].pc = "importing" => \A i \in Frame : Known(w, i)'
                    /\ worker'[w].pc \in {"reporting", "deleting"} => Imported(worker[w].key)'
  BY DEF RunnerKnows
<1>0. worker[w] \in Runner
  BY DEF TypeOK
<1>1. CASE worker'[w].pc = "starting"
  <2>1. ASSUME NEW k \in Key, StartJob(w, k), worker'[w] = [pc |-> "starting", key |-> k]
        PROVE  NoFrames(worker[w].key)' /\ RowsAre(worker[w].key, 0)'
    <3>1. NoFrames(k) /\ RowsAre(k, 0) /\ worker'[w].key = k
      BY <2>1 DEF StartJob, StartedOnce, Unstarted
    <3>2. UNCHANGED <<table, rows, frames>>
      BY <2>1 DEF StartJob, tables
    <3> QED BY <3>1, <3>2 DEF NoFrames, RowsAre, Present
  <2>2. CASE worker'[w] = worker[w]
    <3>0. PICK k \in Key : k = worker[w].key
      BY <1>0, <1>1, <2>2 DEF Runner
    <3>1. NoFrames(k) /\ RowsAre(k, 0) /\ Running(w, k)
      BY <1>1, <2>2, <3>0 DEF RunnerKnows, Running
    <3>2. table[k[1]] # "free"
      BY <3>1 DEF StartedOnce, Unstarted, Coming
    <3>3. ASSUME NEW v \in Worker, QueueDataFrame(v)
          PROVE  worker[v].key # k
      BY <1>1, <2>2, <3>0, <3>1, <3>3 DEF StartedOnce, Running, QueueDataFrame
    <3>4. \A f \in frames' : f.key # k
      BY <3>1, <3>3, FramesCome DEF NoFrames
    <3>5. ASSUME Present(k[1])', NEW i \in Frame
          PROVE  rows'[k[1]][<<k[2], i>>] = 0
      BY <3>1, <3>2, <3>5, RowsStay DEF NoFrames, RowsAre
    <3>6. worker'[w].key = k
      BY <2>2, <3>0
    <3>7. NoFrames(worker[w].key)'
      BY <3>4, <3>6 DEF NoFrames
    <3>8. RowsAre(worker[w].key, 0)'
      <4>1. Present(k[1])' => \A i \in Frame : rows'[k[1]][<<k[2], i>>] = 0
        BY <3>5
      <4> QED BY <3>6, <4>1 DEF RowsAre, Present
    <3> QED BY <1>1, <3>7, <3>8
  <2> QED BY <1>1, <2>1, <2>2, PhaseBefore
<1>2. CASE worker'[w].pc = "importing"
  <2>1. CASE worker[w].pc = "importing"
    BY <1>2, <2>1, KnownStays
  <2>2. CASE /\ ReadTable(w)
             /\ worker'[w] = [pc |-> "importing", key |-> worker[w].key, queued |-> 0,
                              good |-> {}, bad |-> {}]
    <3>1. NoFrames(worker[w].key) /\ RowsAre(worker[w].key, 0)
      BY <2>2 DEF RunnerKnows, ReadTable
    <3>2. UNCHANGED <<table, rows, frames>> /\ worker'[w].key = worker[w].key
          /\ worker'[w].good = {}
      BY <2>2 DEF ReadTable, tables
    <3> QED BY <1>2, <3>1, <3>2 DEF NoFrames, RowsAre, Known, Present
  <2> QED BY <1>2, <2>1, <2>2, PhaseBefore
<1>3. CASE worker'[w].pc \in {"reporting", "deleting"}
  <2>1. CASE FinishImport(w)
    BY <1>3, <2>1, FinishedIsImported
  <2>2. CASE worker[w].pc \in {"reporting", "deleting"} /\ worker'[w].key = worker[w].key
    <3>1. worker[w].key \in Key /\ Imported(worker[w].key)
      BY <1>0, <2>2 DEF RunnerKnows, Runner
    <3>2. \A k \in Key : Imported(k) => Imported(k)'
      BY ImportedStays
    <3> QED BY <1>3, <2>2, <3>1, <3>2
  <2> QED BY <1>3, <2>1, <2>2, PhaseBefore
<1> QED BY <1>1, <1>2, <1>3

\* A table that exists goes on to exist or is dropped, for good.
LEMMA TableMoves ==
  ASSUME TypeOK, Next, NEW t \in TId, table[t] # "free"
  PROVE  table'[t] # "free" /\ (table[t] = "dropped" => table'[t] = "dropped")
<1> USE DEF tables
<1>1. ASSUME NEW u \in TId, Created(u)
      PROVE  table'[t] = "dropped"
  BY <1>1 DEF Created
<1>2. ASSUME NEW u \in TId, Readied(u) \/ Removed(u)
      PROVE  table'[t] # "free" /\ (table[t] = "dropped" => table'[t] = "dropped")
  BY <1>2 DEF Readied, Removed, Drop, Dropped, Present, TypeOK
<1>3. \/ UNCHANGED data \/ Forgotten
      \/ \E u \in TId : HandleInsert(u)
      \/ \E k \in Key : AddJob(k) \/ Noted(k)
      \/ \E w \in Worker : \/ \E k \in Key : StartJob(w, k)
                           \/ ReadTable(w) \/ QueueDataFrame(w) \/ FinishImport(w)
                           \/ Reported(w) \/ Stopped(w)
      \/ \E f \in frames : FrameStep(f)
      => table' = table
  BY DEF data, Forgotten, HandleInsert, AddJob, Noted, StartJob, ReadTable, QueueDataFrame,
         FinishImport, Reported, Stopped, FrameStep, ActivateFrame, FrameFails
<1> QED BY <1>1, <1>2, <1>3, DataSteps

\* Steps that move no command to another phase or table, and those that do.
SamePlaces ==
  \A c \in Creator : creator'[c].pc = creator[c].pc /\ creator'[c].table = creator[c].table

LEMMA PlaceSteps ==
  ASSUME TypeOK, Next
  PROVE  \/ SamePlaces /\ \A t \in TId : table'[t] = "ready" => table[t] = "ready"
         \/ \E c \in Creator : \/ Begin(c) \/ Create(c) \/ TableReady(c) \/ DropTable(c)
                               \/ TimesOut(c) \/ \E d \in Creator : Join(c, d)
         \/ RouterRestart
<1> USE DEF tables, runners, scheduler
<1>1. UNCHANGED creator => SamePlaces
  BY DEF SamePlaces
<1>2. ASSUME NEW k \in Key, NEW status, Publish(k, status)
      PROVE  SamePlaces
  <2>1. ASSUME NEW c \in Creator
        PROVE  LET e == [creator[c] EXCEPT !.news[k[2]] = Append(@, status)]
               IN  e.pc = creator[c].pc /\ e.table = creator[c].table
    BY DEF TypeOK, Command
  <2> QED BY <1>2, <2>1 DEF Publish, SamePlaces
<1>3. ASSUME NEW k \in Key, NEW status, UpdateStatus(k, status)
      PROVE  SamePlaces
  BY <1>1, <1>2, <1>3 DEF UpdateStatus
<1>4. ASSUME NEW c \in Creator, NEW l \in Location, Receive(c, l) \/ Poll(c, l) \/ LoseNews(c, l)
      PROVE  SamePlaces
  <2>1. creator[c] \in Command
    BY DEF TypeOK
  <2>2. ASSUME NEW status
        PROVE  LET e == Resolution(creator[c], l, status)
               IN  e.pc = creator[c].pc /\ e.table = creator[c].table
    BY <2>1 DEF Resolution, Command
  <2>3. LET e == [creator[c] EXCEPT !.news[l] = Tail(@)]
        IN  e.pc = creator[c].pc /\ e.table = creator[c].table
    BY <2>1 DEF Command
  <2>4. CASE LoseNews(c, l)
    BY <2>3, <2>4 DEF LoseNews, SamePlaces, TypeOK
  <2>5. ASSUME NEW status, creator' = Resolved(c, l, status)
        PROVE  SamePlaces
    BY <2>2, <2>5 DEF Resolved, SamePlaces, TypeOK
  <2> QED BY <1>4, <2>4, <2>5 DEF Receive, Poll
<1>5. ASSUME NEW w \in Worker, Complete(w) \/ JobFails(w)
             \/ \E status \in {"error", "timeout"} : JobAborted(w, status)
      PROVE  SamePlaces
  <2>1. worker[w].key \in Key
    BY <1>5 DEF Complete, JobFails, Fails, JobAborted, TypeOK, Runner
  <2> QED BY <1>3, <1>5, <2>1 DEF Complete, JobFails, JobAborted, JobEndsEarly
<1>6. ASSUME NEW k \in Key, MarkOrphan(k)
      PROVE  SamePlaces
  BY <1>3, <1>6 DEF MarkOrphan
<1>7. \/ ScanOrphans
      \/ \E t \in TId : HandleInsert(t) \/ DropNotReadyTable(t) \/ LoseInsert(t)
      \/ \E k \in Key : AddJob(k) \/ DeleteOrphan(k) \/ NobodyBeats(k)
      \/ \E w \in Worker : \/ \E k \in Key : StartJob(w, k)
                           \/ ReadTable(w) \/ QueueDataFrame(w) \/ FinishImport(w)
                           \/ DeleteCompleted(w) \/ Crash(w) \/ HeartBeat(w)
      \/ \E f \in frames : FrameStep(f)
      => UNCHANGED creator
  BY DEF ScanOrphans, HandleInsert, DropNotReadyTable, LoseInsert, AddJob, DeleteOrphan,
         NobodyBeats, StartJob, ReadTable, QueueDataFrame, FinishImport, DeleteCompleted,
         Crash, HeartBeat, FrameStep, ActivateFrame, FrameFails
<1>8. \/ SamePlaces
      \/ \E c \in Creator : \/ Begin(c) \/ Create(c) \/ TableReady(c) \/ DropTable(c)
                            \/ TimesOut(c) \/ \E d \in Creator : Join(c, d)
      \/ RouterRestart
  BY <1>1, <1>4, <1>5, <1>6, <1>7 DEF Next, CreatorStep, SchedulerStep, WorkerStep
<1>9. ASSUME NEW t \in TId, table'[t] = "ready", table[t] # "ready"
      PROVE  \E c \in Creator : TableReady(c) \/ TimesOut(c)
  <2>1. ASSUME NEW c \in Creator, Create(c)
        PROVE  FALSE
    BY <1>9, <2>1 DEF Create, Dropped, TypeOK
  <2>2. ASSUME NEW u, Drop(u)
        PROVE  FALSE
    BY <1>9, <2>2 DEF Drop, Dropped
  <2>3. \/ SchedulerStep /\ \A u \in TId : ~DropNotReadyTable(u)
        \/ \E c \in Creator : \/ Begin(c) \/ \E d \in Creator : Join(c, d)
                              \/ \E l \in Location : Receive(c, l) \/ Poll(c, l) \/ LoseNews(c, l)
        \/ RouterRestart \/ \E u \in TId : LoseInsert(u)
        \/ \E w \in Worker : \/ \E k \in Key : StartJob(w, k)
                             \/ WorkerStep(w) \/ Crash(w) \/ HeartBeat(w)
                             \/ \E status \in {"error", "timeout"} : JobAborted(w, status)
        \/ \E f \in frames : FrameStep(f)
        \/ \E k \in Key : NobodyBeats(k)
        => table' = table
    BY DEF SchedulerStep, HandleInsert, AddJob, MarkOrphan, DeleteOrphan, ScanOrphans, Begin,
           Join, Receive, Poll, LoseNews, RouterRestart, LoseInsert, StartJob, WorkerStep,
           ReadTable, QueueDataFrame, FinishImport, Complete, DeleteCompleted, JobFails,
           JobEndsEarly, Crash, HeartBeat, JobAborted, FrameStep, ActivateFrame, FrameFails,
           NobodyBeats
  <2>4. \A c \in Creator : ~DropTable(c)
    BY <2>2 DEF DropTable
  <2>5. \A u \in TId : ~DropNotReadyTable(u)
    BY <2>2 DEF DropNotReadyTable
  <2> QED BY <1>9, <2>1, <2>3, <2>4, <2>5 DEF Next, CreatorStep
<1> QED BY <1>8, <1>9

\* The end of a command, and of those that joined it.
LEMMA ReturnGives ==
  ASSUME TypeOK, NEW c \in Creator, NEW pc, Return(c, pc), NEW d \in Creator
  PROVE  \/ creator'[d].pc = creator[d].pc /\ creator'[d].table = creator[d].table
         \/ /\ d = c \/ (c \in IfNotExists /\ creator[d].pc = "joined")
            /\ creator'[d].pc = pc /\ creator'[d].table = creator[c].table
BY DEF Return, Result, NotBegun

\* Where a command is fits what became of its table.
LEMMA TablesOfCommandsStep ==
  ASSUME TypeOK, TablesOfCommands, Next
  PROVE  TablesOfCommands'
<1>1. \A c \in Creator : Fits(c) /\ creator[c].table \in {0} \cup TId
  BY DEF TablesOfCommands, TypeOK, Command
<1>2. ASSUME NEW c \in Creator, creator'[c].pc = creator[c].pc,
             creator'[c].table = creator[c].table
      PROVE  Fits(c)'
  BY <1>1, <1>2, TableMoves DEF Fits
<1>3. ASSUME NEW c \in Creator, creator'[c].table = 0,
             creator'[c].pc \notin {"waiting", "dropping", "done"}
      PROVE  Fits(c)'
  BY <1>3 DEF Fits
<1>4. ASSUME NEW c \in Creator, Begin(c), NEW d \in Creator
      PROVE  Fits(d)'
  <2>1. CASE d # c
    BY <1>2, <1>4, <2>1 DEF Begin, TypeOK
  <2>2. CASE creator' = [creator EXCEPT ![c].pc = "creating"]
    <3>1. creator'[c].pc = "creating" /\ creator'[c].table = creator[c].table
      BY <2>2 DEF TypeOK, Command
    <3>2. creator[c].table = 0
      BY <1>1, <1>4 DEF Begin, Fits
    <3> QED BY <1>3, <2>1, <3>1, <3>2
  <2>3. ASSUME NEW t \in TId, table[t] = "ready",
               creator' = [creator EXCEPT ![c].pc = "done", ![c].table = t]
        PROVE  Fits(d)'
    BY <1>2, <1>4, <2>1, <2>3 DEF Begin, TypeOK, Command, Fits, tables
  <2> QED BY <1>4, <2>1, <2>2, <2>3 DEF Begin
<1>5. ASSUME NEW c \in Creator, NEW e \in Creator, Join(c, e), NEW d \in Creator
      PROVE  Fits(d)'
  BY <1>1, <1>2, <1>3, <1>5 DEF Join, TypeOK, Command, Fits
<1>6. ASSUME NEW c \in Creator, Create(c), NEW d \in Creator
      PROVE  Fits(d)'
  <2>1. CASE CannotCreate(c)
    <3>1. Return(c, "failed") /\ table' = table
      BY <1>6, <2>1 DEF Create
    <3>2. creator[c].table # 0 => table[creator[c].table] = "dropped"
      BY <1>1, <1>6 DEF Fits, Create
    <3>3. \/ creator'[d].pc = creator[d].pc /\ creator'[d].table = creator[d].table
          \/ creator'[d].pc = "failed" /\ creator'[d].table = creator[c].table
      BY <3>1, ReturnGives
    <3> QED BY <1>2, <3>1, <3>2, <3>3 DEF Fits
  <2>2. CASE ~CannotCreate(c) /\ d = c
    <3>1. PICK t \in TId : /\ table' = [u \in TId |-> IF u = t THEN "importing"
                                                      ELSE Dropped(TId)[u]]
                           /\ creator' = [creator EXCEPT ![c] =
                                [@ EXCEPT !.pc = "waiting", !.table = t, !.pending = Location,
                                          !.news = NoNews, !.verdict = "ok"]]
      BY <1>6, <2>2 DEF Create
    <3>2. creator'[c].pc = "waiting" /\ creator'[c].table = t /\ table'[t] = "importing"
      BY <3>1 DEF TypeOK, Command
    <3> QED BY <2>2, <3>2 DEF Fits
  <2>3. CASE ~CannotCreate(c) /\ d # c
    BY <1>2, <1>6, <2>3 DEF Create, TypeOK
  <2> QED BY <2>1, <2>2, <2>3
<1>7. ASSUME NEW c \in Creator, TableReady(c), NEW d \in Creator
      PROVE  Fits(d)'
  <2>1. CASE Present(creator[c].table)
    <3>1. Return(c, "done")
      BY <1>7, <2>1 DEF TableReady
    <3>2. creator[c].table \in TId /\ table[creator[c].table] # "free"
      BY <1>1, <1>7 DEF TableReady, AllImported, Fits
    <3>3. table'[creator[c].table] # "free"
      BY <3>2, TableMoves
    <3> QED BY <1>2, <3>1, <3>2, <3>3, ReturnGives DEF Fits
  <2>2. CASE ~Present(creator[c].table)
    <3>1. creator' = [creator EXCEPT ![c].pc = "dropping"]
      BY <1>7, <2>2 DEF TableReady
    <3> QED BY <1>1, <1>2, <1>7, <3>1, TableMoves
            DEF TypeOK, Command, Fits, TableReady, AllImported
  <2> QED BY <2>1, <2>2
<1>8. ASSUME NEW c \in Creator, DropTable(c), NEW d \in Creator
      PROVE  Fits(d)'
  <2>1. creator[c].table \in TId /\ table[creator[c].table] # "free"
    BY <1>1, <1>8 DEF DropTable, Fits
  <2>2. table'[creator[c].table] = "dropped"
    BY <1>8, <2>1 DEF DropTable, Drop, Dropped, Present, TypeOK
  <2>3. CASE Retries(c)
    <3>1. Again(creator[c]).pc = "creating" /\ Again(creator[c]).table = creator[c].table
      BY DEF Again, TypeOK, Command
    <3>2. creator' = [creator EXCEPT ![c] = Again(creator[c])]
      BY <1>8, <2>3 DEF DropTable
    <3> QED BY <1>2, <2>1, <2>2, <3>1, <3>2 DEF Fits, TypeOK
  <2>4. CASE ~Retries(c)
    BY <1>2, <1>8, <2>2, <2>4, ReturnGives DEF Fits, DropTable
  <2> QED BY <2>3, <2>4
<1>9. ASSUME NEW c \in Creator, TimesOut(c), NEW d \in Creator
      PROVE  Fits(d)'
  <2>1. creator' = [creator EXCEPT ![c].pc = "dropping", ![c].verdict = "error"]
    BY <1>9 DEF TimesOut
  <2>2. /\ creator'[d].table = creator[d].table
        /\ d = c => creator[d].pc = "waiting" /\ creator'[d].pc = "dropping"
        /\ d # c => creator'[d].pc = creator[d].pc
    BY <1>9, <2>1 DEF TypeOK, Command, TimesOut
  <2> QED BY <1>1, <1>2, <2>2, TableMoves DEF Fits
<1>10. ASSUME RouterRestart, NEW d \in Creator
       PROVE  Fits(d)'
  <2>1. \/ creator'[d] = creator[d]
        \/ creator'[d].pc = "lost" /\ creator'[d].table = creator[d].table
    BY <1>10 DEF RouterRestart, Result, NotBegun
  <2> QED BY <1>1, <1>2, <2>1, TableMoves DEF Fits
<1>11. SamePlaces => \A d \in Creator : Fits(d)'
  BY <1>2 DEF SamePlaces
<1>12. \A d \in Creator : Fits(d)'
  BY <1>4, <1>5, <1>6, <1>7, <1>8, <1>9, <1>10, <1>11, PlaceSteps
<1> QED BY <1>12 DEF TablesOfCommands

\* What a command hears of its jobs is right: the news of a change,
LEMMA PublishHeard ==
  ASSUME TypeOK, NEW k \in Key, NEW status \in Ended, Publish(k, status), Next,
         status = "completed" => Imported(k),
         NEW c \in Creator, creator'[c].pc = "waiting", creator[c].table \in TId,
         NEW l \in Location, Heard(c, l)
  PROVE  Heard(c, l)'
<1>1. creator[c].news \in [Location -> Seq(Ended)] /\ <<creator[c].table, l>> \in Key
  BY DEF TypeOK, Command
<1>2. CASE creator'[c] = creator[c]
  BY <1>1, <1>2, ImportedStays DEF Heard
<1>3. CASE /\ creator[c].table = k[1]
           /\ creator'[c] = [creator[c] EXCEPT !.news[k[2]] = Append(@, status)]
  <2>1. /\ creator'[c].table = creator[c].table /\ creator'[c].verdict = creator[c].verdict
        /\ creator'[c].pending = creator[c].pending
        /\ creator'[c].news = [creator[c].news EXCEPT ![k[2]] = Append(@, status)]
    BY <1>3 DEF TypeOK, Command
  <2>2. CASE l # k[2]
    <3>1. creator'[c].news[l] = creator[c].news[l]
      BY <1>1, <2>1, <2>2
    <3> QED BY <1>1, <2>1, <3>1, ImportedStays DEF Heard
  <2>3. CASE l = k[2]
    <3>1. creator'[c].news[l] = Append(creator[c].news[l], status)
      BY <1>1, <2>1, <2>3
    <3>2. ASSUME NEW i \in DOMAIN creator'[c].news[l], creator'[c].news[l][i] = "completed"
          PROVE  Imported(<<creator[c].table, l>>)
      <4>1. creator[c].news[l] \in Seq(Ended)
        BY <1>1
      <4>2. CASE i \in DOMAIN creator[c].news[l]
        BY <3>1, <3>2, <4>1, <4>2 DEF Heard
      <4>3. CASE i \notin DOMAIN creator[c].news[l]
        <5>1. status = "completed"
          BY <3>1, <3>2, <4>1, <4>3
        <5> QED BY <1>3, <2>3, <5>1
      <4> QED BY <4>2, <4>3
    <3>3. creator'[c].verdict = "ok" /\ l \notin creator'[c].pending
            => Imported(<<creator[c].table, l>>)
      BY <2>1 DEF Heard
    <3> QED BY <1>1, <2>1, <3>2, <3>3, ImportedStays DEF Heard
  <2> QED BY <2>2, <2>3
<1> QED BY <1>2, <1>3 DEF Publish

\* the news it reads or the row it looks up,
LEMMA ResolvedHeard ==
  ASSUME TypeOK, Next, NEW c \in Creator, NEW m \in Location, NEW status,
         creator' = Resolved(c, m, status), creator[c].table \in TId,
         status = "completed" => Imported(<<creator[c].table, m>>),
         NEW l \in Location, Heard(c, l)
  PROVE  Heard(c, l)'
<1>1. creator[c] \in Command /\ <<creator[c].table, l>> \in Key
  BY DEF TypeOK
<1>2. /\ creator'[c].table = creator[c].table
      /\ creator'[c].pending = creator[c].pending \ {m}
      /\ creator'[c].news = [creator[c].news EXCEPT ![m] = <<>>]
      /\ creator'[c].verdict = Verdict(creator[c].verdict, status)
  BY <1>1 DEF Resolved, Resolution, TypeOK, Command
<1>3. \A i \in DOMAIN creator'[c].news[l] :
        l # m /\ creator'[c].news[l] = creator[c].news[l]
  BY <1>1, <1>2 DEF Command
<1>4. creator'[c].verdict = "ok" => creator[c].verdict = "ok" /\ status = "completed"
  BY <1>2 DEF Verdict
<1>5. (\E i \in DOMAIN creator'[c].news[l] : creator'[c].news[l][i] = "completed")
        => Imported(<<creator[c].table, l>>)
  BY <1>3 DEF Heard
<1>6. creator'[c].verdict = "ok" /\ l \notin creator'[c].pending
        => Imported(<<creator[c].table, l>>)
  BY <1>2, <1>4 DEF Heard
<1> QED BY <1>1, <1>2, <1>5, <1>6, ImportedStays DEF Heard

\* and what is left of the news when some are lost.
LEMMA LostHeard ==
  ASSUME TypeOK, Next, NEW c \in Creator, NEW m \in Location, LoseNews(c, m),
         creator[c].table \in TId, NEW l \in Location, Heard(c, l)
  PROVE  Heard(c, l)'
<1>1. creator[c] \in Command /\ <<creator[c].table, l>> \in Key
  BY DEF TypeOK
<1>2. /\ creator'[c].table = creator[c].table /\ creator'[c].verdict = creator[c].verdict
      /\ creator'[c].pending = creator[c].pending
      /\ creator'[c].news = [creator[c].news EXCEPT ![m] = Tail(@)]
  BY <1>1 DEF LoseNews, TypeOK, Command
<1>3. ASSUME NEW i \in DOMAIN creator'[c].news[l], creator'[c].news[l][i] = "completed"
      PROVE  \E j \in DOMAIN creator[c].news[l] : creator[c].news[l][j] = "completed"
  <2>1. creator[c].news[l] \in Seq(Ended)
    BY <1>1 DEF Command
  <2>2. CASE l = m
    <3>1. creator'[c].news[l] = Tail(creator[c].news[l]) /\ creator[c].news[l] # <<>>
      BY <1>1, <1>2, <2>2 DEF Command, LoseNews
    <3>2. i + 1 \in DOMAIN creator[c].news[l] /\ creator[c].news[l][i + 1] = "completed"
      BY <1>3, <2>1, <3>1
    <3> QED BY <3>2
  <2>3. CASE l # m
    BY <1>1, <1>2, <1>3, <2>3 DEF Command
  <2> QED BY <2>2, <2>3
<1> QED BY <1>1, <1>2, <1>3, ImportedStays DEF Heard

\* What ended as completed is imported: rows of jobs, news, verdicts, tables.
LEMMA CompletedIsImportedStep ==
  ASSUME TypeOK, StartedOnce, FramesOnce, RunnerKnows, TablesOfCommands,
         CompletedIsImported, Next
  PROVE  CompletedIsImported'
<1> USE DEF tables, runners, scheduler
<1>1. ASSUME NEW k \in Key, job'[k].status = "completed"
      PROVE  Imported(k)'
  <2>1. CASE job[k].status = "completed"
    BY <2>1, ImportedStays DEF CompletedIsImported
  <2>2. ASSUME NEW w \in Worker, Reported(w), worker[w].key = k
        PROVE  Imported(k)'
    BY <2>2, ImportedStays DEF Reported, RunnerKnows
  <2>3. ASSUME NEW j \in Key, Touched(j)
        PROVE  job[k].status = "completed"
    BY <1>1, <2>3 DEF Touched, TypeOK
  <2>4. ASSUME NEW w \in Worker, Reported(w), worker[w].key # k
        PROVE  job[k].status = "completed"
    <3>1. worker[w].key \in Key
      BY <2>4 DEF Reported, TypeOK, Runner
    <3> QED BY <1>1, <2>4, <3>1 DEF Reported, TypeOK
  <2>5. ASSUME NEW w \in Worker, Stopped(w)
        PROVE  job[k].status = "completed"
    <3>1. worker[w].key \in Key
      BY <2>5 DEF Stopped, TypeOK, Runner
    <3> QED BY <2>3, <2>5, <3>1 DEF Stopped
  <2>6. ASSUME NEW j \in Key, AddJob(j) \/ \E w \in Worker : StartJob(w, j)
        PROVE  job[k].status = "completed"
    <3>1. CASE AddJob(j)
      BY <1>1, <3>1 DEF AddJob, TypeOK
    <3>2. CASE \E w \in Worker : StartJob(w, j)
      BY <1>1, <3>2 DEF StartJob, TypeOK
    <3> QED BY <2>6, <3>1, <3>2
  <2>7. \/ UNCHANGED data \/ Forgotten
        \/ \E t \in TId : Created(t) \/ Readied(t) \/ Removed(t) \/ HandleInsert(t)
        \/ \E w \in Worker : ReadTable(w) \/ QueueDataFrame(w) \/ FinishImport(w)
        \/ \E f \in frames : FrameStep(f)
        => job' = job
    BY DEF data, Forgotten, Created, Readied, Removed, HandleInsert, ReadTable,
           QueueDataFrame, FinishImport, FrameStep, ActivateFrame, FrameFails
  <2> QED BY <1>1, <2>1, <2>2, <2>3, <2>4, <2>5, <2>6, <2>7, DataSteps DEF Noted
<1>2. ASSUME NEW t \in TId, table'[t] = "ready", NEW l \in Location
      PROVE  Imported(<<t, l>>)'
  <2>1. <<t, l>> \in Key
    OBVIOUS
  <2>2. CASE table[t] = "ready"
    BY <2>1, <2>2, ImportedStays DEF CompletedIsImported
  <2>3. CASE Readied(t)
    <3>1. Imported(<<t, l>>)
      BY <2>3 DEF Readied, AllImported, CompletedIsImported, Heard
    <3> QED BY <2>1, <3>1, ImportedStays
  <2>4. ASSUME NEW u \in TId, Readied(u), table[t] # "ready"
        PROVE  Readied(t)
    BY <1>2, <2>4 DEF Readied, TypeOK
  <2>5. ASSUME NEW u \in TId, Created(u) \/ Removed(u)
        PROVE  table[t] = "ready"
    BY <1>2, <2>5 DEF Created, Removed, Drop, Dropped, TypeOK
  <2>6. \/ UNCHANGED data \/ Forgotten
        \/ \E u \in TId : HandleInsert(u)
        \/ \E k \in Key : AddJob(k) \/ Noted(k)
        \/ \E w \in Worker : \/ \E k \in Key : StartJob(w, k)
                             \/ ReadTable(w) \/ QueueDataFrame(w) \/ FinishImport(w)
                             \/ Reported(w) \/ Stopped(w)
        \/ \E f \in frames : FrameStep(f)
        => table' = table
    BY DEF data, Forgotten, HandleInsert, AddJob, Noted, StartJob, ReadTable, QueueDataFrame,
           FinishImport, Reported, Stopped, FrameStep, ActivateFrame, FrameFails
  <2> QED BY <1>2, <2>2, <2>3, <2>4, <2>5, <2>6, DataSteps
<1>3. ASSUME NEW c \in Creator, creator'[c].pc = "waiting", NEW l \in Location
      PROVE  Heard(c, l)'
  <2>1. ASSUME creator[c].pc = "waiting"
        PROVE  creator[c].table \in TId /\ Heard(c, l) /\ <<creator[c].table, l>> \in Key
    BY <2>1 DEF CompletedIsImported, TablesOfCommands, Fits, TypeOK, Command
  <2>2. CASE creator'[c] = creator[c]
    BY <1>3, <2>1, <2>2, ImportedStays DEF Heard
  <2>3. ASSUME NEW k \in Key, NEW status \in Ended, Publish(k, status),
               status = "completed" => Imported(k)
        PROVE  Heard(c, l)'
    <3>1. creator[c].pc = "waiting"
      BY <1>3, <2>3 DEF Publish
    <3> QED BY <1>3, <2>1, <2>3, <3>1, PublishHeard
  <2>4. ASSUME NEW k \in Key, NEW status \in Ended, UpdateStatus(k, status),
               status = "completed" => Imported(k)
        PROVE  Heard(c, l)'
    BY <2>2, <2>3, <2>4 DEF UpdateStatus
  <2>5. ASSUME NEW w \in Worker, Complete(w)
        PROVE  Heard(c, l)'
    BY <2>4, <2>5 DEF Complete, RunnerKnows, TypeOK, Runner, Ended
  <2>6. ASSUME NEW w \in Worker, NEW status \in {"error", "timeout"},
               JobEndsEarly(w, status), worker[w].pc \in {"starting", "importing"}
        PROVE  Heard(c, l)'
    BY <2>4, <2>6 DEF JobEndsEarly, TypeOK, Runner, Ended
  <2>7. ASSUME NEW k \in Key, MarkOrphan(k)
        PROVE  Heard(c, l)'
    BY <2>4, <2>7 DEF MarkOrphan, Ended
  <2>8. ASSUME NEW m \in Location, NEW status, creator' = Resolved(c, m, status),
               creator[c].pc = "waiting",
               status = "completed" => Imported(<<creator[c].table, m>>)
        PROVE  Heard(c, l)'
    BY <2>1, <2>8, ResolvedHeard
  <2>9. ASSUME NEW m \in Location, Receive(c, m)
        PROVE  Heard(c, l)'
    <3>1. creator[c].news[m] \in Seq(Ended) /\ creator[c].news[m] # <<>>
      BY <2>9 DEF Receive, TypeOK, Command
    <3>2. 1 \in DOMAIN creator[c].news[m] /\ Head(creator[c].news[m]) = creator[c].news[m][1]
      BY <3>1
    <3>3. Heard(c, m) /\ creator[c].pc = "waiting"
      BY <2>9 DEF Receive, CompletedIsImported
    <3> QED BY <2>8, <2>9, <3>2, <3>3 DEF Receive, Heard
  <2>10. ASSUME NEW m \in Location, Poll(c, m)
         PROVE  Heard(c, l)'
    <3>1. <<creator[c].table, m>> \in Key /\ creator[c].pc = "waiting"
      BY <2>1, <2>10 DEF Poll
    <3> QED BY <2>8, <2>10, <3>1 DEF Poll, Outcome, CompletedIsImported
  <2>11. ASSUME NEW m \in Location, LoseNews(c, m)
         PROVE  Heard(c, l)'
    <3>1. creator[c].pc = "waiting"
      BY <1>3, <2>11 DEF LoseNews, TypeOK, Command
    <3> QED BY <2>1, <2>11, <3>1, LostHeard
  <2>12. CASE Create(c)
    <3>1. CASE CannotCreate(c)
      <4>1. Return(c, "failed")
        BY <2>12, <3>1 DEF Create
      <4>2. creator[c].pc = "creating"
        BY <2>12 DEF Create
      <4>3. creator'[c].pc \in {"creating", "failed"}
        BY <4>1, <4>2, ReturnGives
      <4> QED BY <1>3, <4>3
    <3>2. CASE ~CannotCreate(c)
      <4>1. PICK t \in TId : creator' = [creator EXCEPT ![c] =
                 [@ EXCEPT !.pc = "waiting", !.table = t, !.pending = Location,
                           !.news = NoNews, !.verdict = "ok"]]
        BY <2>12, <3>2 DEF Create
      <4>2. creator'[c].news = NoNews /\ creator'[c].pending = Location
        BY <4>1 DEF TypeOK, Command
      <4> QED BY <4>2 DEF Heard, NoNews
    <3> QED BY <3>1, <3>2
  <2>13. ASSUME NEW d \in Creator, NEW pc \in {"done", "failed"}, Return(d, pc)
         PROVE  creator'[c] = creator[c]
    BY <1>3, <2>13 DEF Return, Result, NotBegun
  <2>14. ASSUME NEW d \in Creator, Begin(d) \/ TimesOut(d) \/ \E e \in Creator : Join(d, e)
         PROVE  creator'[c] = creator[c]
    <3>1. creator'[d].pc # "waiting"
      BY <2>14 DEF Begin, TimesOut, Join, TypeOK, Command
    <3> QED BY <1>3, <2>14, <3>1 DEF Begin, TimesOut, Join, TypeOK
  <2>15. ASSUME NEW d \in Creator, TableReady(d)
         PROVE  creator'[c] = creator[c]
    <3>1. CASE Return(d, "done")
      BY <2>13, <3>1
    <3>2. CASE creator' = [creator EXCEPT ![d].pc = "dropping"]
      <4>1. creator'[d].pc = "dropping"
        BY <3>2 DEF TypeOK, Command
      <4> QED BY <1>3, <3>2, <4>1 DEF TypeOK
    <3> QED BY <2>15, <3>1, <3>2 DEF TableReady
  <2>16. ASSUME NEW d \in Creator, DropTable(d)
         PROVE  creator'[c] = creator[c]
    <3>1. CASE Return(d, "failed")
      BY <2>13, <3>1
    <3>2. CASE creator' = [creator EXCEPT ![d] = Again(creator[d])]
      <4>1. creator'[d].pc = "creating"
        BY <3>2 DEF Again, TypeOK, Command
      <4> QED BY <1>3, <3>2, <4>1 DEF TypeOK
    <3> QED BY <2>16, <3>1, <3>2 DEF DropTable
  <2>17. ASSUME NEW d \in Creator, d # c, Create(d)
         PROVE  creator'[c] = creator[c]
    <3>1. CASE Return(d, "failed")
      BY <2>13, <3>1
    <3>2. CASE ~CannotCreate(d)
      BY <2>17, <3>2 DEF Create, TypeOK
    <3> QED BY <2>17, <3>1, <3>2 DEF Create
  <2>18. ASSUME NEW d \in Creator, d # c, NEW m \in Location,
                Receive(d, m) \/ Poll(d, m) \/ LoseNews(d, m)
         PROVE  creator'[c] = creator[c]
    BY <2>18 DEF Receive, Poll, LoseNews, Resolved, TypeOK
  <2>19. CASE RouterRestart
    <3>1. creator'[c] = creator[c] \/ creator'[c].pc = "lost"
      BY <2>19 DEF RouterRestart, Result, NotBegun
    <3> QED BY <1>3, <2>2, <3>1
  <2>20. \/ ScanOrphans
         \/ \E t \in TId : HandleInsert(t) \/ DropNotReadyTable(t) \/ LoseInsert(t)
         \/ \E k \in Key : AddJob(k) \/ DeleteOrphan(k) \/ NobodyBeats(k)
         \/ \E w \in Worker : \/ \E k \in Key : StartJob(w, k)
                              \/ ReadTable(w) \/ QueueDataFrame(w) \/ FinishImport(w)
                              \/ DeleteCompleted(w) \/ Crash(w) \/ HeartBeat(w)
         \/ \E f \in frames : FrameStep(f)
         => creator' = creator
    BY DEF ScanOrphans, HandleInsert, DropNotReadyTable, LoseInsert, AddJob, DeleteOrphan,
           NobodyBeats, StartJob, ReadTable, QueueDataFrame, FinishImport, DeleteCompleted,
           Crash, HeartBeat, FrameStep, ActivateFrame, FrameFails
  <2>21. ASSUME NEW w \in Worker, JobFails(w)
         PROVE  Heard(c, l)'
    BY <2>6, <2>21 DEF JobFails, Fails
  <2>22. ASSUME NEW w \in Worker, NEW status \in {"error", "timeout"}, JobAborted(w, status)
         PROVE  Heard(c, l)'
    BY <2>6, <2>22 DEF JobAborted
  <2>23. ASSUME NEW d \in Creator,
                \/ CreatorStep(d) \/ Begin(d) \/ TimesOut(d) \/ \E e \in Creator : Join(d, e)
                \/ \E m \in Location : LoseNews(d, m)
         PROVE  Heard(c, l)'
    <3>1. CASE d = c
      BY <2>2, <2>9, <2>10, <2>11, <2>12, <2>14, <2>15, <2>16, <2>23, <3>1 DEF CreatorStep
    <3>2. CASE d # c
      BY <2>2, <2>14, <2>15, <2>16, <2>17, <2>18, <2>23, <3>2 DEF CreatorStep
    <3> QED BY <3>1, <3>2
  <2>24. SchedulerStep => Heard(c, l)'
    BY <2>2, <2>7, <2>20 DEF SchedulerStep
  <2>25. ASSUME NEW w \in Worker, WorkerStep(w)
         PROVE  Heard(c, l)'
    BY <2>2, <2>5, <2>20, <2>21, <2>25 DEF WorkerStep
  <2>26. \/ \E d \in Creator : \/ CreatorStep(d) \/ Begin(d) \/ TimesOut(d)
                               \/ \E e \in Creator : Join(d, e)
                               \/ \E m \in Location : LoseNews(d, m)
         \/ SchedulerStep
         \/ RouterRestart
         \/ \E w \in Worker, status \in {"error", "timeout"} : JobAborted(w, status)
         \/ \E w \in Worker : WorkerStep(w)
         \/ \/ \E t \in TId : LoseInsert(t)
            \/ \E k \in Key : NobodyBeats(k)
            \/ \E w \in Worker : Crash(w) \/ HeartBeat(w) \/ \E k \in Key : StartJob(w, k)
            \/ \E f \in frames : FrameStep(f)
    BY DEF Next
  <2> QED BY <2>2, <2>19, <2>20, <2>22, <2>23, <2>24, <2>25, <2>26
<1> QED BY <1>1, <1>2, <1>3 DEF CompletedIsImported

\* One command runs, and its table is nobody's result.
LEMMA OneRunsStep ==
  ASSUME IfNotExists = Creator, TypeOK, TablesOfCommands, OneRuns, Next
  PROVE  OneRuns'
<1> DEFINE NoneBusy == \A c \in Creator : creator'[c].pc \notin {"creating", "waiting", "dropping"}
<1>1. NoneBusy => OneRuns'
  BY DEF OneRuns, Busy
<1>2. ASSUME SamePlaces, \A t \in TId : table'[t] = "ready" => table[t] = "ready"
      PROVE  OneRuns'
  BY <1>2 DEF OneRuns, Busy, SamePlaces
<1>3. ASSUME NEW c \in Creator, Busy(c), NEW pc \in {"done", "failed"}, Return(c, pc)
      PROVE  OneRuns'
  <2>1. ASSUME NEW d \in Creator
        PROVE  creator'[d].pc \notin {"creating", "waiting", "dropping"}
    <3>1. CASE d = c
      BY <1>3, <3>1 DEF Return, Result, NotBegun
    <3>2. CASE d # c
      <4>1. ~Busy(d)
        BY <1>3, <3>2 DEF OneRuns
      <4> QED BY <1>3, <3>2, <4>1, ReturnGives DEF Busy
    <3> QED BY <3>1, <3>2
  <2> QED BY <1>1, <2>1
\* The command that runs goes on: with its table, or with a new one
<1>4. ASSUME NEW c \in Creator, Busy(c), NEW e, creator' = [creator EXCEPT ![c] = e],
             e.pc \in {"creating", "waiting", "dropping"},
             \/ e.table = creator[c].table
             \/ \A d \in Creator : creator[d].table # e.table,
             \A t \in TId : table'[t] = "ready" => e.pc = "dropping" /\ e.table = t
      PROVE  OneRuns'
  <2>1. \A d \in Creator : d # c => creator'[d] = creator[d] /\ ~Busy(d)
    BY <1>4 DEF OneRuns, TypeOK
  <2>2. creator'[c] = e
    BY <1>4 DEF TypeOK
  <2>3. ASSUME NEW d \in Creator, creator'[d].pc = "done", e.table # 0
        PROVE  creator'[d].table # e.table
    <3>1. d # c /\ creator'[d] = creator[d]
      BY <1>4, <2>1, <2>2, <2>3
    <3> QED BY <1>4, <2>3, <3>1 DEF OneRuns
  <2>4. \A d \in Creator : creator'[d].pc \in {"creating", "waiting", "dropping"} => d = c
    BY <2>1 DEF Busy
  <2> QED BY <1>4, <2>2, <2>3, <2>4 DEF OneRuns, Busy
<1>5. ASSUME NEW c \in Creator, Begin(c)
      PROVE  OneRuns'
  <2>1. \A d \in Creator : ~Busy(d)
    BY <1>5 DEF Begin
  <2>2. CASE \E t \in TId : table[t] = "ready"
    <3>1. creator'[c].pc = "done" /\ \A d \in Creator : d # c => creator'[d] = creator[d]
      BY <1>5, <2>2 DEF Begin, TypeOK, Command
    <3> QED BY <1>1, <2>1, <3>1 DEF Busy
  <2>3. CASE ~ \E t \in TId : table[t] = "ready"
    <3>1. /\ creator'[c].pc = "creating" /\ creator'[c].table = creator[c].table
          /\ \A d \in Creator : d # c => creator'[d] = creator[d]
      BY <1>5, <2>3 DEF Begin, TypeOK, Command
    <3>2. creator[c].table = 0 /\ table' = table
      BY <1>5 DEF Begin, TablesOfCommands, Fits, tables
    <3> QED BY <2>1, <2>3, <3>1, <3>2 DEF OneRuns, Busy
  <2> QED BY <2>2, <2>3
<1>6. ASSUME NEW c \in Creator, NEW d \in Creator, Join(c, d)
      PROVE  OneRuns'
  <2>1. /\ creator'[c].pc = "joined"
        /\ \A f \in Creator : f # c => creator'[f] = creator[f]
    BY <1>6 DEF Join, TypeOK, Command
  <2>2. table' = table
    BY <1>6 DEF Join, tables
  <2>3. \A f \in Creator : Busy(f)' => Busy(f) /\ creator'[f] = creator[f]
    BY <2>1 DEF Busy
  <2>4. \A f \in Creator : creator'[f].pc = "done" => creator'[f] = creator[f]
    BY <2>1
  <2> QED BY <2>2, <2>3, <2>4 DEF OneRuns
<1>7. ASSUME NEW c \in Creator, Create(c)
      PROVE  OneRuns'
  <2>1. Busy(c)
    BY <1>7 DEF Create, Busy
  <2>2. CASE CannotCreate(c)
    BY <1>3, <1>7, <2>1, <2>2 DEF Create
  <2>3. CASE ~CannotCreate(c)
    <3>1. PICK t \in TId : /\ table[t] = "free"
                           /\ table' = [u \in TId |-> IF u = t THEN "importing"
                                                      ELSE Dropped(TId)[u]]
                           /\ creator' = [creator EXCEPT ![c] =
                                [@ EXCEPT !.pc = "waiting", !.table = t, !.pending = Location,
                                          !.news = NoNews, !.verdict = "ok"]]
      BY <1>7, <2>3 DEF Create
    <3>2. PICK e : e = creator'[c]
      OBVIOUS
    <3>3. e.pc = "waiting" /\ e.table = t /\ creator' = [creator EXCEPT ![c] = e]
      BY <3>1, <3>2 DEF TypeOK, Command
    <3>4. \A u \in TId : table'[u] # "ready"
      BY <3>1 DEF Dropped, Present, TypeOK
    <3>5. \A d \in Creator : creator[d].table # t
      BY <3>1 DEF TablesOfCommands, Fits
    <3> QED BY <1>4, <2>1, <3>3, <3>4, <3>5
  <2> QED BY <2>2, <2>3
<1>8. ASSUME NEW c \in Creator, TableReady(c)
      PROVE  OneRuns'
  <2>1. Busy(c) /\ creator[c].pc = "waiting"
    BY <1>8 DEF TableReady, AllImported, Busy
  <2>2. CASE Present(creator[c].table)
    BY <1>3, <1>8, <2>1, <2>2 DEF TableReady
  <2>3. CASE ~Present(creator[c].table)
    <3>1. creator' = [creator EXCEPT ![c].pc = "dropping"] /\ table' = table
      BY <1>8, <2>3 DEF TableReady
    <3>2. PICK e : e = creator'[c]
      OBVIOUS
    <3>3. /\ e.pc = "dropping" /\ e.table = creator[c].table
          /\ creator' = [creator EXCEPT ![c] = e]
      BY <3>1, <3>2 DEF TypeOK, Command
    <3>4. \A t \in TId : table'[t] # "ready"
      BY <2>1, <3>1 DEF OneRuns
    <3> QED BY <1>4, <2>1, <3>3, <3>4
  <2> QED BY <2>2, <2>3
<1>9. ASSUME NEW c \in Creator, DropTable(c)
      PROVE  OneRuns'
  <2>1. Busy(c)
    BY <1>9 DEF DropTable, Busy
  <2>2. CASE ~Retries(c)
    BY <1>3, <1>9, <2>1, <2>2 DEF DropTable
  <2>3. CASE Retries(c)
    <3>1. creator' = [creator EXCEPT ![c] = Again(creator[c])]
      BY <1>9, <2>3 DEF DropTable
    <3>2. Again(creator[c]).pc = "creating" /\ Again(creator[c]).table = creator[c].table
      BY DEF Again, TypeOK, Command
    <3>3. \A t \in TId : table'[t] # "ready"
      <4>1. \A t \in TId : table[t] = "ready" => creator[c].table = t
        BY <2>1 DEF OneRuns
      <4> QED BY <1>9, <4>1 DEF DropTable, Drop, Dropped, Present
    <3> QED BY <1>4, <2>1, <3>1, <3>2, <3>3
  <2> QED BY <2>2, <2>3
<1>10. ASSUME NEW c \in Creator, TimesOut(c)
       PROVE  OneRuns'
  <2>1. Busy(c) /\ creator[c].pc = "waiting"
    BY <1>10 DEF TimesOut, Busy
  <2>2. PICK e : e = creator'[c]
    OBVIOUS
  <2>3. e.pc = "dropping" /\ e.table = creator[c].table
    BY <1>10, <2>2 DEF TimesOut, TypeOK, Command
  <2>5. \A d \in Creator : creator'[d] = [creator EXCEPT ![c] = e][d]
    BY <1>10, <2>2 DEF TimesOut, TypeOK
  <2>6. creator' \in [Creator -> Command]
    BY OtherTyped DEF TypeOK
  <2>7. creator' = [creator EXCEPT ![c] = e]
    BY <2>5, <2>6 DEF TypeOK
  <2>4. \A t \in TId : table'[t] = "ready" => t = creator[c].table
    BY <1>10, <2>1 DEF OneRuns, TimesOut, TypeOK
  <2> QED BY <1>4, <2>1, <2>3, <2>4, <2>7
<1>11. CASE RouterRestart
  <2>1. ASSUME NEW c \in Creator
        PROVE  creator'[c].pc \notin {"creating", "waiting", "dropping"}
    BY <1>11 DEF RouterRestart, Busy, Result, NotBegun
  <2> QED BY <1>1, <2>1
<1> QED BY <1>2, <1>5, <1>6, <1>7, <1>8, <1>9, <1>10, <1>11, PlaceSteps

-----------------------------------------------------------------------------
(* The theorems.                                                            *)

Inv == /\ TypeOK /\ AddedOnce /\ StartedOnce /\ FramesOnce /\ RunnerKnows
       /\ TablesOfCommands /\ CompletedIsImported

\* The invariant holds: a job is added and started once, a frame is on its way
\* once, a runner knows which frames are active, and only what is imported is
\* reported as completed.
THEOREM InvHolds == Spec => []Inv
<1>1. Init => Inv
  <2>1. ASSUME Init
        PROVE  AddedOnce /\ StartedOnce /\ FramesOnce /\ RunnerKnows
               /\ TablesOfCommands /\ CompletedIsImported
    BY <2>1 DEF Init, AddedOnce, StartedOnce, FramesOnce, RunnerKnows, TablesOfCommands,
                CompletedIsImported, Coming, Unstarted, HasJob, NoJob, NoFrames, RowsAre,
                Present, Running, Idle, Fits, NotBegun
  <2> QED BY <2>1, InitTyped DEF Inv
<1>2. Inv /\ [Next]_vars => Inv'
  <2>1. CASE Inv /\ Next
    <3>1. Inv
      BY <2>1
    <3> QED BY <2>1, <3>1, OtherTyped, AddedOnceStep, StartedOnceStep, FramesOnceStep,
               RunnerKnowsStep, TablesOfCommandsStep, CompletedIsImportedStep DEF Inv
  <2>2. ASSUME Inv, UNCHANGED vars
        PROVE  Inv'
    <3>1. TypeOK' /\ AddedOnce' /\ TablesOfCommands'
      BY <2>2 DEF vars, Inv, TypeOK, AddedOnce, Coming, HasJob, TablesOfCommands, Fits
    <3>2. \A k : Imported(k) <=> Imported(k)'
      BY <2>2 DEF vars, Imported, Unstarted, Coming, NoFrames, RowsAre, Present, Imports
    <3>3. StartedOnce' /\ FramesOnce'
      BY <2>2 DEF vars, Inv, StartedOnce, FramesOnce, Unstarted, Coming, NoFrames, RowsAre,
                  Present, Running
    <3>4. RunnerKnows'
      BY <2>2 DEF vars, Inv, RunnerKnows, Known, NoFrames, RowsAre, Present, Imported,
                  Unstarted, Coming, Imports
    <3>5. CompletedIsImported'
      <4>1. \A c \in Creator, l \in Location : Heard(c, l) => Heard(c, l)'
        BY <2>2, <3>2 DEF vars, Heard
      <4> QED BY <2>2, <3>2, <4>1 DEF vars, Inv, CompletedIsImported
    <3> QED BY <3>1, <3>3, <3>4, <3>5 DEF Inv
  <2> QED BY <2>1, <2>2
<1> QED BY <1>1, <1>2, PTL DEF Spec

\* A table that is ready has the rows of every frame of every location once,
\* for any number of workers, commands, retries and faults of each kind.
THEOREM ReadyIsComplete == Spec => []ReadyTableIsComplete
<1>1. Inv => ReadyTableIsComplete
  <2> SUFFICES ASSUME Inv, NEW t \in TId, table[t] = "ready", NEW x \in Part
               PROVE  rows[t][x] = 1
    BY DEF ReadyTableIsComplete
  <2>1. PICK l \in Location, i \in Frame : x = <<l, i>>
    OBVIOUS
  <2>2. Imported(<<t, l>>)
    BY DEF Inv, CompletedIsImported
  <2> QED BY <2>1, <2>2 DEF Imported, RowsAre, Present
<1> QED BY <1>1, InvHolds, PTL

\* A command that failed leaves no table of its own.
THEOREM FailedLeaveNothing == Spec => []FailureLeavesNothing
<1>1. Inv => FailureLeavesNothing
  BY DEF Inv, TablesOfCommands, Fits, FailureLeavesNothing, Present
<1> QED BY <1>1, InvHolds, PTL

\* When every command of the name says IF NOT EXISTS, the table that one of
\* them reported as created stays.
THEOREM CreatedStays ==
  ASSUME IfNotExists = Creator
  PROVE  Spec => CreatedTableStays
<1>1. Init => OneRuns
  BY DEF Init, OneRuns, Busy, NotBegun
<1>2. Inv /\ OneRuns /\ [Next]_vars => OneRuns'
  <2>1. Inv /\ OneRuns /\ Next => OneRuns'
    BY OneRunsStep DEF Inv
  <2>2. OneRuns /\ UNCHANGED vars => OneRuns'
    BY DEF OneRuns, Busy, vars
  <2> QED BY <2>1, <2>2
<1> DEFINE Stay == \A c \in Creator : creator[c].pc = "done" /\ table[creator[c].table] = "ready"
                     => table'[creator[c].table] = "ready"
<1>3. Inv /\ OneRuns /\ [Next]_vars => [Stay]_<<table, creator>>
  <2> SUFFICES ASSUME Inv, OneRuns, [Next]_vars, NEW d \in Creator, creator[d].pc = "done",
                      table[creator[d].table] = "ready"
               PROVE  table'[creator[d].table] = "ready"
    OBVIOUS
  <2>0. creator[d].table \in TId /\ table \in [TId -> {"free", "importing", "ready", "dropped"}]
    BY DEF Inv, TypeOK, Command, TablesOfCommands, Fits
  <2>1. ASSUME NEW c \in Creator, Create(c)
        PROVE  table'[creator[d].table] = "ready"
    BY <2>0, <2>1 DEF OneRuns, Create, Busy
  <2>2. ASSUME NEW c \in Creator, DropTable(c)
        PROVE  table'[creator[d].table] = "ready"
    <3>1. Busy(c) /\ creator[c].table # 0
      BY <2>2 DEF Inv, TablesOfCommands, Fits, DropTable, Busy
    <3>2. creator[d].table # creator[c].table
      BY <3>1 DEF OneRuns
    <3> QED BY <2>0, <2>2, <3>2 DEF DropTable, Drop, Dropped
  <2>3. ASSUME NEW t \in TId, DropNotReadyTable(t)
        PROVE  table'[creator[d].table] = "ready"
    BY <2>0, <2>3 DEF DropNotReadyTable, Drop, Dropped
  <2>4. ASSUME NEW c \in Creator, TableReady(c) \/ TimesOut(c)
        PROVE  table'[creator[d].table] = "ready"
    BY <2>0, <2>4 DEF TableReady, TimesOut, Inv, TypeOK
  <2>5. \/ SchedulerStep /\ \A u \in TId : ~DropNotReadyTable(u)
        \/ \E c \in Creator : \/ Begin(c) \/ \E e \in Creator : Join(c, e)
                              \/ \E l \in Location : Receive(c, l) \/ Poll(c, l) \/ LoseNews(c, l)
        \/ RouterRestart \/ \E u \in TId : LoseInsert(u)
        \/ \E w \in Worker : \/ \E k \in Key : StartJob(w, k)
                             \/ WorkerStep(w) \/ Crash(w) \/ HeartBeat(w)
                             \/ \E status \in {"error", "timeout"} : JobAborted(w, status)
        \/ \E f \in frames : FrameStep(f)
        \/ \E k \in Key : NobodyBeats(k)
        \/ UNCHANGED vars
        => table' = table
    BY DEF tables, vars, SchedulerStep, HandleInsert, AddJob, MarkOrphan, DeleteOrphan, ScanOrphans,
           Begin, Join, Receive, Poll, LoseNews, RouterRestart, LoseInsert, StartJob, WorkerStep,
           ReadTable, QueueDataFrame, FinishImport, Complete, DeleteCompleted, JobFails,
           JobEndsEarly, Crash, HeartBeat, JobAborted, FrameStep, ActivateFrame, FrameFails,
           NobodyBeats
  <2> QED BY <2>1, <2>2, <2>3, <2>4, <2>5 DEF Next, CreatorStep
<1> QED BY <1>1, <1>2, <1>3, InvHolds, PTL DEF Spec, CreatedTableStays
=============================================================================
