--------------------------- MODULE QueryQueueProofs ---------------------------
(***************************************************************************)
(* Proofs about QueryQueue.  The instances use the queue through its       *)
(* commands only, so everything CacheStoreQueueProofs shows of the queue   *)
(* holds in the system, and so does what the instances add to it.          *)
(***************************************************************************)
EXTENDS QueryQueue, CacheStoreQueueProofs

-----------------------------------------------------------------------------
(* Every step of the system is a step of the queue, or leaves it alone.    *)

\* A reconcile changes the queue by its commands only (reconcileQueue).
LEMMA ReconcileUsesQueue ==
  ASSUME NEW p \in Processes, ReconcileStep(p)
  PROVE  [Next]_vars
<1>1. ASSUME NEW i \in Ids, CancelListed(p, i) PROVE [Next]_vars
  <2>1. ById(i) \in Keys
    BY DEF ById, Keys
  <2> QED
    BY <1>1, <2>1 DEF CancelListed, Next, KeyStep
<1>2. ASSUME NEW path \in Paths, Claim(p, path) PROVE [Next]_vars
  BY <1>2 DEF Claim, Next, ProcessStep
<1> QED
  BY <1>1, <1>2 DEF ReconcileStep, FindCancels, ListQueue, EndReconcile

\* A request changes the queue by its commands only (executeInQueue).
LEMMA RequestUsesQueue ==
  ASSUME SystemTypeOK, NEW w \in Waiters, RequestStep(w) \/ ContinueWait(w)
  PROVE  [Next]_vars
<1>0. /\ Asked[w].path \in Paths
      /\ Asked[w].external \in Externals \cup {None}
      /\ (Home[Asked[w].path] # None) \in Exclusives
  BY SystemAssumption DEF Query
<1>1. ByPath(Asked[w].path) \in Keys
  BY <1>0 DEF ByPath, Keys
<1>2. CASE Ask(w)
  BY <1>0, <1>1, <1>2 DEF Ask, Next, ReaderStep
<1>3. CASE Enqueue(w)
  <2>1. request[w].node \in Processes
    BY <1>3 DEF Enqueue, SystemTypeOK, ClientTypeOK, Request
  <2> QED
    BY <1>0, <1>3, <2>1 DEF Enqueue, Next, ProcessStep
<1>4. CASE Block(w)
  <2>1. request[w].id \in Ids
    BY <1>4 DEF Block, SystemTypeOK, ClientTypeOK, Request
  <2>2. ById(request[w].id) \in Keys
    BY <2>1 DEF ById, Keys
  <2> QED
    BY <1>4, <2>2 DEF Block, Next, ReaderStep
<1>5. CASE Serve(w) \/ ContinueWait(w)
  BY <1>5 DEF Serve, ContinueWait, Next, ReaderStep
<1> QED
  BY <1>2, <1>3, <1>4, <1>5 DEF RequestStep

\* A failed call writes nothing; an execution may be over after it.
LEMMA FailureLosesRuns ==
  ASSUME TypeOK, CallFails
  PROVE  /\ UNCHANGED <<items, payloads, expired, results, nextId>>
         /\ UNCHANGED <<outbox, gc, waiter, outcome, down>>
         /\ \A p \in Processes : running'[p] \subseteq running[p]
<1>1. ASSUME NEW p \in Processes, NEW i \in Ids, ExecutionFails(p, i)
      PROVE  \A q \in Processes : running'[q] \subseteq running[q]
  BY <1>1 DEF ExecutionFails, Abandon, TypeOK
<1> QED
  BY <1>1 DEF CallFails, ReconcileFails, ClaimFails, ExecutionFails,
              RequestFails, Abandon, clientVars, vars, tables

\* Only Cube Store makes calls fail.
LEMMA CallsSucceed ==
  ASSUME "storage" \notin Faults
  PROVE  ~CallFails
BY DEF CallFails, ReconcileFails, ClaimFails, ExecutionFails, RequestFails

\* Every step of the instances is a command of the queue, or leaves it alone.
LEMMA StepUsesQueue ==
  ASSUME SystemTypeOK, [SystemNext]_systemVars
  PROVE  [Next]_vars
<1>1. ASSUME NEW p \in Processes, ForceReconcile(p) \/ InstanceCrashes(p)
      PROVE  [Next]_vars
  BY <1>1 DEF ForceReconcile, InstanceCrashes, Next, ProcessStep
<1>2. ASSUME NEW p \in Processes, NEW i \in Ids, Finish(p, i) \/ Beat(p, i)
      PROVE  [Next]_vars
  <2>1. ById(i) \in Keys
    BY DEF ById, Keys
  <2> QED
    BY <1>2, <2>1 DEF Finish, Beat, Next, ProcessStep, KeyStep
<1>3. ASSUME NEW w \in Waiters, NEW p \in Processes, Call(w, p)
      PROVE  [Next]_vars
  BY <1>3 DEF Call
<1>4. ASSUME NEW path \in Paths, UserCancels(path) PROVE [Next]_vars
  <2>1. ByPath(path) \in Keys
    BY DEF ByPath, Keys
  <2> QED
    BY <1>4, <2>1 DEF UserCancels, Next, KeyStep
<1>5. ASSUME NEW i \in Ids, Lapses(i) PROVE [Next]_vars
  BY <1>5 DEF Lapses, Next, ClockStep
<1>6. CASE StoreStep
  BY <1>6 DEF StoreStep, Next, ClockStep
<1>7. CASE UNCHANGED systemVars
  BY <1>7 DEF systemVars
<1>8. CASE CallFails
  BY <1>8 DEF CallFails, ReconcileFails, ClaimFails, ExecutionFails,
              RequestFails, Next, ProcessStep
<1> QED
  BY <1>1, <1>2, <1>3, <1>4, <1>5, <1>6, <1>7, <1>8, ReconcileUsesQueue,
     RequestUsesQueue DEF SystemNext

-----------------------------------------------------------------------------
(* Types of the client side.                                               *)

\* Asking for a reconcile keeps its type (reconcileQueue).
LEMMA RequestedType ==
  ASSUME reconcile \in [Processes -> Reconcile], NEW p \in Processes
  PROVE  Requested(p) \in [Processes -> Reconcile]
BY DEF Requested, Reconcile, Idle

\* The steps of a reconcile keep the types of requests and reconciles.
LEMMA ReconcileType ==
  ASSUME SystemTypeOK, NEW p \in Processes, ReconcileStep(p)
  PROVE  ClientTypeOK'
<1> USE DEF SystemTypeOK, ClientTypeOK
<1>1. CASE FindCancels(p)
  BY <1>1 DEF FindCancels, Reconcile, ToCancel
<1>2. CASE ListQueue(p)
  <2>1. {items[i].path : i \in Picked(p)} \subseteq Paths
    <3>1. Picked(p) \subseteq Listed(p, "pending")
      BY DEF Picked, First
    <3>2. ASSUME NEW i \in Listed(p, "pending") PROVE items[i].path \in Paths
      BY Absence DEF Listed, Visible, ItemRow
    <3> QED
      BY <3>1, <3>2
  <2> QED
    BY <1>2, <2>1 DEF ListQueue, Reconcile
<1>3. CASE EndReconcile(p)
  <2>1. [Idle EXCEPT !.pc = "starting"] \in Reconcile /\ Idle \in Reconcile
    BY DEF Idle, Reconcile
  <2>2. ASSUME NEW w \in Waiters, request[w].pc = "reconciling"
        PROVE  [request[w] EXCEPT !.pc = AfterReconcile(w)] \in Request
    BY <2>2 DEF Request, AfterReconcile
  <2>3. Settled(p, FALSE) \in [Waiters -> Request]
    BY <2>2 DEF Settled
  <2> QED
    BY <1>3, <2>1, <2>3 DEF EndReconcile
<1>4. ASSUME NEW i \in Ids, CancelListed(p, i) PROVE ClientTypeOK'
  BY <1>4 DEF CancelListed, Reconcile
<1>5. ASSUME NEW path \in Paths, Claim(p, path) PROVE ClientTypeOK'
  BY <1>5 DEF Claim, Reconcile
<1> QED
  BY <1>1, <1>2, <1>3, <1>4, <1>5 DEF ReconcileStep

\* So do a failing call and the end of an instance.
LEMMA FailureType ==
  ASSUME SystemTypeOK,
         CallFails \/ \E p \in Processes : InstanceCrashes(p)
  PROVE  ClientTypeOK'
<1> USE DEF SystemTypeOK, ClientTypeOK
<1>1. Idle \in Reconcile
  BY DEF Idle, Reconcile
<1>2. ASSUME NEW w \in Waiters
      PROVE  [request[w] EXCEPT !.pc = "failed"] \in Request
  BY DEF Request
<1>3. ASSUME NEW p \in Processes, ReconcileFails(p) PROVE ClientTypeOK'
  BY <1>1, <1>2, <1>3 DEF ReconcileFails, Settled
<1>4. ASSUME NEW p \in Processes, NEW path \in Paths, ClaimFails(p, path)
      PROVE  ClientTypeOK'
  BY <1>4 DEF ClaimFails, Reconcile
<1>5. ASSUME NEW p \in Processes, NEW i \in Ids, ExecutionFails(p, i)
      PROVE  ClientTypeOK'
  BY <1>5 DEF ExecutionFails, clientVars
<1>6. ASSUME NEW w \in Waiters, RequestFails(w) PROVE ClientTypeOK'
  BY <1>2, <1>6 DEF RequestFails, Move
<1>7. ASSUME NEW p \in Processes, InstanceCrashes(p) PROVE ClientTypeOK'
  BY <1>1, <1>2, <1>7 DEF InstanceCrashes
<1> QED
  BY <1>3, <1>4, <1>5, <1>6, <1>7 DEF CallFails

\* The steps of a request keep the types of requests and reconciles.
LEMMA RequestType ==
  ASSUME SystemTypeOK, NEW w \in Waiters, RequestStep(w) \/ ContinueWait(w)
  PROVE  ClientTypeOK'
<1> USE DEF SystemTypeOK, ClientTypeOK
<1>1. CASE Ask(w)
  BY <1>1 DEF Ask, Move, Request
<1>2. CASE Enqueue(w)
  <2>1. request[w].node \in Processes
    BY <1>2 DEF Enqueue, Request
  <2>2. Requested(request[w].node) \in [Processes -> Reconcile]
    BY <2>1, RequestedType
  <2>3. ASSUME NEW i \in Ids
        PROVE  [[request[w] EXCEPT !.pc = "reconciling"] EXCEPT !.id = i]
                 \in Request
    BY <1>2, <2>1 DEF Enqueue, Request
  <2>4. CASE \E i \in Ids : request' = [request EXCEPT
                 ![w].pc = "reconciling", ![w].id = i]
    BY <1>2, <2>2, <2>3, <2>4 DEF Enqueue
  <2>5. nextId <= MaxId => nextId \in Ids
    BY QueueAssumption DEF TypeOK, Ids
  <2>6. \E i \in Ids : request' = [request EXCEPT
                 ![w].pc = "reconciling", ![w].id = i]
    BY <1>2, <2>5 DEF Enqueue, Add, Insert, At
  <2> QED
    BY <2>4, <2>6
<1>3. CASE Block(w) \/ Serve(w) \/ ContinueWait(w)
  BY <1>3 DEF Block, Serve, ContinueWait, Move, Request
<1> QED
  BY <1>1, <1>2, <1>3 DEF RequestStep

\* Every step of the instances keeps these types.
LEMMA SystemStepType ==
  ASSUME SystemTypeOK, [SystemNext]_systemVars
  PROVE  SystemTypeOK'
<1>1. TypeOK'
  BY StepUsesQueue, NextKeepsType DEF SystemTypeOK
<1>2. ASSUME NEW p \in Processes, NEW i \in Ids, Finish(p, i) \/ Beat(p, i)
      PROVE  ClientTypeOK'
  BY <1>2, RequestedType
     DEF Finish, Beat, clientVars, SystemTypeOK, ClientTypeOK
<1>3. ASSUME NEW w \in Waiters, NEW p \in Processes, Call(w, p)
      PROVE  ClientTypeOK'
  <2>1. [[request[w] EXCEPT !.pc = "asking"] EXCEPT !.node = p] \in Request
    BY <1>3 DEF Call, SystemTypeOK, ClientTypeOK, Request
  <2> QED
    BY <1>3, <2>1 DEF Call, SystemTypeOK, ClientTypeOK
<1>4. ASSUME \/ UNCHANGED systemVars \/ StoreStep
             \/ \E path \in Paths : UserCancels(path)
             \/ \E i \in Ids : Lapses(i)
      PROVE  ClientTypeOK'
  BY <1>4 DEF systemVars, StoreStep, UserCancels, Lapses, clientVars,
              SystemTypeOK, ClientTypeOK
<1>5. ASSUME NEW p \in Processes, ForceReconcile(p) PROVE ClientTypeOK'
  BY <1>5, RequestedType DEF ForceReconcile, SystemTypeOK, ClientTypeOK
<1>6. ClientTypeOK'
  BY <1>2, <1>3, <1>4, <1>5, ReconcileType, FailureType, RequestType DEF SystemNext
<1> QED
  BY <1>1, <1>6 DEF SystemTypeOK

\* Instances that were asked nothing are well typed (SystemInit).
LEMMA SystemInitType == SystemInit => SystemTypeOK
<1>1. Init => TypeOK
  BY QueueAssumption DEF Init, TypeOK, Ids, NoRow, NoReader
<1> QED
  BY <1>1 DEF SystemInit, SystemTypeOK, ClientTypeOK, Idle, Request, Reconcile

\* A request always knows the instance that serves it and, once it is queued,
\* the item it waits for (executeInQueue, addToQueue).
THEOREM SystemTypeCorrect == SystemSpec => []SystemTypeOK
<1>1. SystemTypeOK /\ [SystemNext]_systemVars => SystemTypeOK'
  BY SystemStepType
<1> QED
  BY <1>1, SystemInitType, PTL DEF SystemSpec

\* The instances use the queue through its commands: whatever they do is a
\* behaviour of CacheStoreQueue (CubestoreQueueDriverConnection).
THEOREM InstancesUseQueue == SystemSpec => Spec
<1>1. SystemInit => Init
  BY DEF SystemInit
<1>2. SystemTypeOK /\ [SystemNext]_systemVars => [Next]_vars
  BY StepUsesQueue
<1> QED
  BY <1>1, <1>2, SystemTypeCorrect, PTL DEF SystemSpec, Spec

\* The queue stays consistent whatever the instances do, so that every answer
\* a request gets is what the executor of its item acknowledged.
THEOREM SystemKeepsQueue == SystemSpec => []QueueInvariant
BY InstancesUseQueue, QueueConsistent, PTL

-----------------------------------------------------------------------------
(* Slots.  When no instance dies and no request id is in use, an item that  *)
(* is active is being executed: a claim hands it to an execution, and an    *)
(* execution ends with an acknowledgement that removes it.                  *)

\* What a step does to the slots.
SlotsPass ==
  \A i \in Active' : \/ \E p \in Processes : i \in running'[p]
                     \/ /\ i \in Active
                        /\ \A p \in Processes :
                             i \in running[p] => i \in running'[p]

\* A step that passes the slots on keeps them in use.
LEMMA SlotsPassOn ==
  ASSUME SlotsAreInUse, SlotsPass
  PROVE  SlotsAreInUse'
BY DEF SlotsAreInUse, SlotsPass, Executing

\* Steps that start or end no execution and activate nothing.
LEMMA SameExecutions ==
  ASSUME UNCHANGED running,
         \A i \in Active' : i \in Active
  PROVE  SlotsPass
BY DEF SlotsPass

\* A claim hands the item to an execution, or drops it (QUEUE RETRIEVE).
LEMMA ClaimPassesSlots ==
  ASSUME SystemTypeOK, NEW p \in Processes, NEW path \in Paths,
         Retrieve(p, path)
  PROVE  SlotsPass
<1>1. PICK i \in Ids : TryClaim(p, i) /\ UNCHANGED expired
  BY DEF Retrieve, At
<1>2. i \in payloads => i \in running'[p]
  BY <1>1 DEF TryClaim, Execute, SystemTypeOK, TypeOK, Claimed
<1>3. \A q \in Processes : running[q] \subseteq running'[q]
  BY <1>1 DEF TryClaim, Execute, SystemTypeOK, TypeOK
<1>4. \A j \in Ids \ {i} : items'[j] = items[j]
  BY <1>1 DEF TryClaim, SystemTypeOK, TypeOK
<1>5. i \notin payloads => items'[i] = NoRow
  BY <1>1 DEF TryClaim, SystemTypeOK, TypeOK, Claimed
<1>6. items[i].status = "pending"
  BY <1>1 DEF TryClaim
<1> QED
  BY <1>1, <1>2, <1>3, <1>4, <1>5
     DEF SlotsPass, Active, Visible, HasItem, NoRow

\* Without request ids an acknowledgement is accepted and removes its item
\* (QUEUE ACK).
LEMMA AckPassesSlots ==
  ASSUME SystemTypeOK, Externals = {}, ItemXorResult,
         NEW p \in Processes, NEW i \in Ids, Ack(p, i, p)
  PROVE  SlotsPass
<1>1. p # None
  BY QueueAssumption
<1>2. HasItem(i) => ~AckConflicts(i)
  BY Absence DEF AckConflicts, ResultsOfRequest, ItemXorResult, ItemRow,
                 SystemTypeOK
<1>3. ~Visible(i)'
  BY <1>1, <1>2 DEF Ack, AckAccepted, AckRefused, Visible, HasItem, NoRow,
                    SystemTypeOK, TypeOK
<1>4. \A j \in Ids \ {i} : items'[j] = items[j]
  BY DEF Ack, AckAccepted, AckRefused, SystemTypeOK, TypeOK
<1>5. \A q \in Processes : \A j \in Ids \ {i} :
        j \in running[q] => j \in running'[q]
  BY DEF Ack, SystemTypeOK, TypeOK
<1> QED
  BY <1>3, <1>4, <1>5 DEF SlotsPass, Active, Visible, HasItem, Ack

\* A cancellation and a heartbeat make no item active.
LEMMA KeyPassesSlots ==
  ASSUME SystemTypeOK, NEW key \in Keys, Cancel(key) \/ Heartbeat(key)
  PROVE  SlotsPass
<1>1. ItemsByKey(key) \subseteq Ids
  BY DEF ItemsByKey, Keys, At
<1>2. CASE Cancel(key)
  BY <1>1, <1>2, SameExecutions
     DEF Cancel, Active, Visible, HasItem, NoRow, SystemTypeOK, TypeOK
<1>3. CASE Heartbeat(key)
  <2>1. \A i \in Ids : items'[i].status = items[i].status
    BY <1>1, <1>3, Absence DEF Heartbeat, SystemTypeOK, TypeOK, ItemsByKey, At,
       Visible, ItemRow
  <2> QED
    BY <1>3, <2>1, SameExecutions DEF Heartbeat, Active, Visible, HasItem
<1> QED
  BY <1>2, <1>3

\* An item is added pending (QUEUE ADD).
LEMMA AddPassesSlots ==
  ASSUME SystemTypeOK, NEW p \in Processes, NEW path \in Paths,
         NEW e \in Externals \cup {None}, NEW x \in Exclusives,
         Add(p, path, e, x)
  PROVE  SlotsPass
<1>1. \A i \in Ids : items'[i].status = "active" => items'[i] = items[i]
  BY DEF Add, Insert, NewItem, SystemTypeOK, TypeOK
<1> QED
  BY <1>1, SameExecutions DEF Add, Active, Visible, HasItem

\* Readers of results leave items and executions alone.
LEMMA ReaderPassesSlots ==
  ASSUME UNCHANGED <<items, expired, running>>
  PROVE  SlotsPass
BY SameExecutions DEF Active, Visible, HasItem

\* Deadlines and compaction make no item active.
LEMMA ClockPassesSlots ==
  ASSUME SystemTypeOK, NEW i \in Ids,
         \/ HeartbeatLapses(i) \/ OrphanDeadline(i) \/ ItemExpires(i)
         \/ ResultExpires(i) \/ Compact(i)
  PROVE  SlotsPass
<1>1. UNCHANGED running /\ expired \subseteq expired'
  BY DEF HeartbeatLapses, OrphanDeadline, ItemExpires, ResultExpires, Compact
<1>2. \A j \in Ids : items'[j].status \in {items[j].status, "absent"}
  BY Absence DEF HeartbeatLapses, OrphanDeadline, ItemExpires, ResultExpires,
     Compact, SystemTypeOK, TypeOK, ItemRow, NoRow
<1> QED
  BY <1>1, <1>2, SameExecutions DEF Active, Visible, HasItem

\* Every step passes the slots on while no instance crashes and no call fails.
LEMMA StepPassesSlots ==
  ASSUME SystemTypeOK, ItemXorResult, Externals = {},
         Faults \cap {"crash", "storage"} = {}, [SystemNext]_systemVars
  PROVE  SlotsPass
<1>1. ASSUME NEW p \in Processes, ReconcileStep(p) PROVE SlotsPass
  <2>1. ASSUME NEW i \in Ids, CancelListed(p, i) PROVE SlotsPass
    <3>1. ById(i) \in Keys
      BY DEF ById, Keys
    <3> QED
      BY <2>1, <3>1, KeyPassesSlots, ReaderPassesSlots
         DEF CancelListed, vars, tables
  <2>2. ASSUME NEW path \in Paths, Claim(p, path) PROVE SlotsPass
    BY <2>2, ClaimPassesSlots, ReaderPassesSlots DEF Claim, vars, tables
  <2> QED
    BY <1>1, <2>1, <2>2, ReaderPassesSlots
       DEF ReconcileStep, FindCancels, ListQueue, EndReconcile, vars, tables
<1>2. ASSUME NEW p \in Processes, NEW i \in Ids, Finish(p, i) \/ Beat(p, i)
      PROVE  SlotsPass
  <2>1. ById(i) \in Keys
    BY DEF ById, Keys
  <2> QED
    BY <1>2, <2>1, AckPassesSlots, KeyPassesSlots DEF Finish, Beat
<1>3. ASSUME NEW w \in Waiters, RequestStep(w) \/ ContinueWait(w)
      PROVE  SlotsPass
  <2>1. CASE Enqueue(w)
    <3>1. /\ Asked[w].path \in Paths
          /\ Asked[w].external \in Externals \cup {None}
          /\ (Home[Asked[w].path] # None) \in Exclusives
      BY SystemAssumption DEF Query
    <3>2. request[w].node \in Processes
      BY <2>1 DEF Enqueue, SystemTypeOK, ClientTypeOK, Request
    <3> QED
      BY <2>1, <3>1, <3>2, AddPassesSlots, ReaderPassesSlots
         DEF Enqueue, vars, tables
  <2>2. CASE Ask(w)
    BY <2>2, ReaderPassesSlots DEF Ask, QueryResult, vars, tables
  <2>3. CASE Block(w) \/ Serve(w) \/ ContinueWait(w)
    BY <2>3, ReaderPassesSlots
       DEF Block, Serve, ContinueWait, Subscribe, Lookup, Wake, Retire, GiveUp,
           vars, tables
  <2> QED
    BY <1>3, <2>1, <2>2, <2>3 DEF RequestStep
<1>4. ASSUME NEW path \in Paths, UserCancels(path) PROVE SlotsPass
  <2>1. ByPath(path) \in Keys
    BY DEF ByPath, Keys
  <2> QED
    BY <1>4, <2>1, KeyPassesSlots DEF UserCancels
<1>5. ASSUME NEW i \in Ids, Lapses(i) PROVE SlotsPass
  BY <1>5, ClockPassesSlots DEF Lapses
<1>6. ASSUME StoreStep PROVE SlotsPass
  <2>1. ASSUME NEW i \in Ids, \/ OrphanDeadline(i) \/ ItemExpires(i)
                              \/ ResultExpires(i) \/ Compact(i)
        PROVE  SlotsPass
    BY <2>1, ClockPassesSlots
  <2> QED
    BY <1>6, <2>1, ReaderPassesSlots
       DEF StoreStep, Broadcast, CollectResults, tables
<1>7. ASSUME \/ UNCHANGED systemVars
             \/ \E p \in Processes : ForceReconcile(p)
             \/ \E w \in Waiters, p \in Processes : Call(w, p)
      PROVE  SlotsPass
  BY <1>7, ReaderPassesSlots
     DEF systemVars, vars, tables, ForceReconcile, Call
<1> QED
  BY <1>1, <1>2, <1>3, <1>4, <1>5, <1>6, <1>7, CallsSucceed
     DEF SystemNext, InstanceCrashes

\* While no instance dies and Cube Store fails no call, every execution gives
\* its slot back, whatever users cancel, stalls, is orphaned or expires
\* meanwhile: a refused acknowledgement is one of an item that is gone.  A call
\* that fails ends the execution and leaves the item active, and so does the
\* unique index on request ids, which are not in use (the default of
\* CUBEJS_QUEUE_EXTERNAL_ID) (executeQuery, queue_ack).
THEOREM SlotsGivenBack ==
  ASSUME Externals = {}, Faults \cap {"crash", "storage"} = {}
  PROVE  SystemSpec => []SlotsAreInUse
<1>1. SystemInit => SlotsAreInUse
  BY DEF SystemInit, Init, SlotsAreInUse, Active, Visible, HasItem, NoRow
<1>2. SystemTypeOK /\ QueueInvariant /\ SlotsAreInUse
        /\ [SystemNext]_systemVars => SlotsAreInUse'
  BY StepPassesSlots, SlotsPassOn DEF QueueInvariant
<1> QED
  BY <1>1, <1>2, SystemTypeCorrect, SystemKeepsQueue, PTL DEF SystemSpec

-----------------------------------------------------------------------------
(* Executions.  As long as heartbeats arrive and nobody cancels, an item that *)
(* is executed is active with a fresh heartbeat, and no list of items to      *)
(* cancel names one.                                                          *)

AliveRuns ==
  \A p \in Processes : \A i \in running[p] :
    items[i].status = "active" /\ ~items[i].lapsed

\* What an instance is about to cancel is neither executed nor pending, so
\* that nobody can claim it before the cancellation.
ListedIsIdle ==
  \A p \in Processes : \A i \in reconcile[p].cancels :
    /\ i < nextId /\ items[i].status # "pending"
    /\ \A q \in Processes : i \notin running[q]

NoOrphans == \A i \in Ids : HasItem(i) => ~items[i].orphaned

\* Only the item deadline takes rows out of the indexes (queue item expiry).
LEMMA NothingExpires ==
  ASSUME [Next]_vars, "item" \notin Deadlines
  PROVE  expired' = expired
<1>1. ASSUME NEW p \in Processes, ProcessStep(p) PROVE expired' = expired
  BY <1>1 DEF ProcessStep, Add, AddAndRetrieve, Retrieve, Ack, Abandon, Crash,
              tables
<1>2. ASSUME NEW key \in Keys, KeyStep(key) PROVE expired' = expired
  BY <1>2 DEF KeyStep, Heartbeat, MergeExtra, Cancel
<1>3. ASSUME NEW w \in Waiters, ReaderStep(w) PROVE expired' = expired
  BY <1>3 DEF ReaderStep, QueryResult, Subscribe, Lookup, Wake, Retire,
              GiveUp, tables
<1>4. ASSUME NEW i \in Ids, ClockStep(i) PROVE expired' = expired
  BY <1>4 DEF ClockStep, HeartbeatLapses, OrphanDeadline, ItemExpires,
              ResultExpires, Compact
<1> QED
  BY <1>1, <1>2, <1>3, <1>4
     DEF Next, Clear, Broadcast, CollectResults, vars, tables

\* Only the orphan deadline makes orphans.
LEMMA NobodyIsOrphaned ==
  ASSUME TypeOK, [Next]_vars, "orphaned" \notin Deadlines, NoOrphans
  PROVE  NoOrphans'
<1> DEFINE Kept == \A i \in Ids : HasItem(i)' /\ items'[i].orphaned =>
                                    HasItem(i) /\ items[i].orphaned
<1>r. \A i \in Ids : HasItem(i) => items[i] \in ItemRow
  BY Absence
<1>s. UNCHANGED items => Kept
  BY DEF HasItem
<1>i. ASSUME NEW row, ~row.orphaned, items' = [items EXCEPT ![nextId] = row]
      PROVE  Kept
  BY <1>i DEF HasItem, TypeOK
<1>n. ASSUME NEW k \in Ids, items' = [items EXCEPT ![k] = NoRow] PROVE Kept
  BY <1>n DEF HasItem, NoRow, TypeOK
<1>1. ASSUME NEW p \in Processes, ProcessStep(p) PROVE Kept
  <2>1. ASSUME NEW path, NEW e, NEW pid, NEW x, NEW status,
               Insert(NewItem(path, e, pid, x, status))
        PROVE  Kept
    <3>1. ~NewItem(path, e, pid, x, status).orphaned
      BY DEF NewItem
    <3> QED
      BY <1>i, <2>1, <3>1 DEF Insert
  <2>2. ASSUME NEW path \in Paths, NEW k \in At(path), TryClaim(p, k)
        PROVE  Kept
    <3>1. k \in Ids /\ items[k] \in ItemRow
      BY <1>r, <2>2 DEF At, Visible
    <3>2. items' = [items EXCEPT ![k] = Claimed(items[k])] => Kept
      BY <3>1 DEF HasItem, TypeOK, Claimed, ItemRow
    <3> QED
      BY <1>n, <2>2, <3>1, <3>2 DEF TryClaim
  <2>3. ASSUME NEW path \in Paths, NEW e \in Externals \cup {None},
               NEW x \in Exclusives,
               Add(p, path, e, x) \/ AddAndRetrieve(p, path, e, x)
        PROVE  Kept
    BY <2>1, <2>2, <2>3
       DEF Add, AddAndRetrieve, AddClaimed, AddUnclaimed, ClaimQueued
  <2>4. ASSUME NEW path \in Paths, Retrieve(p, path) PROVE Kept
    BY <2>2, <2>4 DEF Retrieve
  <2>5. ASSUME NEW k \in Ids, NEW v \in {p, None}, Ack(p, k, v) PROVE Kept
    BY <1>n, <1>s, <2>5 DEF Ack, AckAccepted, AckRefused
  <2>6. CASE Crash(p) \/ \E i \in Ids : Abandon(p, i)
    BY <1>s, <2>6 DEF Crash, Abandon, tables
  <2> QED
    BY <1>1, <2>3, <2>4, <2>5, <2>6 DEF ProcessStep
<1>2. ASSUME NEW key \in Keys, KeyStep(key) PROVE Kept
  <2>1. ASSUME NEW k \in ItemsByKey(key)
        PROVE  k \in Ids /\ HasItem(k) /\ items[k] \in ItemRow
    BY <1>r DEF ItemsByKey, At, Visible, Keys
  <2>2. CASE Heartbeat(key)
    BY <2>1, <2>2 DEF Heartbeat, HasItem, TypeOK, ItemRow
  <2>3. ASSUME NEW x \in Extras, MergeExtra(key, x) PROVE Kept
    BY <2>1, <2>3 DEF MergeExtra, HasItem, TypeOK, ItemRow
  <2>4. CASE Cancel(key)
    BY <1>n, <2>1, <2>4 DEF Cancel
  <2> QED
    BY <1>2, <2>2, <2>3, <2>4 DEF KeyStep
<1>3. ASSUME NEW w \in Waiters, ReaderStep(w) PROVE Kept
  BY <1>s, <1>3 DEF ReaderStep, QueryResult, Subscribe, Lookup, Wake, Retire,
                    GiveUp, tables
<1>4. ASSUME NEW i \in Ids, ClockStep(i) PROVE Kept
  <2>1. CASE HeartbeatLapses(i)
    BY <1>r, <2>1 DEF HeartbeatLapses, HasItem, TypeOK, ItemRow
  <2>2. CASE ItemExpires(i) \/ ResultExpires(i)
    BY <1>s, <2>2 DEF ItemExpires, ResultExpires
  <2>3. CASE Compact(i)
    BY <1>s, <1>n, <2>3 DEF Compact
  <2> QED
    BY <1>4, <2>1, <2>2, <2>3 DEF ClockStep, OrphanDeadline
<1>5. ASSUME Clear PROVE Kept
  BY <1>5 DEF Clear, HasItem, NoRow
<1>6. ASSUME \/ UNCHANGED vars \/ \E e \in outbox : Broadcast(e)
             \/ \E due \in SUBSET gc : CollectResults(due)
      PROVE  Kept
  BY <1>s, <1>6 DEF vars, tables, Broadcast, CollectResults
<1> HIDE DEF Kept
<1>7. Kept
  BY <1>1, <1>2, <1>3, <1>4, <1>5, <1>6 DEF Next
<1> QED
  BY <1>7 DEF Kept, NoOrphans

\* Executions that go on keep their item active and fresh.
LEMMA SameRunsStayAlive ==
  ASSUME AliveRuns,
         \A p \in Processes : \A i \in running'[p] :
           /\ i \in running[p] /\ items'[i].status = items[i].status
           /\ items'[i].lapsed => items[i].lapsed
  PROVE  AliveRuns'
BY DEF AliveRuns

\* A claim starts the heartbeat of its item (QUEUE RETRIEVE).
LEMMA ClaimKeepsRuns ==
  ASSUME TypeOK, AliveRuns, NEW p \in Processes, NEW path \in Paths,
         Retrieve(p, path)
  PROVE  AliveRuns'
<1>1. PICK k \in At(path) : TryClaim(p, k)
  BY DEF Retrieve
<1>2. k \in Ids /\ items[k] \in ItemRow /\ items[k].status = "pending"
  BY <1>1, Absence DEF At, Visible, TryClaim
<1>3. \A q \in Processes : k \notin running[q]
  BY <1>2 DEF AliveRuns
<1>4. \A i \in Ids : i # k => items'[i] = items[i]
  BY <1>1 DEF TryClaim, TypeOK
<1>5. CASE k \in payloads
  <2>1. items'[k] = Claimed(items[k])
    BY <1>1, <1>2, <1>5 DEF TryClaim, TypeOK
  <2>2. items'[k].status = "active" /\ ~items'[k].lapsed
    BY <1>2, <2>1 DEF Claimed, ItemRow
  <2>3. \A q \in Processes : \A i \in running'[q] : i = k \/ i \in running[q]
    BY <1>1, <1>5 DEF TryClaim, Execute, TypeOK
  <2> QED
    BY <1>4, <2>2, <2>3 DEF AliveRuns, TypeOK
<1>6. CASE k \notin payloads
  BY <1>1, <1>3, <1>4, <1>6 DEF TryClaim, AliveRuns, TypeOK
<1> QED
  BY <1>5, <1>6

\* The item an execution acknowledges was given to no other (QUEUE ACK).
LEMMA AckKeepsRuns ==
  ASSUME TypeOK, AliveRuns, OneExecutor, NEW p \in Processes, NEW k \in Ids,
         Ack(p, k, p)
  PROVE  AliveRuns'
<1>1. \A i \in Ids : i # k => items'[i] = items[i]
  BY DEF Ack, AckAccepted, AckRefused, TypeOK
<1>2. \A q \in Processes : \A i \in running'[q] : i \in running[q] /\ i # k
  BY DEF Ack, OneExecutor, TypeOK
<1> QED
  BY <1>1, <1>2 DEF AliveRuns, TypeOK

\* A cancellation of an item nobody executes, and a heartbeat.
LEMMA KeyKeepsRuns ==
  ASSUME TypeOK, AliveRuns, NEW k \in Ids,
         \/ Heartbeat(ById(k))
         \/ Cancel(ById(k)) /\ \A q \in Processes : k \notin running[q]
  PROVE  AliveRuns'
<1>1. ItemsByKey(ById(k)) = {i \in {k} : HasItem(i)}
  BY DEF ItemsByKey, ById
<1>2. UNCHANGED running
  BY DEF Heartbeat, Cancel
<1>3. CASE Heartbeat(ById(k))
  <2>1. HasItem(k) /\ items' = [items EXCEPT ![k].lapsed = FALSE]
    BY <1>1, <1>3 DEF Heartbeat
  <2>2. items[k] \in ItemRow
    BY <2>1, Absence
  <2>3. \A i \in Ids : items'[i] = IF i = k THEN [items[k] EXCEPT !.lapsed = FALSE]
                                   ELSE items[i]
    BY <2>1 DEF TypeOK
  <2>4. items'[k].status = items[k].status /\ ~items'[k].lapsed
    BY <2>2, <2>3 DEF ItemRow
  <2> QED
    BY <1>2, <2>3, <2>4 DEF AliveRuns, TypeOK
<1>4. CASE Cancel(ById(k)) /\ \A q \in Processes : k \notin running[q]
  <2>1. \A i \in Ids : i # k => items'[i] = items[i]
    BY <1>1, <1>4 DEF Cancel, TypeOK
  <2> QED
    BY <1>2, <1>4, <2>1 DEF AliveRuns, TypeOK
<1> QED
  BY <1>3, <1>4

\* A new row is executed by nobody (QUEUE ADD).
LEMMA AddKeepsRuns ==
  ASSUME TypeOK, UnusedIds, AliveRuns, NEW p \in Processes, NEW path \in Paths,
         NEW e \in Externals \cup {None}, NEW x \in Exclusives,
         Add(p, path, e, x)
  PROVE  AliveRuns'
<1>1. \A i \in Ids : i # nextId => items'[i] = items[i]
  BY DEF Add, Insert, TypeOK
<1>2. \A q \in Processes : nextId \notin running[q]
  BY QueueAssumption DEF UnusedIds, TypeOK, Ids
<1>3. UNCHANGED running
  BY DEF Add
<1> QED
  BY <1>1, <1>2, <1>3 DEF AliveRuns, TypeOK

\* Time passes an execution by, unless its instance stalls.
LEMMA ClockKeepsRuns ==
  ASSUME TypeOK, AliveRuns, expired = {}, NEW k \in Ids,
         \/ HeartbeatLapses(k) /\ \A q \in Processes : k \notin running[q]
         \/ OrphanDeadline(k) \/ ItemExpires(k) \/ ResultExpires(k)
         \/ Compact(k)
  PROVE  AliveRuns'
<1>1. UNCHANGED running
  BY DEF HeartbeatLapses, OrphanDeadline, ItemExpires, ResultExpires, Compact
<1>2. CASE HeartbeatLapses(k) /\ \A q \in Processes : k \notin running[q]
  BY <1>1, <1>2 DEF HeartbeatLapses, AliveRuns, TypeOK
<1>3. CASE OrphanDeadline(k)
  <2>1. items[k].status = "pending"
    BY <1>3 DEF OrphanDeadline
  <2>2. \A q \in Processes : k \notin running[q]
    BY <2>1 DEF AliveRuns
  <2> QED
    BY <1>1, <1>3, <2>2 DEF OrphanDeadline, AliveRuns, TypeOK
<1>4. CASE ItemExpires(k) \/ ResultExpires(k) \/ Compact(k)
  BY <1>1, <1>4 DEF ItemExpires, ResultExpires, Compact, AliveRuns
<1> QED
  BY <1>2, <1>3, <1>4
\* Nothing the instances do ends the heartbeat of an execution.
LEMMA StepKeepsRuns ==
  ASSUME SystemTypeOK, QueueInvariant, expired = {}, AliveRuns, ListedIsIdle,
         Faults \cap {"cancel", "stall"} = {}, [SystemNext]_systemVars
  PROVE  AliveRuns'
<1> USE DEF SystemTypeOK, QueueInvariant
<1>s. UNCHANGED <<items, running>> => AliveRuns'
  BY DEF AliveRuns
<1>1. ASSUME NEW p \in Processes, ReconcileStep(p) PROVE AliveRuns'
  <2>1. ASSUME NEW i \in Ids, CancelListed(p, i) PROVE AliveRuns'
    <3>1. \A q \in Processes : i \notin running[q]
      BY <2>1 DEF CancelListed, ListedIsIdle
    <3> QED
      BY <1>s, <2>1, <3>1, KeyKeepsRuns DEF CancelListed, vars, tables
  <2>2. ASSUME NEW path \in Paths, Claim(p, path) PROVE AliveRuns'
    BY <1>s, <2>2, ClaimKeepsRuns DEF Claim, vars, tables
  <2> QED
    BY <1>s, <1>1, <2>1, <2>2
       DEF ReconcileStep, FindCancels, ListQueue, EndReconcile, vars, tables
<1>2. ASSUME NEW p \in Processes, NEW i \in Ids, Finish(p, i) \/ Beat(p, i)
      PROVE  AliveRuns'
  BY <1>2, AckKeepsRuns, KeyKeepsRuns DEF Finish, Beat
<1>3. ASSUME NEW w \in Waiters, RequestStep(w) \/ ContinueWait(w)
      PROVE  AliveRuns'
  <2>1. CASE Enqueue(w)
    <3>1. /\ Asked[w].path \in Paths
          /\ Asked[w].external \in Externals \cup {None}
          /\ (Home[Asked[w].path] # None) \in Exclusives
      BY SystemAssumption DEF Query
    <3>2. request[w].node \in Processes
      BY <2>1 DEF Enqueue, ClientTypeOK, Request
    <3> QED
      BY <1>s, <2>1, <3>1, <3>2, AddKeepsRuns DEF Enqueue, vars, tables
  <2>2. CASE Ask(w)
    BY <1>s, <2>2 DEF Ask, QueryResult, vars, tables
  <2>3. CASE Block(w) \/ Serve(w) \/ ContinueWait(w)
    BY <1>s, <2>3
       DEF Block, Serve, ContinueWait, Subscribe, Lookup, Wake, Retire, GiveUp,
           vars, tables
  <2> QED
    BY <1>3, <2>1, <2>2, <2>3 DEF RequestStep
<1>4. ASSUME NEW i \in Ids, Lapses(i) PROVE AliveRuns'
  BY <1>4, ClockKeepsRuns DEF Lapses
<1>5. ASSUME StoreStep PROVE AliveRuns'
  <2>1. ASSUME NEW i \in Ids, \/ OrphanDeadline(i) \/ ItemExpires(i)
                              \/ ResultExpires(i) \/ Compact(i)
        PROVE  AliveRuns'
    BY <2>1, ClockKeepsRuns
  <2> QED
    BY <1>s, <1>5, <2>1 DEF StoreStep, Broadcast, CollectResults, tables
<1>6. ASSUME NEW p \in Processes, InstanceCrashes(p) PROVE AliveRuns'
  BY <1>s, <1>6 DEF InstanceCrashes, Crash, vars, tables, AliveRuns, TypeOK
<1>7. ASSUME \/ UNCHANGED systemVars
             \/ \E p \in Processes : ForceReconcile(p)
             \/ \E w \in Waiters, p \in Processes : Call(w, p)
      PROVE  AliveRuns'
  BY <1>s, <1>7 DEF systemVars, vars, tables, ForceReconcile, Call
<1>8. ASSUME CallFails PROVE AliveRuns'
  BY <1>8, FailureLosesRuns, SameRunsStayAlive
<1> QED
  BY <1>1, <1>2, <1>3, <1>4, <1>5, <1>6, <1>7, <1>8
     DEF SystemNext, UserCancels

\* What is listed stays as idle as it was when the list was read.
LEMMA IdleStaysIdle ==
  ASSUME SystemTypeOK, QueueInvariant, [SystemNext]_systemVars,
         NEW i \in Ids, i < nextId, items[i].status # "pending",
         \A q \in Processes : i \notin running[q]
  PROVE  /\ i < nextId' /\ items'[i].status # "pending"
         /\ \A q \in Processes : i \notin running'[q]
<1>1. [Next]_vars
  BY StepUsesQueue
<1>2. RowPassesOn(i) /\ nextId' >= nextId /\ nextId \in Int /\ nextId' \in Int
  BY <1>1, RowsPassOn, NextKeepsType, QueueAssumption
     DEF QueueInvariant, TypeOK, Ids
<1> QED
  BY <1>2 DEF RowPassesOn, HasItem, Ids

\* The lists of a reconcile only shrink until it reads them anew
\* (reconcileQueue).
LEMMA ListsShrink ==
  ASSUME SystemTypeOK, NEW p \in Processes, [SystemNext]_systemVars
  PROVE  /\ reconcile'[p].cancels \subseteq reconcile[p].cancels
              \/ FindCancels(p)
         /\ reconcile'[p].claims \subseteq reconcile[p].claims \/ ListQueue(p)
<1> DEFINE Shrinks ==
      /\ reconcile'[p].cancels \subseteq reconcile[p].cancels
           \/ FindCancels(p)
      /\ reconcile'[p].claims \subseteq reconcile[p].claims \/ ListQueue(p)
<1>0. /\ reconcile \in [Processes -> Reconcile]
      /\ reconcile[p] \in Reconcile
  BY DEF SystemTypeOK, ClientTypeOK
<1>s. UNCHANGED reconcile => Shrinks
  OBVIOUS
<1>r. ASSUME NEW q \in Processes, reconcile' = Requested(q) PROVE Shrinks
  BY <1>0, <1>r DEF Requested, Idle, Reconcile
<1>f. ASSUME NEW q \in Processes, NEW value,
             value.cancels = {}, value.claims = {},
             reconcile' = [reconcile EXCEPT ![q] = value]
      PROVE  Shrinks
  BY <1>0, <1>f
<1>i. /\ Idle.cancels = {} /\ Idle.claims = {}
      /\ [Idle EXCEPT !.pc = "starting"].cancels = {}
      /\ [Idle EXCEPT !.pc = "starting"].claims = {}
  BY DEF Idle
<1>1. ASSUME NEW q \in Processes, ReconcileStep(q) PROVE Shrinks
  <2>1. ASSUME FindCancels(q) PROVE Shrinks
    BY <1>0, <2>1 DEF FindCancels, Reconcile
  <2>2. ASSUME NEW j \in Ids, CancelListed(q, j) PROVE Shrinks
    BY <1>0, <2>2 DEF CancelListed, Reconcile
  <2>3. ASSUME ListQueue(q) PROVE Shrinks
    BY <1>0, <2>3 DEF ListQueue, Reconcile
  <2>4. ASSUME NEW path \in Paths, Claim(q, path) PROVE Shrinks
    BY <1>0, <2>4 DEF Claim, Reconcile
  <2>5. ASSUME EndReconcile(q) PROVE Shrinks
    BY <1>f, <1>i, <2>5 DEF EndReconcile
  <2> QED
    BY <1>1, <2>1, <2>2, <2>3, <2>4, <2>5 DEF ReconcileStep
<1>2. ASSUME NEW q \in Processes,
             \/ ForceReconcile(q) \/ InstanceCrashes(q)
             \/ \E j \in Ids : Finish(q, j) \/ Beat(q, j)
      PROVE  Shrinks
  <2>1. CASE ForceReconcile(q)
    BY <1>r, <2>1 DEF ForceReconcile
  <2>2. CASE InstanceCrashes(q)
    BY <1>f, <1>i, <2>2 DEF InstanceCrashes
  <2>3. ASSUME NEW j \in Ids, Finish(q, j) \/ Beat(q, j) PROVE Shrinks
    BY <1>r, <1>s, <2>3 DEF Finish, Beat, clientVars
  <2> QED
    BY <1>2, <2>1, <2>2, <2>3
<1>3. ASSUME NEW w \in Waiters,
             \/ RequestStep(w) \/ ContinueWait(w)
             \/ \E q \in Processes : Call(w, q)
      PROVE  Shrinks
  <2>1. ASSUME Enqueue(w) PROVE Shrinks
    <3>1. request[w].node \in Processes
      BY <2>1 DEF Enqueue, SystemTypeOK, ClientTypeOK, Request
    <3> QED
      BY <1>r, <2>1, <3>1 DEF Enqueue
  <2> QED
    BY <1>s, <1>3, <2>1 DEF RequestStep, Ask, Block, Serve, ContinueWait, Call
<1>4. ASSUME \/ UNCHANGED systemVars \/ StoreStep
             \/ \E path \in Paths : UserCancels(path)
             \/ \E j \in Ids : Lapses(j)
      PROVE  Shrinks
  BY <1>s, <1>4 DEF systemVars, StoreStep, UserCancels, Lapses, clientVars
<1>5. CASE CallFails
  <2>1. ASSUME NEW q \in Processes, ReconcileFails(q) PROVE Shrinks
    BY <1>f, <1>i, <2>1 DEF ReconcileFails
  <2>2. ASSUME NEW q \in Processes, NEW path \in Paths, ClaimFails(q, path)
        PROVE  Shrinks
    BY <1>0, <2>2 DEF ClaimFails, Reconcile
  <2> QED
    BY <1>s, <1>5, <2>1, <2>2
       DEF CallFails, ExecutionFails, RequestFails, clientVars
<1> QED
  BY <1>1, <1>2, <1>3, <1>4, <1>5 DEF SystemNext

\* An instance lists what has missed its heartbeat, and nobody executes that.
LEMMA StepKeepsListsIdle ==
  ASSUME SystemTypeOK, QueueInvariant, AliveRuns, NoOrphans, ListedIsIdle,
         [SystemNext]_systemVars
  PROVE  ListedIsIdle'
<1>1. ASSUME NEW p \in Processes, NEW i \in reconcile'[p].cancels
      PROVE  i \in ToCancel \/ i \in reconcile[p].cancels
  <2>1. CASE FindCancels(p)
    BY <1>1, <2>1 DEF FindCancels, SystemTypeOK, ClientTypeOK, Reconcile
  <2> QED
    BY <1>1, <2>1, ListsShrink
<1>2. ASSUME NEW i \in ToCancel
      PROVE  /\ i \in Ids /\ i < nextId /\ items[i].status # "pending"
             /\ \A q \in Processes : i \notin running[q]
  <2>1. i \in Ids /\ HasItem(i) /\ items[i].status = "active" /\ items[i].lapsed
    BY <1>2 DEF ToCancel, NoOrphans, Visible
  <2>2. i < nextId
    BY <2>1, QueueAssumption
       DEF QueueInvariant, UnusedIds, HasItem, NoRow, TypeOK, Ids
  <2> QED
    BY <2>1, <2>2 DEF AliveRuns
<1>3. ASSUME NEW p \in Processes, NEW i \in reconcile[p].cancels
      PROVE  /\ i \in Ids /\ i < nextId /\ items[i].status # "pending"
             /\ \A q \in Processes : i \notin running[q]
  BY <1>3 DEF ListedIsIdle, SystemTypeOK, ClientTypeOK, Reconcile
<1> QED
  BY <1>1, <1>2, <1>3, IdleStaysIdle DEF ListedIsIdle

\* The prefix is one, so the budget is one for all.
LEMMA BudgetBoundsActive ==
  ASSUME ConcurrencyRespected, TypeOK
  PROVE  /\ IsFiniteSet(Active)
         /\ Cardinality(Active) \in Nat /\ Cardinality(Active) <= Concurrency
<1>1. CASE Active = {}
  BY <1>1, FS_EmptySet, QueueAssumption
<1>2. CASE Active # {}
  <2>1. PICK i \in Active : TRUE
    BY <1>2
  <2>2. \A j \in Active : items[j].path \in Paths
    BY Absence DEF Active, Visible, ItemRow
  <2>3. PICK path \in Paths : path = items[i].path
    BY <2>1, <2>2
  <2>4. Active = Counted(Prefix(path), "active")
    BY <2>2, <2>3, SystemAssumption DEF Active, Counted
  <2> QED
    BY <2>4, CountedFinite DEF ConcurrencyRespected
<1> QED
  BY <1>1, <1>2

\* As long as heartbeats arrive in time and nobody cancels, whatever crashes
\* and fails, what really runs is active and within the budget: an instance
\* never cancels an item that another one has claimed meanwhile.  Orphaned
\* items are left out: the list of what to cancel may name one that is claimed
\* before it is cancelled (reconcileQueue, executeQuery).
THEOREM ExecutionsWithinBudget ==
  ASSUME Faults \cap {"cancel", "stall"} = {},
         Deadlines \cap {"orphaned", "item"} = {}
  PROVE  SystemSpec => []ExecutionsRespectConcurrency
<1> DEFINE Alive == expired = {} /\ NoOrphans /\ AliveRuns /\ ListedIsIdle
<1>1. SystemInit => Alive
  BY DEF SystemInit, Init, NoOrphans, HasItem, NoRow, AliveRuns, ListedIsIdle,
         Idle
<1>2. SystemTypeOK /\ QueueInvariant /\ Alive /\ [SystemNext]_systemVars
        => Alive'
  <2> SUFFICES ASSUME SystemTypeOK, QueueInvariant, Alive,
                      [SystemNext]_systemVars
               PROVE  Alive'
    OBVIOUS
  <2>1. [Next]_vars
    BY StepUsesQueue
  <2>2. expired' = {}
    BY <2>1, NothingExpires
  <2>3. NoOrphans'
    BY <2>1, NobodyIsOrphaned DEF QueueInvariant
  <2>4. AliveRuns'
    BY StepKeepsRuns
  <2>5. ListedIsIdle'
    BY StepKeepsListsIdle
  <2> QED
    BY <2>2, <2>3, <2>4, <2>5
<1>3. SystemSpec => []ConcurrencyRespected
  BY InstancesUseQueue, BudgetRespected, PTL
<1>4. QueueInvariant /\ ConcurrencyRespected /\ Alive
        => ExecutionsRespectConcurrency
  <2> SUFFICES ASSUME QueueInvariant, ConcurrencyRespected, Alive
               PROVE  ExecutionsRespectConcurrency
    OBVIOUS
  <2>1. Executing \subseteq Active
    BY DEF Executing, Active, AliveRuns, Visible, HasItem, QueueInvariant, TypeOK
  <2>2. /\ IsFiniteSet(Active)
        /\ Cardinality(Active) \in Nat /\ Cardinality(Active) <= Concurrency
    BY BudgetBoundsActive DEF QueueInvariant
  <2>3. /\ IsFiniteSet(Executing)
        /\ Cardinality(Executing) <= Cardinality(Active)
    BY <2>1, <2>2, FS_Subset
  <2>4. Cardinality(Executing) \in Nat
    BY <2>3, FS_CardinalityType
  <2> QED
    BY <2>1, <2>2, <2>3, <2>4, QueueAssumption DEF ExecutionsRespectConcurrency
<1> HIDE DEF Alive
<1> QED
  BY <1>1, <1>2, <1>3, <1>4, SystemTypeCorrect, SystemKeepsQueue, PTL
     DEF SystemSpec
-----------------------------------------------------------------------------
(* Work.  While an ordinary query is pending, the slots are taken or some     *)
(* instance will still notice it: it has yet to read the list, or was asked   *)
(* to reconcile again, or is about to claim the query, or enough others to    *)
(* fill the slots.                                                            *)

Busy == Active \cup Executing

Waiting == {i \in Ids : Visible(i) /\ items[i].status = "pending"}

\* What p is about to claim.
Wanted(p) == {i \in Waiting : items[i].path \in reconcile[p].claims}

Notices(p, i) ==
  \/ reconcile[p].pc \in {"starting", "cancelling"}
  \/ /\ reconcile[p].pc = "claiming"
     /\ \/ reconcile[p].again
        \/ items[i].path \in reconcile[p].claims
        \/ Cardinality(Busy \cup Wanted(p)) >= Concurrency

WorkIsNoticed ==
  \A i \in Waiting :
    Home[items[i].path] = None =>
      Cardinality(Busy) >= Concurrency \/ \E p \in Processes : Notices(p, i)

\* Persistent queries, and they alone, are exclusive to their instance.
ItemsAreAtHome ==
  \A i \in Ids : HasItem(i) =>
    /\ items[i].exclusive <=> Home[items[i].path] # None
    /\ items[i].exclusive => items[i].owner = Home[items[i].path]
RequestsAreAtHome ==
  \A w \in Waiters : request[w].pc \in {"asking", "adding"} =>
    Home[Asked[w].path] \in {None, request[w].node}
ClaimsAreAtHome ==
  \A p \in Processes : \A path \in reconcile[p].claims :
    Home[path] \in {None, p}
AtHome == ItemsAreAtHome /\ RequestsAreAtHome /\ ClaimsAreAtHome

\* The order of the list puts any two items one before the other.
LEMMA BeforeIsLinear ==
  ASSUME NEW rows \in SUBSET Ids, \A i \in rows : items[i].path \in Paths
  PROVE  /\ \A i \in rows : ~Before(i, i)
         /\ \A i, j \in rows : i # j => Before(i, j) \/ Before(j, i)
         /\ \A i, j, k \in rows : Before(i, j) /\ Before(j, k) => Before(i, k)
<1>1. \A i \in rows : i \in Int /\ Priority[items[i].path] \in Int
  BY SystemAssumption DEF Ids
<1> QED
  BY <1>1 DEF Before

\* Distinct ranks below the size of a set take every value below it.
LEMMA RanksFill ==
  ASSUME NEW S, IsFiniteSet(S), NEW rank \in [S -> Nat],
         \A j \in S : rank[j] < Cardinality(S),
         \A j, k \in S : rank[j] = rank[k] => j = k,
         NEW r \in Nat, r < Cardinality(S)
  PROVE  \E j \in S : rank[j] = r
<1>1. PICK m \in Nat : m = Cardinality(S)
  BY FS_CardinalityType
<1>2. IsFiniteSet(0 .. (m - 1)) /\ Cardinality(0 .. (m - 1)) = m
  <2>1. 0 \in Int /\ m - 1 \in Int
    OBVIOUS
  <2>2. /\ IsFiniteSet(0 .. (m - 1))
        /\ Cardinality(0 .. (m - 1)) = IF 0 > m - 1 THEN 0 ELSE (m - 1) - 0 + 1
    BY <2>1, FS_Interval
  <2> QED
    BY <2>2
<1>3. \A j \in S : rank[j] \in 0 .. (m - 1)
  BY <1>1
<1>4. rank \in Injection(S, 0 .. (m - 1))
  <2>1. rank \in [S -> 0 .. (m - 1)]
    BY <1>3
  <2> QED
    BY <2>1 DEF Injection, IsInjective
<1>5. rank \in Surjection(S, 0 .. (m - 1))
  BY <1>1, <1>2, <1>4, FS_Injection
<1>6. r \in 0 .. (m - 1)
  BY <1>1
<1> QED
  BY <1>5, <1>6 DEF Surjection

\* When an item is cut from the list, the cut is full (getQueriesToProcess,
\* the slice to the processing limit).
LEMMA FirstIsFull ==
  ASSUME NEW rows \in SUBSET Ids, \A i \in rows : items[i].path \in Paths,
         NEW n \in Nat, NEW i \in rows, i \notin First(n, rows)
  PROVE  Cardinality(First(n, rows)) >= n
<1> DEFINE below(j) == {k \in rows : Before(k, j)}
           rank == [j \in rows |-> Cardinality(below(j))]
           cut  == First(n, rows)
<1>1. IsFiniteSet(Ids)
  BY QueueAssumption, FS_Interval DEF Ids
<1>2. IsFiniteSet(rows)
  BY <1>1, FS_Subset
<1>m. PICK m \in Nat : m = Cardinality(rows)
  BY <1>2, FS_CardinalityType
<1>r. \A j \in rows : rank[j] = Cardinality(below(j))
  OBVIOUS
<1> HIDE DEF rank
<1>3. ASSUME NEW j \in rows
      PROVE  /\ below(j) \in SUBSET rows /\ j \notin below(j)
             /\ IsFiniteSet(below(j)) /\ rank[j] \in Nat /\ rank[j] < m
  <2>1. below(j) \in SUBSET rows /\ j \notin below(j)
    BY BeforeIsLinear
  <2>2. /\ IsFiniteSet(below(j)) /\ Cardinality(below(j)) <= m
        /\ m = Cardinality(below(j)) => rows = below(j)
    BY <1>2, <1>m, <2>1, FS_Subset
  <2>3. Cardinality(below(j)) \in Nat
    BY <2>2, FS_CardinalityType
  <2> HIDE DEF below
  <2> QED
    BY <1>r, <2>1, <2>2, <2>3
<1>4. ASSUME NEW j \in rows, NEW k \in rows, Before(j, k)
      PROVE  rank[j] < rank[k]
  <2>1. below(j) \in SUBSET below(k) /\ j \in below(k) /\ j \notin below(j)
    BY <1>3, <1>4, BeforeIsLinear
  <2>2. IsFiniteSet(below(k)) /\ rank[j] \in Nat /\ rank[k] \in Nat
    BY <1>3
  <2> HIDE DEF below
  <2>3. /\ Cardinality(below(j)) <= Cardinality(below(k))
        /\ Cardinality(below(k)) = Cardinality(below(j)) => below(k) = below(j)
    BY <2>1, <2>2, FS_Subset
  <2> QED
    BY <1>r, <2>1, <2>2, <2>3
<1>5. ASSUME NEW j \in rows, NEW k \in rows, rank[j] = rank[k] PROVE j = k
  <2>1. rank[j] \in Nat /\ rank[k] \in Nat
    BY <1>3
  <2>2. ~Before(j, k) /\ ~Before(k, j)
    BY <1>4, <1>5, <2>1
  <2> QED
    BY <2>2, BeforeIsLinear
<1>6. rank \in [rows -> Nat]
  BY <1>3 DEF rank
<1>7. \A j \in rows : j \in cut <=> rank[j] < n
  BY <1>r DEF First
<1>8. n <= rank[i] /\ rank[i] < m /\ rank[i] \in Nat
  <2>1. ~(rank[i] < n)
    BY <1>7
  <2>2. rank[i] \in Nat /\ rank[i] < m
    BY <1>3
  <2> HIDE DEF below, cut
  <2> QED
    BY <2>1, <2>2
<1>9. ASSUME NEW k \in 1 .. n PROVE \E j \in cut : rank[j] + 1 = k
  <2>1. k - 1 \in Nat /\ k - 1 < m
    BY <1>8
  <2>2. \A j \in rows : rank[j] < Cardinality(rows)
    BY <1>m, <1>3
  <2>3. \E j \in rows : rank[j] = k - 1
    BY <1>2, <1>m, <1>5, <1>6, <2>1, <2>2, RanksFill
  <2>4. PICK j \in rows : rank[j] = k - 1
    BY <2>3
  <2>5. rank[j] < n /\ rank[j] + 1 = k
    BY <2>4
  <2> QED
    BY <1>7, <2>5
<1> DEFINE place == [j \in cut |-> rank[j] + 1]
<1>10. \A j \in cut : j \in rows
  BY DEF First
<1>11. place \in Surjection(cut, 1 .. n)
  <2> HIDE DEF cut
  <2>1. ASSUME NEW j \in cut PROVE rank[j] + 1 \in 1 .. n
    <3>1. j \in rows
      BY <1>10
    <3>2. rank[j] \in Nat
      BY <1>3, <3>1
    <3>3. rank[j] < n
      BY <1>7, <3>1
    <3> QED
      BY <3>2, <3>3
  <2>2. place \in [cut -> 1 .. n]
    BY <2>1
  <2>3. ASSUME NEW k \in 1 .. n PROVE \E j \in cut : place[j] = k
    <3>1. PICK j \in cut : rank[j] + 1 = k
      BY <1>9
    <3>2. place[j] = k
      BY <3>1
    <3> QED
      BY <3>2
  <2> HIDE DEF place
  <2> QED
    BY <2>2, <2>3 DEF Surjection
<1>12. IsFiniteSet(cut)
  BY <1>2, <1>10, FS_Subset
<1>13. Cardinality(1 .. n) <= Cardinality(cut)
  <2> HIDE DEF place, cut
  <2> QED
    BY <1>11, <1>12, FS_Surjection
<1>14. Cardinality(1 .. n) = n
  <2>1. Cardinality(1 .. n) = IF 1 > n THEN 0 ELSE n - 1 + 1
    BY FS_Interval
  <2> QED
    BY <2>1
<1>15. Cardinality(cut) \in Nat
  BY <1>12, FS_CardinalityType
<1> QED
  BY <1>13, <1>14, <1>15

\* An item is added by a request that is served where it is at home.
LEMMA OnlyEnqueueAdds ==
  ASSUME SystemTypeOK, [SystemNext]_systemVars, nextId' # nextId
  PROVE  \E w \in Waiters :
           /\ Enqueue(w)
           /\ Add(request[w].node, Asked[w].path, Asked[w].external,
                  Home[Asked[w].path] # None)
<1>1. ASSUME NEW p \in Processes,
             \/ ReconcileStep(p) \/ ForceReconcile(p) \/ InstanceCrashes(p)
             \/ \E i \in Ids : Finish(p, i) \/ Beat(p, i)
      PROVE  FALSE
  <2>1. ~ReconcileStep(p)
    BY DEF ReconcileStep, FindCancels, CancelListed, ListQueue, Claim,
           EndReconcile, Cancel, Retrieve, TryClaim, vars, tables
  <2>2. ~(ForceReconcile(p) \/ InstanceCrashes(p))
    BY DEF ForceReconcile, InstanceCrashes, Crash, vars, tables
  <2>3. ~\E i \in Ids : Finish(p, i) \/ Beat(p, i)
    BY DEF Finish, Beat, Ack, Heartbeat
  <2> QED
    BY <1>1, <2>1, <2>2, <2>3
<1>2. ASSUME NEW w \in Waiters, RequestStep(w) \/ ContinueWait(w), ~Enqueue(w)
      PROVE  FALSE
  BY <1>2 DEF RequestStep, Ask, Block, Serve, ContinueWait, QueryResult,
              Subscribe, Lookup, Wake, Retire, GiveUp, vars, tables
<1>3. ~\/ UNCHANGED systemVars
       \/ \E path \in Paths : UserCancels(path)
       \/ \E i \in Ids : Lapses(i)
       \/ \E w \in Waiters, p \in Processes : Call(w, p)
  BY DEF systemVars, UserCancels, Lapses, Call, Cancel, HeartbeatLapses, vars,
         tables
<1>4. ~StoreStep
  BY DEF StoreStep, Broadcast, CollectResults, OrphanDeadline, ItemExpires,
         ResultExpires, Compact, tables
<1>5. ~CallFails
  BY FailureLosesRuns DEF SystemTypeOK
<1>6. PICK w \in Waiters : Enqueue(w)
  BY <1>1, <1>2, <1>3, <1>4, <1>5 DEF SystemNext
<1> QED
  BY <1>6 DEF Enqueue, vars, tables

\* Items, requests and claims stay where they belong (executeInQueue,
\* reconcileQueue: persistent queries are keyed with their instance).
LEMMA StepKeepsHomes ==
  ASSUME SystemTypeOK, QueueInvariant, QueueInvariant', AtHome,
         [SystemNext]_systemVars
  PROVE  AtHome'
<1> USE DEF AtHome
<1>1. ASSUME NEW i \in Ids, HasItem(i)'
      PROVE  /\ items'[i].exclusive <=> Home[items'[i].path] # None
             /\ items'[i].exclusive => items'[i].owner = Home[items'[i].path]
  <2>1. CASE i # nextId
    <3>1. RowPassesOn(i)
      BY <2>1, StepUsesQueue, RowsPassOn DEF QueueInvariant
    <3> QED
      BY <1>1, <3>1 DEF RowPassesOn, ItemsAreAtHome
  <2>2. CASE i = nextId
    <3>1. nextId' # nextId
      BY <1>1, <2>2 DEF QueueInvariant, UnusedIds, HasItem, NoRow, Ids
    <3>2. PICK w \in Waiters :
            /\ Enqueue(w)
            /\ Add(request[w].node, Asked[w].path, Asked[w].external,
                   Home[Asked[w].path] # None)
      BY <3>1, OnlyEnqueueAdds
    <3>3. /\ items'[i].path = Asked[w].path
          /\ items'[i].exclusive = (Home[Asked[w].path] # None)
          /\ items'[i].owner = PidOf(request[w].node)
      BY <2>2, <3>2 DEF Add, Insert, NewItem, QueueInvariant, TypeOK
    <3>4. Home[Asked[w].path] \in {None, request[w].node}
      BY <3>2 DEF RequestsAreAtHome, Enqueue
    <3>5. Asked[w].path \in Paths
      BY SystemAssumption DEF Query
    <3>6. Home[Asked[w].path] # None =>
            PidOf(request[w].node) = Home[Asked[w].path]
      BY <3>4, <3>5, SystemAssumption DEF PidOf
    <3> QED
      BY <3>3, <3>6
  <2> QED
    BY <2>1, <2>2
<1>2. ASSUME NEW w \in Waiters, request'[w].pc \in {"asking", "adding"}
      PROVE  Home[Asked[w].path] \in {None, request'[w].node}
  <2>0. request \in [Waiters -> Request]
    BY DEF SystemTypeOK, ClientTypeOK
  <2>1. CASE /\ request[w].pc \in {"asking", "adding"}
             /\ request'[w].node = request[w].node
    BY <2>1 DEF RequestsAreAtHome
  <2>2. CASE \E p \in Processes : Call(w, p)
    BY <2>0, <2>2 DEF Call, Request
  <2>s. ASSUME UNCHANGED request
        PROVE  /\ request[w].pc \in {"asking", "adding"}
               /\ request'[w].node = request[w].node
    BY <1>2, <2>s
  <2>3. ASSUME NEW p \in Processes,
               ReconcileStep(p) \/ ForceReconcile(p)
        PROVE  /\ request[w].pc \in {"asking", "adding"}
               /\ request'[w].node = request[w].node
    <3>1. CASE EndReconcile(p)
      BY <1>2, <2>0, <2>s, <3>1
         DEF EndReconcile, Settled, AfterReconcile, Request
    <3> QED
      BY <2>s, <2>3, <3>1
         DEF ReconcileStep, FindCancels, CancelListed, ListQueue, Claim,
             ForceReconcile
  <2>4. ASSUME NEW p \in Processes, InstanceCrashes(p)
        PROVE  /\ request[w].pc \in {"asking", "adding"}
               /\ request'[w].node = request[w].node
    BY <1>2, <2>0, <2>4 DEF InstanceCrashes, Request
  <2>5. ASSUME NEW v \in Waiters,
               \/ RequestStep(v) \/ ContinueWait(v)
               \/ v # w /\ \E p \in Processes : Call(v, p)
        PROVE  /\ request[w].pc \in {"asking", "adding"}
               /\ request'[w].node = request[w].node
    <3>1. CASE Ask(v)
      BY <1>2, <2>0, <3>1 DEF Ask, Move, Request
    <3>2. CASE Enqueue(v)
      BY <1>2, <2>0, <3>2 DEF Enqueue, Request
    <3>3. CASE Block(v) \/ Serve(v) \/ ContinueWait(v)
      BY <1>2, <2>0, <3>3 DEF Block, Serve, ContinueWait, Move, Request
    <3>4. CASE v # w /\ \E p \in Processes : Call(v, p)
      BY <1>2, <2>0, <3>4 DEF Call, Request
    <3> QED
      BY <2>5, <3>1, <3>2, <3>3, <3>4 DEF RequestStep
  <2>6. ASSUME \/ UNCHANGED systemVars \/ StoreStep
               \/ \E path \in Paths : UserCancels(path)
               \/ \E j \in Ids : Lapses(j)
               \/ \E p \in Processes, j \in Ids : Finish(p, j) \/ Beat(p, j)
        PROVE  /\ request[w].pc \in {"asking", "adding"}
               /\ request'[w].node = request[w].node
    BY <2>s, <2>6 DEF systemVars, StoreStep, UserCancels, Lapses, Finish, Beat,
                      clientVars
  <2>7. ASSUME CallFails
        PROVE  /\ request[w].pc \in {"asking", "adding"}
               /\ request'[w].node = request[w].node
    <3>1. ASSUME NEW p \in Processes, ReconcileFails(p)
          PROVE  /\ request[w].pc \in {"asking", "adding"}
                 /\ request'[w].node = request[w].node
      BY <1>2, <2>0, <3>1 DEF ReconcileFails, Settled, Request
    <3>2. ASSUME NEW v \in Waiters, RequestFails(v)
          PROVE  /\ request[w].pc \in {"asking", "adding"}
                 /\ request'[w].node = request[w].node
      BY <1>2, <2>0, <3>2 DEF RequestFails, Move, Request
    <3> QED
      BY <2>s, <2>7, <3>1, <3>2
         DEF CallFails, ClaimFails, ExecutionFails, clientVars
  <2> QED
    BY <2>1, <2>2, <2>3, <2>4, <2>5, <2>6, <2>7 DEF SystemNext
<1>3. ASSUME NEW p \in Processes, NEW path \in reconcile'[p].claims
      PROVE  Home[path] \in {None, p}
  <2>1. CASE ListQueue(p)
    <3>1. path \in {items[i].path : i \in Picked(p)}
      BY <1>3, <2>1 DEF ListQueue, SystemTypeOK, ClientTypeOK, Reconcile
    <3> QED
      BY <3>1 DEF Picked, First, Takes
  <2>2. CASE path \in reconcile[p].claims
    BY <2>2 DEF ClaimsAreAtHome
  <2> QED
    BY <1>3, <2>1, <2>2, ListsShrink
<1>4. ItemsAreAtHome'
  BY <1>1 DEF ItemsAreAtHome
<1>5. RequestsAreAtHome'
  BY <1>2 DEF RequestsAreAtHome
<1>6. ClaimsAreAtHome'
  BY <1>3 DEF ClaimsAreAtHome
<1> QED
  BY <1>4, <1>5, <1>6
\* The rows as the slots see them: whatever is busy stays so, what waits goes
\* on waiting or becomes busy, and nothing begins to wait.
RowsKept ==
  /\ Busy \subseteq Busy'
  /\ Waiting' \subseteq Waiting /\ Waiting \subseteq Waiting' \cup Busy'
  /\ \A i \in Waiting' : items'[i].path = items[i].path

\* Sets of items are finite, and a larger set fills the slots as well.
LEMMA LargerFills ==
  ASSUME NEW T \in SUBSET Ids, NEW S \in SUBSET T,
         Cardinality(S) >= Concurrency
  PROVE  Cardinality(T) >= Concurrency
<1>1. IsFiniteSet(Ids)
  BY QueueAssumption, FS_Interval DEF Ids
<1>2. IsFiniteSet(T)
  BY <1>1, FS_Subset
<1>3. IsFiniteSet(S) /\ Cardinality(S) <= Cardinality(T)
  BY <1>2, FS_Subset
<1>4. Cardinality(S) \in Nat /\ Cardinality(T) \in Nat
  BY <1>2, <1>3, FS_CardinalityType
<1> QED
  BY <1>3, <1>4, QueueAssumption

\* What is busy or wanted is an item.
LEMMA BusyItems ==
  ASSUME TypeOK
  PROVE  /\ Busy \subseteq Ids /\ Waiting \subseteq Ids
         /\ \A p \in Processes : Wanted(p) \subseteq Ids
BY DEF Busy, Active, Executing, Waiting, Wanted, TypeOK

\* And what will be busy or wanted.
LEMMA NextBusyItems ==
  ASSUME TypeOK'
  PROVE  /\ Busy' \subseteq Ids /\ Waiting' \subseteq Ids
         /\ \A p \in Processes : Wanted(p)' \subseteq Ids
BY DEF Busy, Active, Executing, Waiting, Wanted, TypeOK

\* Rows that are kept leave a reconcile with as much in view as before.
LEMMA KeptNotice ==
  ASSUME TypeOK', RowsKept, NEW p \in Processes,
         reconcile'[p] = reconcile[p], NEW i \in Waiting', Notices(p, i)
  PROVE  Notices(p, i)'
<1>1. items'[i].path = items[i].path
  BY DEF RowsKept
<1>2. Busy \cup Wanted(p) \subseteq Busy' \cup Wanted(p)'
  BY DEF RowsKept, Wanted
<1>3. Busy' \cup Wanted(p)' \subseteq Ids
  BY NextBusyItems
<1>4. Cardinality(Busy \cup Wanted(p)) >= Concurrency =>
        Cardinality(Busy' \cup Wanted(p)') >= Concurrency
  BY <1>2, <1>3, LargerFills
<1> QED
  BY <1>1, <1>4 DEF Notices

\* Steps that keep the rows and leave the reconciles alone forget no work.
LEMMA KeptIsNoticed ==
  ASSUME TypeOK', RowsKept, UNCHANGED reconcile, WorkIsNoticed
  PROVE  WorkIsNoticed'
<1>1. Busy' \subseteq Ids
  BY NextBusyItems
<1>2. Cardinality(Busy) >= Concurrency => Cardinality(Busy') >= Concurrency
  BY <1>1, LargerFills DEF RowsKept
<1>3. ASSUME NEW i \in Waiting', Home[items'[i].path] = None
      PROVE  Cardinality(Busy') >= Concurrency
               \/ \E p \in Processes : Notices(p, i)'
  <2>1. i \in Waiting /\ items'[i].path = items[i].path
    BY DEF RowsKept
  <2>2. \/ Cardinality(Busy) >= Concurrency
        \/ \E p \in Processes : Notices(p, i)
    BY <1>3, <2>1 DEF WorkIsNoticed
  <2> QED
    BY <1>2, <2>2, KeptNotice
<1> QED
  BY <1>3 DEF WorkIsNoticed

\* A run that has yet to read the list, or will read it again, notices all.
LEMMA RunNoticesAll ==
  ASSUME NEW p \in Processes,
         \/ reconcile'[p].pc \in {"starting", "cancelling"}
         \/ reconcile'[p].pc = "claiming" /\ reconcile'[p].again
  PROVE  WorkIsNoticed'
<1>1. \A i : Notices(p, i)'
  BY DEF Notices
<1> QED
  BY <1>1 DEF WorkIsNoticed

\* So does an instance that is asked to reconcile (reconcileAgain).
LEMMA RequestedNotices ==
  ASSUME SystemTypeOK, NEW p \in Processes, reconcile' = Requested(p)
  PROVE  WorkIsNoticed'
<1>1. reconcile \in [Processes -> Reconcile] /\ reconcile[p] \in Reconcile
  BY DEF SystemTypeOK, ClientTypeOK
<1>2. CASE reconcile[p].pc = "idle"
  <2>1. reconcile'[p].pc = "starting"
    BY <1>1, <1>2 DEF Requested, Idle
  <2> QED
    BY <2>1, RunNoticesAll
<1>3. CASE reconcile[p].pc # "idle"
  <2>1. reconcile'[p] = [reconcile[p] EXCEPT !.again = TRUE]
    BY <1>1, <1>3 DEF Requested
  <2>2. /\ reconcile'[p].pc \in {"starting", "cancelling", "claiming"}
        /\ reconcile'[p].again
    BY <1>1, <1>3, <2>1 DEF Reconcile
  <2> QED
    BY <2>2, RunNoticesAll
<1> QED
  BY <1>2, <1>3

\* Rows whose status, path and expiry stay are kept.
LEMMA SameRowsKept ==
  ASSUME UNCHANGED <<running, expired>>,
         \A i \in Ids : /\ items'[i].status = items[i].status
                        /\ HasItem(i) => items'[i].path = items[i].path
  PROVE  RowsKept
<1>1. \A i \in Ids : Visible(i)' <=> Visible(i)
  BY DEF Visible, HasItem
<1>2. Active' = Active /\ Executing' = Executing /\ Waiting' = Waiting
  BY <1>1 DEF Active, Executing, Waiting
<1> QED
  BY <1>2 DEF RowsKept, Busy, Waiting, Visible

\* Steps that leave items and executions alone.
LEMMA UntouchedRowsKept ==
  ASSUME UNCHANGED <<items, running, expired>>
  PROVE  RowsKept
BY SameRowsKept

\* A claim makes the only item of its path busy (QUEUE RETRIEVE).
LEMMA RetrieveKeepsRows ==
  ASSUME TypeOK, QueueInvariant, NEW p \in Processes, NEW path \in Paths,
         Retrieve(p, path)
  PROVE  RowsKept /\ \A i \in At(path) : i \in Busy' /\ i \notin Waiting'
<1>1. PICK k \in At(path) : TryClaim(p, k)
  BY DEF Retrieve
<1>2. /\ k \in Ids /\ Visible(k) /\ items[k] \in ItemRow
      /\ items[k].path = path /\ items[k].status = "pending"
  BY <1>1, Absence DEF At, Visible, TryClaim
<1>3. k \in payloads /\ At(path) = {k}
  BY <1>1, <1>2 DEF QueueInvariant, PayloadOfVisibleItem, OneItemPerPath, At
<1>4. /\ items'[k] = Claimed(items[k])
      /\ \A i \in Ids : i # k => items'[i] = items[i]
      /\ \A q \in Processes : running[q] \subseteq running'[q]
      /\ expired' = expired
  BY <1>1, <1>2, <1>3 DEF TryClaim, Execute, TypeOK, Retrieve
<1>5. items'[k].status = "active" /\ items'[k].path = items[k].path
  BY <1>2, <1>4 DEF Claimed, ItemRow
<1>6. \A i \in Ids : Visible(i)' <=> Visible(i)
  BY <1>2, <1>4, <1>5 DEF Visible, HasItem
<1>7. k \in Active' /\ k \notin Waiting'
  BY <1>2, <1>5, <1>6 DEF Active, Waiting
<1>8. /\ Active \subseteq Active' /\ Executing \subseteq Executing'
      /\ Waiting' = Waiting \ {k}
      /\ \A i \in Waiting' : items'[i].path = items[i].path
  BY <1>2, <1>4, <1>5, <1>6 DEF Active, Executing, Waiting
<1> QED
  BY <1>3, <1>7, <1>8 DEF RowsKept, Busy

\* A claim, taken or refused, loses none of the work that the others still
\* notice, and takes its own path off the list only when that is busy or the
\* slots are taken.
LEMMA ClaimKeepsWork ==
  ASSUME SystemTypeOK, TypeOK', QueueInvariant, AtHome, WorkIsNoticed,
         NEW p \in Processes, NEW path \in Paths, Claim(p, path)
  PROVE  WorkIsNoticed'
<1> USE DEF SystemTypeOK
<1>0. /\ reconcile \in [Processes -> Reconcile] /\ reconcile[p] \in Reconcile
      /\ reconcile[p].pc = "claiming" /\ path \in reconcile[p].claims
  BY DEF ClientTypeOK, Claim
<1>1. /\ reconcile'[p].pc = "claiming"
      /\ reconcile'[p].again = reconcile[p].again
      /\ reconcile'[p].claims = reconcile[p].claims \ {path}
      /\ \A q \in Processes : q # p => reconcile'[q] = reconcile[q]
  BY <1>0 DEF Claim, Reconcile
<1>2. RowsKept
  BY RetrieveKeepsRows, UntouchedRowsKept DEF Claim, vars, tables
<1>3. Busy' \subseteq Ids /\ Wanted(p)' \subseteq Ids
  BY NextBusyItems
<1>4. Cardinality(Busy) >= Concurrency => Cardinality(Busy') >= Concurrency
  BY <1>2, <1>3, LargerFills DEF RowsKept
<1>5. \/ Cardinality(Busy') >= Concurrency
      \/ \A i \in At(path) : i \in Busy' /\ i \notin Waiting'
      \/ UNCHANGED <<items, expired>> /\ \A i \in At(path) : i \notin Waiting
  <2>1. CASE Retrieve(p, path)
    BY <2>1, RetrieveKeepsRows
  <2>2. CASE /\ Cardinality(Counted(Prefix(path), "active")) >= Concurrency
             /\ UNCHANGED vars
    <3>1. Counted(Prefix(path), "active") \subseteq Busy
      BY DEF Counted, Busy, Active
    <3>2. Busy \subseteq Ids
      BY BusyItems
    <3> QED
      BY <1>4, <2>2, <3>1, <3>2, LargerFills
  <2>3. CASE /\ \A i \in At(path) :
                  \/ items[i].status # "pending"
                  \/ items[i].exclusive /\ items[i].owner # PidOf(p)
             /\ UNCHANGED vars
    <3>1. ASSUME NEW i \in At(path) PROVE i \notin Waiting
      <4>1. i \in Ids /\ HasItem(i) /\ items[i].path = path
        BY DEF At, Visible
      <4>2. Home[path] \in {None, p}
        BY <1>0 DEF AtHome, ClaimsAreAtHome
      <4>3. items[i].exclusive =>
              items[i].owner = Home[path] /\ Home[path] # None
        BY <4>1 DEF AtHome, ItemsAreAtHome
      <4>4. Home[path] # None => PidOf(p) = Home[path]
        BY <4>2, SystemAssumption DEF PidOf
      <4> QED
        BY <2>3, <4>3, <4>4 DEF Waiting
    <3> QED
      BY <2>3, <3>1 DEF vars, tables
  <2> QED
    BY <2>1, <2>2, <2>3 DEF Claim, RetrieveRefused
<1>6. ASSUME NEW i \in Waiting', Home[items'[i].path] = None,
             ~(Cardinality(Busy') >= Concurrency)
      PROVE  \E q \in Processes : Notices(q, i)'
  <2>1. /\ i \in Ids /\ i \in Waiting /\ items'[i].path = items[i].path
        /\ Visible(i)
    BY <1>2 DEF RowsKept, Waiting
  <2>2. items[i].path # path
    BY <1>5, <1>6, <2>1 DEF At, Waiting, Visible, HasItem
  <2>3. PICK q \in Processes : Notices(q, i)
    BY <1>4, <1>6, <2>1 DEF WorkIsNoticed
  <2>4. CASE q # p
    BY <1>1, <1>2, <2>3, <2>4, KeptNotice
  <2>5. CASE q = p
    <3>1. \/ reconcile[p].again \/ items[i].path \in reconcile[p].claims
          \/ Cardinality(Busy \cup Wanted(p)) >= Concurrency
      BY <1>0, <2>3, <2>5 DEF Notices
    <3>2. Wanted(p) \subseteq Busy' \cup Wanted(p)'
      <4>1. ASSUME NEW j \in Wanted(p) PROVE j \in Busy' \/ j \in Wanted(p)'
        <5>1. j \in Waiting /\ j \in Ids /\ items[j].path \in reconcile[p].claims
          BY DEF Wanted, Waiting
        <5>2. CASE items[j].path = path
          <6>1. j \in At(path)
            BY <5>1, <5>2 DEF At, Waiting
          <6> QED
            BY <1>5, <1>6, <5>1, <6>1
        <5>3. CASE items[j].path # path
          BY <1>1, <1>2, <5>1, <5>3 DEF RowsKept, Wanted
        <5> QED
          BY <5>2, <5>3
      <4> QED
        BY <4>1
    <3>3. Busy \cup Wanted(p) \subseteq Busy' \cup Wanted(p)'
      BY <1>2, <3>2 DEF RowsKept
    <3>4. Cardinality(Busy \cup Wanted(p)) >= Concurrency =>
            Cardinality(Busy' \cup Wanted(p)') >= Concurrency
      BY <1>3, <3>3, LargerFills
    <3>5. Notices(p, i)'
      BY <1>1, <2>1, <2>2, <3>1, <3>4 DEF Notices
    <3> QED
      BY <3>5
  <2> QED
    BY <2>4, <2>5
<1> QED
  BY <1>6 DEF WorkIsNoticed
\* An instance that reads the list will claim the query, or as many others as
\* there are slots (reconcileQueue).
LEMMA ListKeepsWork ==
  ASSUME SystemTypeOK, TypeOK', AtHome, WorkIsNoticed,
         NEW p \in Processes, ListQueue(p)
  PROVE  WorkIsNoticed'
<1> USE DEF SystemTypeOK
<1>0. /\ reconcile \in [Processes -> Reconcile] /\ reconcile[p] \in Reconcile
  BY DEF ClientTypeOK
<1>1. /\ reconcile'[p].pc = "claiming"
      /\ reconcile'[p].claims = {items[i].path : i \in Picked(p)}
      /\ \A q \in Processes : q # p => reconcile'[q] = reconcile[q]
  BY <1>0 DEF ListQueue, Reconcile
<1>2. /\ UNCHANGED <<items, running, expired>> /\ Busy' = Busy
      /\ Waiting' = Waiting
  BY DEF ListQueue, vars, tables, Busy, Active, Executing, Waiting, Visible,
         HasItem
<1>3. RowsKept
  BY <1>2, UntouchedRowsKept
<1>4. Busy \cup Wanted(p)' \subseteq Ids /\ Busy \subseteq Ids
  BY <1>2, BusyItems, NextBusyItems
<1> DEFINE rows == {i \in Listed(p, "pending") : Takes(p, i)}
           mine == Listed(p, "active")
<1>5. rows \in SUBSET Ids /\ \A i \in rows : items[i].path \in Paths
  BY Absence DEF Listed, Visible, ItemRow
<1>6. mine \subseteq Busy
  BY DEF Listed, Busy, Active
<1>7. IsFiniteSet(mine) /\ Cardinality(mine) \in Nat
  <2>1. IsFiniteSet(Ids)
    BY QueueAssumption, FS_Interval DEF Ids
  <2>2. mine \subseteq Ids
    BY <1>4, <1>6
  <2> HIDE DEF mine
  <2> QED
    BY <2>1, <2>2, FS_Subset, FS_CardinalityType
<1>8. ASSUME Cardinality(mine) < Concurrency, NEW i \in rows, i \notin Picked(p)
      PROVE  Cardinality(Busy \cup Wanted(p)') >= Concurrency
  <2>1. /\ ToProcessLimit(p) = Concurrency - Cardinality(mine)
        /\ ToProcessLimit(p) \in Nat
    <3> HIDE DEF rows
    <3> QED
      BY <1>7, <1>8, QueueAssumption DEF ToProcessLimit
  <2>2. Picked(p) = First(ToProcessLimit(p), rows)
    BY DEF Picked
  <2>3. Cardinality(Picked(p)) >= ToProcessLimit(p)
    <3> HIDE DEF rows
    <3> QED
      BY <1>5, <1>8, <2>1, <2>2, FirstIsFull
  <2>4. Picked(p) \subseteq rows
    BY DEF Picked, First
  <2>5. Picked(p) \subseteq Wanted(p)'
    BY <1>1, <1>2, <2>4 DEF Wanted, Waiting, Listed
  <2>6. mine \cap Picked(p) = {}
    BY <2>4 DEF Listed
  <2>7. IsFiniteSet(Picked(p))
    <3>1. IsFiniteSet(Ids)
      BY QueueAssumption, FS_Interval DEF Ids
    <3>2. Picked(p) \subseteq Ids
      BY <1>5, <2>4
    <3> QED
      BY <3>1, <3>2, FS_Subset
  <2> HIDE DEF mine, rows
  <2>8. Cardinality(Picked(p)) \in Nat
    BY <2>7, FS_CardinalityType
  <2>9. Cardinality(mine \cup Picked(p)) =
          Cardinality(mine) + Cardinality(Picked(p)) - Cardinality({})
    BY <1>7, <2>6, <2>7, FS_Union
  <2>10. Cardinality({}) = 0
    BY FS_EmptySet
  <2>11. Cardinality(mine \cup Picked(p)) >= Concurrency
    BY <1>7, <2>1, <2>3, <2>8, <2>9, <2>10, QueueAssumption
  <2>12. mine \cup Picked(p) \subseteq Busy \cup Wanted(p)'
    BY <1>6, <2>5
  <2> QED
    BY <1>4, <2>11, <2>12, LargerFills
<1>9. ASSUME NEW i \in Waiting', Home[items'[i].path] = None,
             ~(Cardinality(Busy') >= Concurrency)
      PROVE  \E q \in Processes : Notices(q, i)'
  <2>1. i \in Waiting /\ i \in Ids /\ Home[items[i].path] = None
    BY <1>2, <1>9 DEF Waiting
  <2>2. i \in rows
    BY <2>1 DEF Waiting, Listed, Takes, AtHome, ItemsAreAtHome, Visible
  <2>3. Cardinality(mine) < Concurrency
    <3>1. ~(Cardinality(mine) >= Concurrency)
      BY <1>2, <1>4, <1>6, <1>9, LargerFills
    <3> HIDE DEF mine
    <3> QED
      BY <1>7, <3>1, QueueAssumption
  <2>4. i \in Picked(p) => items'[i].path \in reconcile'[p].claims
    BY <1>1, <1>2
  <2>5. i \notin Picked(p) =>
          Cardinality(Busy' \cup Wanted(p)') >= Concurrency
    BY <1>2, <1>8, <2>2, <2>3
  <2>6. Notices(p, i)'
    BY <1>1, <2>4, <2>5 DEF Notices
  <2> QED
    BY <2>6
<1> QED
  BY <1>9 DEF WorkIsNoticed

\* A run ends when everything it noticed is claimed, or the slots are taken;
\* it starts again when it was asked to (reconcileQueue).
LEMMA EndKeepsWork ==
  ASSUME SystemTypeOK, TypeOK', WorkIsNoticed,
         NEW p \in Processes, EndReconcile(p)
  PROVE  WorkIsNoticed'
<1>0. /\ reconcile \in [Processes -> Reconcile]
      /\ reconcile[p].pc = "claiming" /\ reconcile[p].claims = {}
  BY DEF SystemTypeOK, ClientTypeOK, EndReconcile
<1>1. CASE reconcile[p].again
  <2>1. reconcile'[p].pc = "starting"
    BY <1>0, <1>1 DEF EndReconcile, Idle
  <2> QED
    BY <2>1, RunNoticesAll
<1>2. CASE ~reconcile[p].again
  <2>1. \A q \in Processes : q # p => reconcile'[q] = reconcile[q]
    BY <1>0, <1>2 DEF EndReconcile
  <2>2. UNCHANGED <<items, running, expired>> /\ Busy' = Busy
    BY DEF EndReconcile, vars, tables, Busy, Active, Executing, Visible, HasItem
  <2>3. RowsKept
    BY <2>2, UntouchedRowsKept
  <2>4. Wanted(p) = {}
    BY <1>0 DEF Wanted
  <2>5. ASSUME NEW i \in Waiting', Home[items'[i].path] = None
        PROVE  Cardinality(Busy') >= Concurrency
                 \/ \E q \in Processes : Notices(q, i)'
    <3>1. i \in Waiting /\ items'[i].path = items[i].path
      BY <2>3 DEF RowsKept
    <3>2. \/ Cardinality(Busy) >= Concurrency
          \/ \E q \in Processes : Notices(q, i)
      BY <2>5, <3>1 DEF WorkIsNoticed
    <3>3. Notices(p, i) => Cardinality(Busy) >= Concurrency
      <4>1. Busy \cup Wanted(p) = Busy
        BY <2>4
      <4> QED
        BY <1>0, <1>2, <4>1 DEF Notices
    <3> QED
      BY <2>1, <2>2, <2>3, <3>2, <3>3, KeptNotice
  <2> QED
    BY <2>5 DEF WorkIsNoticed
<1> QED
  BY <1>1, <1>2

\* An execution ends with a reconcile, unless its acknowledgement is refused:
\* then its item keeps the slot (executeQuery).
LEMMA FinishKeepsWork ==
  ASSUME SystemTypeOK, TypeOK', QueueInvariant, expired = {}, WorkIsNoticed,
         NEW p \in Processes, NEW i \in Ids, Finish(p, i)
  PROVE  WorkIsNoticed'
<1>1. CASE ~(HasItem(i) /\ AckConflicts(i))
  BY <1>1, RequestedNotices DEF Finish
<1>2. CASE HasItem(i) /\ AckConflicts(i)
  <2>1. p # None
    BY QueueAssumption
  <2>2. UNCHANGED <<items, expired, reconcile>>
    BY <1>2, <2>1 DEF Finish, Ack, AckAccepted, AckRefused
  <2>3. i \in Active
    <3>1. i \in running[p] /\ items[i] \in ItemRow
      BY <1>2, Absence DEF Finish, Ack, SystemTypeOK
    <3> QED
      BY <1>2, <3>1
         DEF QueueInvariant, GivenIsNotPending, ItemRow, Active, Visible
  <2>4. /\ Active' = Active /\ Waiting' = Waiting
    BY <2>2 DEF Active, Waiting, Visible, HasItem
  <2>5. \A q \in Processes : running[q] \subseteq running'[q] \cup {i}
    BY DEF Finish, Ack, SystemTypeOK, TypeOK
  <2>6. Executing \subseteq Executing' \cup {i}
    BY <2>5 DEF Executing
  <2>7. RowsKept
    BY <2>2, <2>3, <2>4, <2>6 DEF RowsKept, Busy
  <2> QED
    BY <2>2, <2>7, KeptIsNoticed
<1> QED
  BY <1>1, <1>2

\* Heartbeats and deadlines, but for that of the items, keep the rows.
LEMMA TimeKeepsRows ==
  ASSUME TypeOK, expired = {}, NEW k \in Ids,
         \/ Heartbeat(ById(k)) \/ HeartbeatLapses(k) \/ OrphanDeadline(k)
         \/ ResultExpires(k) \/ Compact(k)
  PROVE  RowsKept
<1>1. UNCHANGED <<running, expired>>
  BY DEF Heartbeat, HeartbeatLapses, OrphanDeadline, ResultExpires, Compact
<1>2. ASSUME NEW row, HasItem(k), row.status = items[k].status,
             row.path = items[k].path, items' = [items EXCEPT ![k] = row]
      PROVE  RowsKept
  BY <1>1, <1>2, SameRowsKept DEF TypeOK
<1>3. HasItem(k) => items[k] \in ItemRow
  BY Absence
<1>4. CASE Heartbeat(ById(k))
  <2>1. /\ HasItem(k)
        /\ items' = [items EXCEPT ![k] = [items[k] EXCEPT !.lapsed = FALSE]]
    BY <1>4 DEF Heartbeat, ItemsByKey, ById
  <2>2. /\ [items[k] EXCEPT !.lapsed = FALSE].status = items[k].status
        /\ [items[k] EXCEPT !.lapsed = FALSE].path = items[k].path
    BY <1>3, <2>1 DEF ItemRow
  <2> QED
    BY <1>2, <2>1, <2>2
<1>5. CASE HeartbeatLapses(k)
  <2>1. /\ HasItem(k)
        /\ items' = [items EXCEPT ![k] = [items[k] EXCEPT !.lapsed = TRUE]]
    BY <1>5 DEF HeartbeatLapses
  <2>2. /\ [items[k] EXCEPT !.lapsed = TRUE].status = items[k].status
        /\ [items[k] EXCEPT !.lapsed = TRUE].path = items[k].path
    BY <1>3, <2>1 DEF ItemRow
  <2> QED
    BY <1>2, <2>1, <2>2
<1>6. CASE OrphanDeadline(k)
  <2>1. /\ HasItem(k)
        /\ items' = [items EXCEPT ![k] = [items[k] EXCEPT !.orphaned = TRUE]]
    BY <1>6 DEF OrphanDeadline
  <2>2. /\ [items[k] EXCEPT !.orphaned = TRUE].status = items[k].status
        /\ [items[k] EXCEPT !.orphaned = TRUE].path = items[k].path
    BY <1>3, <2>1 DEF ItemRow
  <2> QED
    BY <1>2, <2>1, <2>2
<1>7. CASE ResultExpires(k) \/ Compact(k)
  BY <1>1, <1>7, UntouchedRowsKept DEF ResultExpires, Compact
<1> QED
  BY <1>4, <1>5, <1>6, <1>7

\* No step of instances that stay up forgets a pending query.
LEMMA StepKeepsWork ==
  ASSUME SystemTypeOK, SystemTypeOK', QueueInvariant, expired = {}, AtHome,
         WorkIsNoticed,
         Faults \cap {"crash", "storage", "cancel"} = {},
         "item" \notin Deadlines, [SystemNext]_systemVars
  PROVE  WorkIsNoticed'
<1>0. TypeOK /\ TypeOK'
  BY DEF SystemTypeOK
<1>k. RowsKept /\ UNCHANGED reconcile => WorkIsNoticed'
  BY <1>0, KeptIsNoticed
<1>u. UNCHANGED <<items, running, expired, reconcile>> => WorkIsNoticed'
  BY <1>k, UntouchedRowsKept
<1>r. \A p \in Processes : reconcile' = Requested(p) => WorkIsNoticed'
  BY RequestedNotices
<1>1. ASSUME NEW p \in Processes, ReconcileStep(p) PROVE WorkIsNoticed'
  <2>0. reconcile \in [Processes -> Reconcile]
    BY DEF SystemTypeOK, ClientTypeOK
  <2>1. CASE FindCancels(p) \/ \E i \in Ids : CancelListed(p, i)
    <3>1. reconcile'[p].pc = "cancelling"
      BY <2>0, <2>1 DEF FindCancels, CancelListed, Reconcile
    <3> QED
      BY <3>1, RunNoticesAll
  <2>2. CASE ListQueue(p)
    BY <1>0, <2>2, ListKeepsWork
  <2>3. ASSUME NEW path \in Paths, Claim(p, path) PROVE WorkIsNoticed'
    BY <1>0, <2>3, ClaimKeepsWork
  <2>4. CASE EndReconcile(p)
    BY <1>0, <2>4, EndKeepsWork
  <2> QED
    BY <1>1, <2>1, <2>2, <2>3, <2>4 DEF ReconcileStep
<1>2. ASSUME NEW p \in Processes, NEW i \in Ids, Finish(p, i) \/ Beat(p, i)
      PROVE  WorkIsNoticed'
  <2>1. CASE Finish(p, i)
    BY <1>0, <2>1, FinishKeepsWork
  <2>2. CASE Beat(p, i)
    BY <1>0, <1>k, <2>2, TimeKeepsRows DEF Beat, clientVars
  <2> QED
    BY <1>2, <2>1, <2>2
<1>3. ASSUME NEW w \in Waiters, RequestStep(w) \/ ContinueWait(w)
      PROVE  WorkIsNoticed'
  <2>1. CASE Enqueue(w)
    <3>1. request[w].node \in Processes
      BY <2>1 DEF Enqueue, SystemTypeOK, ClientTypeOK, Request
    <3> QED
      BY <1>r, <2>1, <3>1 DEF Enqueue
  <2>2. CASE Ask(w)
    BY <1>u, <2>2 DEF Ask, QueryResult, vars, tables
  <2>3. CASE Block(w) \/ Serve(w) \/ ContinueWait(w)
    BY <1>u, <2>3
       DEF Block, Serve, ContinueWait, Subscribe, Lookup, Wake, Retire, GiveUp,
           vars, tables
  <2> QED
    BY <1>3, <2>1, <2>2, <2>3 DEF RequestStep
<1>4. ASSUME NEW i \in Ids, Lapses(i) PROVE WorkIsNoticed'
  BY <1>0, <1>k, <1>4, TimeKeepsRows DEF Lapses, clientVars
<1>5. ASSUME StoreStep PROVE WorkIsNoticed'
  <2>1. ASSUME NEW i \in Ids, OrphanDeadline(i) \/ ResultExpires(i) \/ Compact(i)
        PROVE  RowsKept
    BY <1>0, <2>1, TimeKeepsRows
  <2>2. \A i \in Ids : ~ItemExpires(i)
    BY DEF ItemExpires
  <2> QED
    BY <1>k, <1>u, <1>5, <2>1, <2>2
       DEF StoreStep, Broadcast, CollectResults, tables, clientVars
<1>6. ASSUME NEW p \in Processes, ForceReconcile(p) PROVE WorkIsNoticed'
  BY <1>r, <1>6 DEF ForceReconcile
<1>7. ASSUME \/ UNCHANGED systemVars
             \/ \E w \in Waiters, p \in Processes : Call(w, p)
      PROVE  WorkIsNoticed'
  BY <1>u, <1>7 DEF systemVars, clientVars, vars, tables, Call
<1> QED
  BY <1>1, <1>2, <1>3, <1>4, <1>5, <1>6, <1>7, CallsSucceed
     DEF SystemNext, InstanceCrashes, UserCancels

\* While no instance dies, no command fails and nobody cancels, a pending
\* query is never forgotten, whatever stalls and is cancelled for it: the slots
\* are taken, or some instance still reconciles.  What makes it so is that a
\* run in flight is asked to run again, that every execution ends with a
\* reconcile, and that the cut of the list leaves no slot free
\* (reconcileQueue, reconcileAgain, executeQuery).
THEOREM NoWorkForgotten ==
  ASSUME Faults \cap {"crash", "storage", "cancel"} = {},
         "item" \notin Deadlines
  PROVE  SystemSpec => []WorkIsNotForgotten
<1> DEFINE Noticed == expired = {} /\ AtHome /\ WorkIsNoticed
<1>1. SystemInit => Noticed
  BY DEF SystemInit, Init, AtHome, ItemsAreAtHome, RequestsAreAtHome,
         ClaimsAreAtHome, WorkIsNoticed, Waiting, Visible, HasItem, NoRow, Idle
<1>2. SystemTypeOK /\ SystemTypeOK' /\ QueueInvariant /\ QueueInvariant'
        /\ Noticed /\ [SystemNext]_systemVars => Noticed'
  <2> SUFFICES ASSUME SystemTypeOK, SystemTypeOK',
                      QueueInvariant, QueueInvariant',
                      Noticed, [SystemNext]_systemVars
               PROVE  Noticed'
    OBVIOUS
  <2>1. expired' = {}
    BY StepUsesQueue, NothingExpires
  <2>2. AtHome'
    BY StepKeepsHomes
  <2>3. WorkIsNoticed'
    BY StepKeepsWork
  <2> QED
    BY <2>1, <2>2, <2>3
<1>3. SystemTypeOK /\ Noticed => WorkIsNotForgotten
  <2> SUFFICES ASSUME SystemTypeOK, Noticed PROVE WorkIsNotForgotten
    OBVIOUS
  <2>1. \A p \in Processes, i \in Ids : Notices(p, i) => reconcile[p].pc # "idle"
    BY DEF Notices
  <2> QED
    BY <2>1 DEF WorkIsNoticed, WorkIsNotForgotten, Waiting, Busy
<1> HIDE DEF Noticed
<1> QED
  BY <1>1, <1>2, <1>3, SystemTypeCorrect, SystemKeepsQueue, PTL DEF SystemSpec
=============================================================================
