------------------------------ MODULE QueryQueue ------------------------------
(***************************************************************************)
(* One query queue as the API instances run it on top of Cube Store:       *)
(* requests that ask for a query, enqueue it and wait, the reconciler of   *)
(* every instance that cancels, lists and claims, and the executions that  *)
(* acknowledge and reconcile again.                                        *)
(*                                                                         *)
(* An instance is a single-threaded event loop: what runs between two      *)
(* awaits is atomic, and every await is one call to Cube Store.  So an     *)
(* action here is one command of CacheStoreQueue together with the code    *)
(* that runs when its answer arrives, up to the next await.                *)
(***************************************************************************)
EXTENDS CacheStoreQueue

CONSTANTS
  Asked,     \* per waiter, the query it asks for: [kind, path, external]
  Priority,  \* per path, the priority its queries are added with
  Home,      \* per path, the instance its persistent queries belong to, or None
  Refreshers,  \* instances that run the refresh scheduler
  Faults     \* subset of {"crash", "storage", "stall", "cancel"}

VARIABLES
  request,    \* per waiter, where executeInQueue stands
  reconcile,  \* per instance, the reconcile in flight
  down        \* instances that crashed

clientVars == <<request, reconcile, down>>
systemVars == <<vars, clientVars>>

\* "query" looks for a result first; a "forced" build does not; a "job" is a
\* forced build that does not wait for its result either.
Query  == [kind : {"query", "forced", "job"}, path : Paths,
           external : Externals \cup {None}]

\* Where a request is bound to an instance, and where it knows its item.
Request ==
  [pc : {"new"}, node : {None}, id : {None}]
    \cup [pc : {"asking", "adding"}, node : Processes, id : Ids \cup {None}]
    \cup [pc : {"reconciling", "blocking", "waiting", "retry"},
          node : Processes, id : Ids]
    \cup [pc : {"done", "failed"},
          node : Processes \cup {None}, id : Ids \cup {None}]

Reconcile ==
  [pc : {"idle", "starting", "cancelling", "claiming"},
   cancels : SUBSET Ids, claims : SUBSET Paths, again : BOOLEAN]

ASSUME SystemAssumption ==
  /\ Asked \in [Waiters -> Query]
  /\ Priority \in [Paths -> Nat]
  /\ Home \in [Paths -> (Processes \ Anonymous) \cup {None}]
  /\ Refreshers \subseteq Processes
  /\ \A a, b \in Paths : Prefix(a) = Prefix(b)
  /\ {FALSE} \cup {Home[path] # None : path \in Paths} \subseteq Exclusives
  /\ "value" \in Replies

\* A request is bound to an instance while it is served and knows its item
\* once it was queued (the types of the rows are in TypeOK).
ClientTypeOK ==
  /\ request \in [Waiters -> Request]
  /\ reconcile \in [Processes -> Reconcile]
  /\ down \subseteq Processes
SystemTypeOK == TypeOK /\ ClientTypeOK

Idle == [pc |-> "idle", cancels |-> {}, claims |-> {}, again |-> FALSE]

SystemInit ==
  /\ Init
  /\ request = [w \in Waiters |-> [pc |-> "new", node |-> None, id |-> None]]
  /\ reconcile = [p \in Processes |-> Idle]
  /\ down = {}

-----------------------------------------------------------------------------
(* The reconciler: one run at a time, asked to run again while it runs.    *)

Requested(p) ==
  [reconcile EXCEPT ![p] =
     IF @.pc = "idle" THEN [Idle EXCEPT !.pc = "starting"]
     ELSE [@ EXCEPT !.again = TRUE]]

\* Mutants of ToCancel: does not look at the heartbeat; orphans only.
ToCancelAnyActive ==
  {i \in Ids : Visible(i) /\
     \/ items[i].status = "active"
     \/ items[i].status = "pending" /\ items[i].orphaned}
ToCancelOrphans ==
  {i \in Ids : Visible(i) /\ items[i].status = "pending" /\ items[i].orphaned}
\* QUEUE TO_CANCEL: stalled active items and orphaned pending ones.
ToCancel ==
  {i \in Ids : Visible(i) /\
     \/ items[i].status = "active" /\ items[i].lapsed
     \/ items[i].status = "pending" /\ items[i].orphaned}

\* Mutant of ForceReconcile: only asks a run in flight to run again.
ForceReconcileAgain(p) ==
  /\ p \in Refreshers \ down /\ reconcile[p].pc # "idle"
  /\ reconcile' = Requested(p)
  /\ UNCHANGED <<vars, request, down>>
\* The refresh scheduler reconciles after a run of its own.
ForceReconcile(p) ==
  /\ p \in Refreshers \ down
  /\ reconcile' = Requested(p)
  /\ UNCHANGED <<vars, request, down>>

FindCancels(p) ==
  /\ reconcile[p].pc = "starting"
  /\ reconcile' = [reconcile EXCEPT ![p].pc = "cancelling",
                                    ![p].cancels = ToCancel]
  /\ UNCHANGED <<vars, request, down>>

CancelListed(p, i) ==
  /\ reconcile[p].pc = "cancelling" /\ i \in reconcile[p].cancels
  /\ \/ Cancel(ById(i))
     \/ ~HasItem(i) /\ UNCHANGED vars
  /\ reconcile' = [reconcile EXCEPT ![p].cancels = @ \ {i}]
  /\ UNCHANGED <<request, down>>

\* The rows of QUEUE LIST that the instance may see, in the order of the list.
Listed(p, status) ==
  {i \in Ids : /\ Visible(i) /\ items[i].status = status
               /\ items[i].exclusive => items[i].owner = PidOf(p)}
Before(i, j) ==
  LET a == Priority[items[i].path]  b == Priority[items[j].path]
  IN  a > b \/ (a = b /\ i < j)
First(n, rows) == {i \in rows : Cardinality({j \in rows : Before(j, i)}) < n}

\* Persistent queries of other instances are left to them.
Takes(p, i) == Home[items[i].path] \in {None, p}

ToProcessLimit(p) ==
  LET active == Cardinality(Listed(p, "active"))
  IN  IF active >= Concurrency THEN 1 ELSE Concurrency - active

\* Mutant of Picked: cuts the list before it drops the rows of others.
PickedBeforeFilter(p) ==
  {i \in First(ToProcessLimit(p), {j \in Ids : Visible(j) /\
                 items[j].status = "pending"}) : Takes(p, i)}
Picked(p) ==
  First(ToProcessLimit(p), {i \in Listed(p, "pending") : Takes(p, i)})

ListQueue(p) ==
  /\ reconcile[p].pc = "cancelling" /\ reconcile[p].cancels = {}
  /\ reconcile' = [reconcile EXCEPT ![p].pc = "claiming",
                     ![p].claims = {items[i].path : i \in Picked(p)}]
  /\ UNCHANGED <<vars, request, down>>

RetrieveRefused(p, path) ==
  \/ Cardinality(Counted(Prefix(path), "active")) >= Concurrency
  \/ \A i \in At(path) :
       \/ items[i].status # "pending"
       \/ items[i].exclusive /\ items[i].owner # PidOf(p)

\* A claim that succeeds is handed to executeQuery, which is not awaited.
Claim(p, path) ==
  /\ reconcile[p].pc = "claiming" /\ path \in reconcile[p].claims
  /\ \/ Retrieve(p, path)
     \/ RetrieveRefused(p, path) /\ UNCHANGED vars
  /\ reconcile' = [reconcile EXCEPT ![p].claims = @ \ {path}]
  /\ UNCHANGED <<request, down>>

\* A claim that Cube Store fails is logged and dropped; the others go on.
ClaimFails(p, path) ==
  /\ "storage" \in Faults
  /\ reconcile[p].pc = "claiming" /\ path \in reconcile[p].claims
  /\ reconcile' = [reconcile EXCEPT ![p].claims = @ \ {path}]
  /\ UNCHANGED <<vars, request, down>>

AfterReconcile(w) == IF Asked[w].kind = "job" THEN "done" ELSE "blocking"

\* The requests that await the reconcile promise of p go on, or fail with it.
Settled(p, rejected) ==
  [w \in Waiters |->
     IF request[w].pc = "reconciling" /\ request[w].node = p
     THEN [request[w] EXCEPT !.pc = IF rejected THEN "failed"
                                    ELSE AfterReconcile(w)]
     ELSE request[w]]

\* The promise settles when no further run was asked for.
EndReconcile(p) ==
  /\ reconcile[p].pc = "claiming" /\ reconcile[p].claims = {}
  /\ IF reconcile[p].again
     THEN /\ reconcile' = [reconcile EXCEPT ![p] =
                             [Idle EXCEPT !.pc = "starting"]]
          /\ UNCHANGED request
     ELSE /\ reconcile' = [reconcile EXCEPT ![p] = Idle]
          /\ request' = Settled(p, FALSE)
  /\ UNCHANGED <<vars, down>>

\* A failed call rejects the promise; a run asked for meanwhile is forgotten.
ReconcileFails(p) ==
  /\ "storage" \in Faults /\ reconcile[p].pc \in {"starting", "cancelling"}
  /\ reconcile' = [reconcile EXCEPT ![p] = Idle]
  /\ request' = Settled(p, TRUE)
  /\ UNCHANGED <<vars, down>>

-----------------------------------------------------------------------------
(* Executions.                                                             *)

\* The end of executeQuery: the acknowledgement, refused when the item was
\* removed meanwhile, and another reconcile.  When the acknowledgement violates
\* the unique index, its error is logged and nothing follows.
Finish(p, i) ==
  /\ Ack(p, i, p)
  /\ reconcile' = IF HasItem(i) /\ AckConflicts(i) THEN reconcile
                  ELSE Requested(p)
  /\ UNCHANGED <<request, down>>

\* Cube Store fails the update before the handler runs, the look at a query that
\* timed out, or the acknowledgement: the execution is over, the item stays
\* active, and nothing reconciles.
ExecutionFails(p, i) ==
  /\ "storage" \in Faults
  /\ Abandon(p, i)
  /\ UNCHANGED clientVars

Beat(p, i) ==
  /\ i \in running[p]
  /\ Heartbeat(ById(i))
  /\ UNCHANGED clientVars

-----------------------------------------------------------------------------
(* Requests: executeInQueue.                                               *)

Move(w, pc) == request' = [request EXCEPT ![w].pc = pc]

\* A client asks, or asks again after "Continue wait", at any instance.  A
\* persistent query is keyed with the instance it is asked at.
Call(w, p) ==
  /\ request[w].pc \in {"new", "retry"} /\ p \notin down
  /\ Home[Asked[w].path] \in {None, p}
  /\ request' = [request EXCEPT ![w].pc = "asking", ![w].node = p]
  /\ UNCHANGED <<vars, reconcile, down>>

\* Queries look for a result, forced builds for a job that is queued already.
Ask(w) ==
  /\ request[w].pc = "asking"
  /\ LET q == Asked[w] IN
     \/ /\ q.kind = "query"
        /\ QueryResult(w, ByPath(q.path), q.external)
        /\ Move(w, "done")
     \/ /\ q.kind = "query"
        /\ ResultsOfRequest(q.path, q.external) = {}
        /\ NothingFound(ByPath(q.path))
        /\ Move(w, "adding") /\ UNCHANGED vars
     \/ /\ q.kind # "query"
        /\ Move(w, IF At(q.path) = {} THEN "adding" ELSE "done")
        /\ UNCHANGED vars
  /\ UNCHANGED <<reconcile, down>>

Enqueue(w) ==
  /\ request[w].pc = "adding"
  /\ LET q == Asked[w]  p == request[w].node IN
     /\ \/ /\ Add(p, q.path, q.external, Home[q.path] # None)
           /\ request' = [request EXCEPT ![w].pc = "reconciling",
                                         ![w].id = nextId]
        \/ \E i \in At(q.path) :
             /\ request' = [request EXCEPT ![w].pc = "reconciling",
                                           ![w].id = i]
             /\ UNCHANGED vars
     /\ reconcile' = Requested(p)
  /\ UNCHANGED down

Block(w) ==
  /\ request[w].pc = "blocking"
  /\ Subscribe(w, ById(request[w].id))
  /\ Move(w, "waiting")
  /\ UNCHANGED <<reconcile, down>>

\* QUEUE RESULT_BLOCKING runs in Cube Store; an answer ends the request.
Serve(w) ==
  /\ request[w].pc = "waiting"
  /\ Lookup(w) \/ Wake(w) \/ Retire(w)
  /\ Move(w, IF waiter[w]'.pc = "done" THEN "done" ELSE "waiting")
  /\ UNCHANGED <<reconcile, down>>

ContinueWait(w) ==
  /\ request[w].pc = "waiting"
  /\ GiveUp(w) /\ Move(w, "retry")
  /\ UNCHANGED <<reconcile, down>>

\* Any failed call of a request ends it with the error.
RequestFails(w) ==
  /\ "storage" \in Faults
  /\ request[w].pc \in {"asking", "adding", "blocking", "waiting"}
  /\ Move(w, "failed")
  /\ UNCHANGED <<vars, reconcile, down>>

-----------------------------------------------------------------------------
(* Faults, operators and time.                                             *)

\* An instance dies with its executions, its reconcile and the requests that
\* are at it or bound to it; one instance stays up.
InstanceCrashes(p) ==
  /\ "crash" \in Faults /\ Processes # down \cup {p} /\ p \notin down
  /\ Crash(p) \/ (running[p] = {} /\ UNCHANGED vars)
  /\ down' = down \cup {p}
  /\ reconcile' = [reconcile EXCEPT ![p] = Idle]
  /\ request' = [w \in Waiters |->
       IF /\ request[w].pc # "done"
          /\ \/ request[w].node = p /\ request[w].pc # "retry"
             \/ Home[Asked[w].path] = p
       THEN [request[w] EXCEPT !.pc = "failed"] ELSE request[w]]

\* cancelQuery, from the API or the playground: it does not reconcile.
UserCancels(path) ==
  /\ "cancel" \in Faults
  /\ Cancel(ByPath(path))
  /\ UNCHANGED clientVars

\* Heartbeats only fail to arrive when nobody executes the item, or when the
\* instance that does is stalled.
Lapses(i) ==
  /\ items[i].status = "active"
  /\ "stall" \in Faults \/ \A p \in Processes : i \notin running[p]
  /\ HeartbeatLapses(i)
  /\ UNCHANGED clientVars

StoreStep ==
  /\ \/ \E e \in outbox : Broadcast(e)
     \/ \E due \in SUBSET gc : CollectResults(due)
     \/ \E i \in Ids : \/ OrphanDeadline(i) \/ ItemExpires(i)
                       \/ ResultExpires(i) \/ Compact(i)
  /\ UNCHANGED clientVars

-----------------------------------------------------------------------------
ReconcileStep(p) ==
  \/ FindCancels(p) \/ ListQueue(p) \/ EndReconcile(p)
  \/ \E i \in Ids : CancelListed(p, i)
  \/ \E path \in Paths : Claim(p, path)

RequestStep(w) ==
  \/ Ask(w) \/ Enqueue(w) \/ Block(w) \/ Serve(w)

\* Calls that Cube Store fails; a failed heartbeat is one that is not sent.
CallFails ==
  \/ \E p \in Processes :
       \/ ReconcileFails(p)
       \/ \E path \in Paths : ClaimFails(p, path)
       \/ \E i \in Ids : ExecutionFails(p, i)
  \/ \E w \in Waiters : RequestFails(w)

SystemNext ==
  \/ \E p \in Processes : ReconcileStep(p)
  \/ \E p \in Processes : ForceReconcile(p) \/ InstanceCrashes(p)
  \/ CallFails
  \/ \E p \in Processes, i \in Ids : Finish(p, i) \/ Beat(p, i)
  \/ \E w \in Waiters : RequestStep(w) \/ ContinueWait(w)
  \/ \E w \in Waiters, p \in Processes : Call(w, p)
  \/ \E path \in Paths : UserCancels(path)
  \/ \E i \in Ids : Lapses(i)
  \/ StoreStep

SystemSpec == SystemInit /\ [][SystemNext]_systemVars

\* The event loop of a live instance runs on; an execution ends, by the
\* execution timeout at the latest; Cube Store sends its events; an item that
\* nobody executes misses its heartbeat.  Clients owe nothing.
SystemFairness ==
  /\ \A p \in Processes : WF_systemVars(ReconcileStep(p))
  /\ \A p \in Processes, i \in Ids : WF_systemVars(Finish(p, i))
  /\ \A w \in Waiters : WF_systemVars(RequestStep(w))
  /\ WF_systemVars(\E e \in outbox : Broadcast(e) /\ UNCHANGED clientVars)
  /\ \A i \in Ids : WF_systemVars(Lapses(i) /\ ~\E p \in Processes :
                                                 i \in running[p])

\* Cube Store does not fail the claims of a query for ever.
ClaimsAreAnswered ==
  \A path \in Paths : SF_systemVars(\E p \in Processes : Claim(p, path))

\* The refresh scheduler runs on an interval, and some of its runs finish.
SchedulerRuns == \A p \in Refreshers : WF_systemVars(ForceReconcile(p))

\* A client that is told to continue waiting asks again, and its wait ends.
ClientsRetry ==
  \A w \in Waiters : /\ WF_systemVars(\E p \in Processes : Call(w, p))
                     /\ WF_systemVars(ContinueWait(w))

FairSystem  == SystemSpec /\ SystemFairness
FairClients == FairSystem /\ ClientsRetry /\ ClaimsAreAnswered
FairRefresh == FairSystem /\ SchedulerRuns

-----------------------------------------------------------------------------
(* Safety.                                                                 *)

Executing == UNION {running[p] : p \in Processes}
Active    == {i \in Ids : Visible(i) /\ items[i].status = "active"}

\* Work is never forgotten: while an ordinary query is pending, the slots are
\* taken or some instance still reconciles.  Without a refresh scheduler only
\* executeInQueue and the end of executeQuery start a reconcile, so a slot
\* that becomes free after a list was read must be noticed by a further run
\* (reconcileAgain).
WorkIsNotForgotten ==
  \A i \in Ids :
    /\ Visible(i) /\ items[i].status = "pending" /\ Home[items[i].path] = None
    => \/ Cardinality(Active \cup Executing) >= Concurrency
       \/ \E p \in Processes : reconcile[p].pc # "idle"

\* While Cube Store fails no call and no instance dies, an active item is in
\* somebody's hands: an execution that ends gives its slot back, also when its
\* item was cancelled or taken for stalled meanwhile (executeQuery).
SlotsAreInUse == Active \subseteq Executing

\* As long as heartbeats arrive and nobody cancels, the queries that really
\* run are the active ones, so that they respect the concurrency too.
ExecutionsRespectConcurrency ==
  /\ Executing \subseteq Active
  /\ Cardinality(Executing) <= Concurrency

-----------------------------------------------------------------------------
(* Progress.                                                               *)

\* Whatever is queued is claimed or removed some day, without the help of
\* impatient clients: by the reconcile at the end of executeQuery and, when
\* users cancel and executions stall, by an instance that runs the refresh
\* scheduler (forceReconcile).
PendingIsServed ==
  \A i \in Ids :
    items[i].status = "pending" ~> items[i].status # "pending"

\* With clients that come back, the query a client waits for is claimed, or
\* cancelled, or the client learns of a failure: a slot held by an instance
\* that died, or by an execution whose acknowledgement failed, is recovered
\* through its heartbeat, a persistent query is found by its own instance
\* (executeInQueue, executeQuery, getQueriesToCancel).
AwaitedIsServed ==
  \A w \in Waiters, i \in Ids :
    request[w].pc = "waiting" /\ request[w].id = i /\ items[i].status = "pending"
      ~> items[i].status # "pending" \/ request[w].pc \in {"done", "failed"}
=============================================================================
