------------------------ MODULE CacheStoreQueueProofs ------------------------
(***************************************************************************)
(* Proofs about CacheStoreQueue, for every set of paths, processes and     *)
(* readers, every concurrency and every number of row ids.                 *)
(***************************************************************************)
EXTENDS CacheStoreQueueContract, FiniteSetTheorems, TLAPS

-----------------------------------------------------------------------------
(* Types.                                                                  *)

\* What a claim of a queued item leaves behind is well typed (TryClaim).
LEMMA TryClaimType ==
  ASSUME TypeOK, NEW p \in Processes, NEW i \in Ids, TryClaim(p, i)
  PROVE  /\ items' \in [Ids -> ItemRow \cup {NoRow}]
         /\ running' \in [Processes -> SUBSET Ids]
<1>1. items[i] \in ItemRow
  BY DEF TypeOK, TryClaim, NoRow
<1>2. Claimed(items[i]) \in ItemRow
  BY <1>1 DEF ItemRow, Claimed
<1>3. items' \in [Ids -> ItemRow \cup {NoRow}]
  BY <1>2 DEF TypeOK, TryClaim
<1>4. running' \in [Processes -> SUBSET Ids]
  BY DEF TypeOK, TryClaim, Execute
<1> QED
  BY <1>3, <1>4 

\* A new row is well typed, whichever command adds it (Insert).
LEMMA InsertType ==
  ASSUME TypeOK, NEW p \in Processes, NEW path \in Paths,
         NEW e \in Externals \cup {None}, NEW x \in Exclusives,
         NEW st \in {"pending", "active"},
         Insert(NewItem(path, e, PidOf(p), x, st))
  PROVE  /\ nextId \in Ids /\ nextId' \in 1..(MaxId + 1)
         /\ items' \in [Ids -> ItemRow \cup {NoRow}]
         /\ payloads' \subseteq Ids
<1>1. nextId \in Ids /\ nextId' \in 1..(MaxId + 1)
  BY QueueAssumption DEF TypeOK, Insert, Ids
<1>2. NewItem(path, e, PidOf(p), x, st) \in ItemRow
  BY DEF NewItem, ItemRow, PidOf
<1> QED
  BY <1>1, <1>2 DEF TypeOK, Insert

\* Commands of a process keep the types.
LEMMA ProcessStepType ==
  ASSUME TypeOK, NEW p \in Processes, ProcessStep(p)
  PROVE  TypeOK'
<1>1. ASSUME NEW path \in Paths, NEW e \in Externals \cup {None},
             NEW x \in Exclusives, Add(p, path, e, x)
      PROVE  TypeOK'
  BY <1>1, InsertType DEF TypeOK, Add
<1>2. ASSUME NEW path \in Paths, NEW e \in Externals \cup {None},
             NEW x \in Exclusives, AddAndRetrieve(p, path, e, x)
      PROVE  TypeOK'
  <2>1. CASE AddClaimed(p, path, e, x)
    <3>1. /\ nextId \in Ids /\ nextId' \in 1..(MaxId + 1)
          /\ items' \in [Ids -> ItemRow \cup {NoRow}]
          /\ payloads' \subseteq Ids
      BY <2>1, InsertType DEF AddClaimed
    <3> QED
      BY <1>2, <2>1, <3>1 DEF TypeOK, AddAndRetrieve, AddClaimed, Execute
  <2>2. CASE AddUnclaimed(p, path, e, x)
    BY <1>2, <2>2, InsertType DEF TypeOK, AddAndRetrieve, AddUnclaimed
  <2>3. CASE ClaimQueued(p, path)
    <3>1. PICK i \in At(path) : TryClaim(p, i)
      BY <2>3 DEF ClaimQueued
    <3>2. i \in Ids
      BY DEF At
    <3> QED
      BY <1>2, <3>1, <3>2, TryClaimType DEF TypeOK, AddAndRetrieve, TryClaim
  <2> QED
    BY <1>2, <2>1, <2>2, <2>3 DEF AddAndRetrieve
<1>3. ASSUME NEW path \in Paths, Retrieve(p, path)
      PROVE  TypeOK'
  <2>1. PICK i \in At(path) : TryClaim(p, i)
    BY <1>3 DEF Retrieve
  <2>2. i \in Ids
    BY DEF At
  <2> QED
    BY <1>3, <2>1, <2>2, TryClaimType DEF TypeOK, Retrieve, TryClaim
<1>4. ASSUME NEW i \in Ids, NEW v \in {p, None}, Ack(p, i, v)
      PROVE  TypeOK'
  <2>1. running' \in [Processes -> SUBSET Ids]
    BY <1>4 DEF TypeOK, Ack
  <2>2. CASE AckAccepted(i, v)
    <3>1. items[i] \in ItemRow
      BY <2>2 DEF TypeOK, AckAccepted, HasItem, NoRow
    <3>2. ASSUME v # None
          PROVE  [path |-> items[i].path, value |-> v,
                  external |-> items[i].external,
                  status |-> "ready", expired |-> FALSE] \in ResultRow
      BY <3>1, <3>2 DEF ItemRow, ResultRow
    <3>3. results' \in [Ids -> ResultRow \cup {NoRow}]
      BY <2>2, <3>2 DEF TypeOK, AckAccepted
    <3>4. [id |-> i, path |-> items[i].path, value |-> v] \in AckEvent
      BY <3>1 DEF ItemRow, AckEvent
    <3> QED
      BY <1>4, <2>1, <2>2, <3>3, <3>4 DEF TypeOK, Ack, AckAccepted
  <2>3. CASE AckRefused(i, v)
    BY <1>4, <2>1, <2>3 DEF TypeOK, Ack, AckRefused
  <2> QED
    BY <1>4, <2>2, <2>3 DEF Ack
<1>5. CASE Crash(p) \/ \E i \in Ids : Abandon(p, i)
  BY <1>5 DEF TypeOK, Crash, Abandon, tables
<1> QED
  BY <1>1, <1>2, <1>3, <1>4, <1>5 DEF ProcessStep

\* Commands on an item by key keep the types.
LEMMA KeyStepType ==
  ASSUME TypeOK, NEW key \in Keys, KeyStep(key)
  PROVE  TypeOK'
<1>1. ASSUME NEW i \in ItemsByKey(key) PROVE i \in Ids /\ items[i] \in ItemRow
  BY DEF TypeOK, ItemsByKey, At, Visible, HasItem, Keys, NoRow
<1>2. CASE Heartbeat(key)
  <2>1. PICK i \in ItemsByKey(key) :
          items' = [items EXCEPT ![i].lapsed = FALSE]
    BY <1>2 DEF Heartbeat
  <2>2. [items[i] EXCEPT !.lapsed = FALSE] \in ItemRow
    BY <1>1 DEF ItemRow
  <2> QED
    BY <1>1, <1>2, <2>1, <2>2 DEF TypeOK, Heartbeat
<1>3. ASSUME NEW x \in Extras, MergeExtra(key, x) PROVE TypeOK'
  <2>1. PICK i \in ItemsByKey(key) :
          items' = [items EXCEPT ![i].extra = @ \cup {x}]
    BY <1>3 DEF MergeExtra
  <2>2. [items[i] EXCEPT !.extra = @ \cup {x}] \in ItemRow
    BY <1>1 DEF ItemRow
  <2> QED
    BY <1>1, <1>3, <2>1, <2>2 DEF TypeOK, MergeExtra
<1>4. CASE Cancel(key)
  BY <1>1, <1>4 DEF TypeOK, Cancel
<1> QED
  BY <1>2, <1>3, <1>4 DEF KeyStep

\* Marking a result keeps the table of results well typed (MarkDeleted).
LEMMA MarkDeletedType ==
  ASSUME TypeOK, NEW i \in Ids, HasResult(i), MarkDeleted(i)
  PROVE  results' \in [Ids -> ResultRow \cup {NoRow}]
<1>1. results[i] \in ResultRow
  BY DEF TypeOK, HasResult, NoRow
<1>2. [results[i] EXCEPT !.status = "deleted"] \in ResultRow
  BY <1>1 DEF ResultRow
<1> QED
  BY <1>2 DEF TypeOK, MarkDeleted

\* An answer is well typed (Answered).
LEMMA AnsweredType ==
  ASSUME TypeOK, NEW w \in Waiters, NEW key \in Keys, NEW i \in Ids,
         NEW v \in Processes \cup {None}, Answered(w, key, i, v)
  PROVE  waiter' \in [Waiters -> Reader \cup {NoReader}]
<1>1. [pc |-> "done", key |-> key, id |-> i, value |-> v] \in Reader
  BY DEF Reader
<1> QED
  BY <1>1 DEF TypeOK, Answered

\* What the readers find is an id with a row, well typed.
LEMMA FoundType ==
  ASSUME TypeOK, NEW w \in Waiters
  PROVE  /\ \A i \in Ids : FoundById(w, i) =>
              /\ waiter' \in [Waiters -> Reader \cup {NoReader}]
              /\ results' = results
         /\ \A path \in Paths : FoundByPath(w, path) =>
              /\ waiter' \in [Waiters -> Reader \cup {NoReader}]
              /\ results' \in [Ids -> ResultRow \cup {NoRow}]
<1>1. \A i \in Ids : HasResult(i) => results[i].value \in Processes
  BY DEF TypeOK, HasResult, NoRow, ResultRow
<1>2. ASSUME NEW i \in Ids, FoundById(w, i)
      PROVE  /\ waiter' \in [Waiters -> Reader \cup {NoReader}]
             /\ results' = results
  BY <1>1, <1>2, AnsweredType DEF FoundById, LiveResult, ById, Keys
<1>3. ASSUME NEW path \in Paths, FoundByPath(w, path)
      PROVE  /\ waiter' \in [Waiters -> Reader \cup {NoReader}]
             /\ results' \in [Ids -> ResultRow \cup {NoRow}]
  <2>1. PICK i \in LatestResult(path) :
          MarkDeleted(i) /\ Answered(w, ByPath(path), i, results[i].value)
    BY <1>3 DEF FoundByPath
  <2>2. i \in Ids /\ HasResult(i)
    BY DEF LatestResult, ResultsAt, LiveResult
  <2> QED
    BY <1>1, <2>1, <2>2, AnsweredType, MarkDeletedType DEF ByPath, Keys
<1> QED
  BY <1>2, <1>3

\* Steps of a reader keep the types.
LEMMA ReaderStepType ==
  ASSUME TypeOK, NEW w \in Waiters, ReaderStep(w)
  PROVE  TypeOK'
<1>1. ASSUME NEW key \in Keys, NEW e \in Externals \cup {None},
             QueryResult(w, key, e)
      PROVE  TypeOK'
  <2>1. CASE key.by = "id" /\ FoundById(w, key.id)
    BY <1>1, <2>1, FoundType DEF TypeOK, QueryResult, Keys
  <2>2. CASE /\ key.by = "path"
             /\ \E i \in ResultsOfRequest(key.path, e) :
                  Answered(w, key, i, results[i].value)
             /\ UNCHANGED results
    <3>1. PICK i \in ResultsOfRequest(key.path, e) :
            Answered(w, key, i, results[i].value)
      BY <2>2
    <3>2. i \in Ids /\ results[i].value \in Processes
      BY DEF ResultsOfRequest, ResultsAt, LiveResult, HasResult, TypeOK,
             NoRow, ResultRow
    <3>3. waiter' \in [Waiters -> Reader \cup {NoReader}]
      BY <3>1, <3>2, AnsweredType
    <3> QED
      BY <1>1, <2>2, <3>3 DEF TypeOK, QueryResult
  <2>3. CASE key.by = "path" /\ FoundByPath(w, key.path)
    BY <1>1, <2>3, FoundType DEF TypeOK, QueryResult, Keys
  <2> QED
    BY <1>1, <2>1, <2>2, <2>3 DEF QueryResult
<1>2. ASSUME NEW key \in Keys, Subscribe(w, key) PROVE TypeOK'
  <2>1. [pc |-> "subscribed", key |-> key, first |-> None] \in Reader
    BY DEF Reader
  <2> QED
    BY <1>2, <2>1 DEF TypeOK, Subscribe, tables
<1>3. CASE Lookup(w)
  <2>1. waiter[w] \in [pc : {"subscribed", "waiting"}, key : Keys,
                       first : AckEvent \cup {None}]
    BY <1>3 DEF TypeOK, Lookup, Reader, NoReader
  <2>2. [waiter[w] EXCEPT !.pc = "waiting"] \in Reader
    BY <2>1 DEF Reader
  <2>3. CASE waiter[w].key.by = "id" /\ FoundById(w, waiter[w].key.id)
    BY <1>3, <2>1, <2>3, FoundType DEF TypeOK, Lookup, Keys
  <2>4. CASE waiter[w].key.by = "path" /\ FoundByPath(w, waiter[w].key.path)
    BY <1>3, <2>1, <2>4, FoundType DEF TypeOK, Lookup, Keys
  <2>5. CASE waiter' = [waiter EXCEPT ![w].pc = "waiting"]
             /\ UNCHANGED results
    BY <1>3, <2>2, <2>5 DEF TypeOK, Lookup
  <2> QED
    BY <1>3, <2>3, <2>4, <2>5 DEF Lookup
<1>4. CASE Wake(w)
  <2>1. waiter[w] \in [pc : {"subscribed", "waiting"}, key : Keys,
                       first : AckEvent \cup {None}]
    BY <1>4 DEF TypeOK, Wake, Reader, NoReader
  <2>2. waiter[w].first \in AckEvent
    BY <1>4, <2>1 DEF Wake
  <2>3. [pc |-> IF waiter[w].first.value = None THEN "done" ELSE "retiring",
         key |-> waiter[w].key, id |-> waiter[w].first.id,
         value |-> waiter[w].first.value] \in Reader
    BY <2>1, <2>2 DEF Reader, AckEvent
  <2> QED
    BY <1>4, <2>3 DEF TypeOK, Wake, tables
<1>5. CASE Retire(w)
  <2>1. waiter[w] \in [pc : {"retiring", "done"}, key : Keys, id : Ids,
                       value : Processes \cup {None}]
    BY <1>5 DEF TypeOK, Retire, Reader, NoReader
  <2>2. [waiter[w] EXCEPT !.pc = "done"] \in Reader
    BY <2>1 DEF Reader
  <2>3. results' \in [Ids -> ResultRow \cup {NoRow}]
    BY <1>5, <2>1, MarkDeletedType DEF TypeOK, Retire
  <2> QED
    BY <1>5, <2>2, <2>3 DEF TypeOK, Retire
<1>6. CASE GiveUp(w)
  BY <1>6 DEF TypeOK, GiveUp, tables
<1> QED
  BY <1>1, <1>2, <1>3, <1>4, <1>5, <1>6 DEF ReaderStep

\* Sending an event keeps the types.
LEMMA BroadcastType ==
  ASSUME TypeOK, NEW e \in outbox, Broadcast(e)
  PROVE  TypeOK'
<1>1. e \in AckEvent /\ e.id \in Ids
  BY DEF TypeOK, AckEvent
<1>2. ASSUME NEW w \in Waiters
      PROVE  Deliver(w, e) \in Reader \cup {NoReader}
  <2>1. CASE Listening(w)
    <3>1. waiter[w] \in [pc : {"subscribed", "waiting"}, key : Keys,
                         first : AckEvent \cup {None}]
      BY <2>1 DEF TypeOK, Listening, Reader, NoReader
    <3>2. [waiter[w] EXCEPT !.first = e] \in Reader
      BY <1>1, <3>1 DEF Reader
    <3> QED
      BY <3>2 DEF TypeOK, Deliver
  <2>2. CASE ~Listening(w)
    BY <2>2 DEF TypeOK, Deliver
  <2> QED
    BY <2>1, <2>2
<1> QED
  BY <1>1, <1>2 DEF TypeOK, Broadcast, tables

\* The passing of time and compaction keep the types.
LEMMA ClockStepType ==
  ASSUME TypeOK, NEW i \in Ids, ClockStep(i)
  PROVE  TypeOK'
<1>1. HasItem(i) => items[i] \in ItemRow
  BY DEF TypeOK, HasItem, NoRow
<1>2. CASE HeartbeatLapses(i)
  <2>1. [items[i] EXCEPT !.lapsed = TRUE] \in ItemRow
    BY <1>1, <1>2 DEF HeartbeatLapses, ItemRow
  <2> QED
    BY <1>2, <2>1 DEF TypeOK, HeartbeatLapses
<1>3. CASE OrphanDeadline(i)
  <2>1. [items[i] EXCEPT !.orphaned = TRUE] \in ItemRow
    BY <1>1, <1>3 DEF OrphanDeadline, ItemRow
  <2> QED
    BY <1>3, <2>1 DEF TypeOK, OrphanDeadline
<1>4. CASE ItemExpires(i)
  BY <1>4 DEF TypeOK, ItemExpires
<1>5. CASE ResultExpires(i)
  <2>1. results[i] \in ResultRow
    BY <1>5 DEF TypeOK, ResultExpires, LiveResult, HasResult, NoRow
  <2>2. [results[i] EXCEPT !.expired = TRUE] \in ResultRow
    BY <2>1 DEF ResultRow
  <2> QED
    BY <1>5, <2>2 DEF TypeOK, ResultExpires
<1>6. CASE Compact(i)
  BY <1>6 DEF TypeOK, Compact
<1> QED
  BY <1>2, <1>3, <1>4, <1>5, <1>6 DEF ClockStep

\* Every step of the queue keeps the types (Next).
LEMMA NextKeepsType ==
  ASSUME TypeOK, [Next]_vars
  PROVE  TypeOK'
<1>1. CASE Clear
  BY <1>1 DEF TypeOK, Clear
<1>2. ASSUME NEW due \in SUBSET gc, CollectResults(due) PROVE TypeOK'
  BY <1>2 DEF TypeOK, CollectResults
<1>3. CASE UNCHANGED vars
  BY <1>3 DEF TypeOK, vars, tables
<1> QED
  BY <1>1, <1>2, <1>3, ProcessStepType, KeyStepType, ReaderStepType,
     BroadcastType, ClockStepType DEF Next

\* Every state of the queue is well typed: rows, events and readers have the
\* fields the commands rely on.
THEOREM TypeCorrect == Spec => []TypeOK
<1>1. Init => TypeOK
  BY QueueAssumption DEF Init, TypeOK, Ids, NoRow, NoReader
<1>2. TypeOK /\ [Next]_vars => TypeOK'
  BY NextKeepsType
<1> QED
  BY <1>1, <1>2, PTL DEF Spec

-----------------------------------------------------------------------------
(* The tables.  Most steps are quiet: they add no row and touch no field    *)
(* that identifies one.  The others insert an item, claim one, or replace   *)
(* one by its result.                                                       *)

TableInvariant ==
  /\ UnusedIds /\ GivenIsNotPending
  /\ OneItemPerPath /\ PayloadOfVisibleItem /\ ItemXorResult
  /\ OneExecutor /\ ExclusiveStaysHome /\ OneResultPerRequest
  /\ \A i \in Ids : HasItem(i) => outcome[i] = Open
  /\ \A i \in Ids : HasResult(i) => outcome[i] = results[i].value

Quiet ==
  /\ \A i \in Ids : items'[i] # NoRow =>
       /\ items[i] # NoRow
       /\ items'[i].status    = items[i].status
       /\ items'[i].path      = items[i].path
       /\ items'[i].owner     = items[i].owner
       /\ items'[i].exclusive = items[i].exclusive
  /\ \A i \in Ids : results'[i] # NoRow =>
       /\ results[i] # NoRow
       /\ results'[i].path     = results[i].path
       /\ results'[i].external = results[i].external
       /\ results'[i].value    = results[i].value
       /\ results[i].expired => results'[i].expired
  /\ payloads' \subseteq payloads /\ expired \subseteq expired'
  /\ \A i \in payloads \ payloads' : i \in expired' \/ items'[i] = NoRow
  /\ \A i \in expired' \ expired : items[i] # NoRow
  /\ \A p \in Processes : running'[p] \subseteq running[p]
  /\ nextId' = nextId /\ outcome' = outcome

\* A row is absent exactly when it is the null row.
LEMMA Absence ==
  ASSUME TypeOK
  PROVE  \A i \in Ids : /\ HasItem(i) <=> items[i] # NoRow
                        /\ HasItem(i) => items[i] \in ItemRow
                        /\ HasResult(i) <=> results[i] # NoRow
                        /\ HasResult(i) => results[i] \in ResultRow
BY DEF TypeOK, HasItem, HasResult, NoRow, ItemRow, ResultRow

\* A step that only loses rows, or changes what the invariant does not
\* read, keeps it: cancellations, expiry, compaction, heartbeats, readers.
LEMMA QuietKeepsTables ==
  ASSUME TypeOK, TypeOK', TableInvariant, Quiet
  PROVE  TableInvariant'
<1> USE DEF TableInvariant
<1>1. /\ \A i \in Ids : HasItem(i) <=> items[i] # NoRow
      /\ \A i \in Ids : HasResult(i) <=> results[i] # NoRow
      /\ \A i \in Ids : HasItem(i)' <=> items'[i] # NoRow
      /\ \A i \in Ids : HasResult(i)' <=> results'[i] # NoRow
  BY Absence DEF TypeOK, HasItem, HasResult, NoRow, ItemRow, ResultRow
<1>2. \A i \in Ids : Visible(i)' => Visible(i)
  BY <1>1 DEF Visible, Quiet
<1>3. \A i \in Ids : LiveResult(i)' => LiveResult(i)
  BY <1>1 DEF LiveResult, Quiet, TypeOK, ResultRow, HasResult, NoRow
<1>a. UnusedIds'
  BY DEF UnusedIds, Quiet, TypeOK
<1>b. GivenIsNotPending'
  BY DEF GivenIsNotPending, Quiet, TypeOK, NoRow
<1>c. OneItemPerPath'
  BY <1>1, <1>2 DEF OneItemPerPath, Visible, Quiet
<1>d. PayloadOfVisibleItem'
  BY <1>1, <1>2 DEF PayloadOfVisibleItem, Visible, Quiet
<1>e. ItemXorResult'
  BY <1>1 DEF ItemXorResult, Quiet
<1>f. OneExecutor'
  BY DEF OneExecutor, Quiet
<1>g. ExclusiveStaysHome'
  BY <1>1 DEF ExclusiveStaysHome, Quiet, TypeOK, PidOf
<1>h. OneResultPerRequest'
  BY <1>1, <1>3 DEF OneResultPerRequest, LiveResult, Quiet
<1>i. /\ \A i \in Ids : HasItem(i)' => outcome'[i] = Open
      /\ \A i \in Ids : HasResult(i)' => outcome'[i] = results'[i].value
  BY <1>1 DEF Quiet
<1> QED
  BY <1>a, <1>b, <1>c, <1>d, <1>e, <1>f, <1>g, <1>h, <1>i

\* Results that are marked, deleted or left alone (the readers and the gc).
LEMMA ResultsOnlyIsQuiet ==
  ASSUME TypeOK,
         UNCHANGED <<items, payloads, expired, nextId, outcome, running>>,
         \A i \in Ids : \/ results'[i] = results[i] \/ results'[i] = NoRow
                        \/ /\ HasResult(i)
                           /\ results'[i] =
                                [results[i] EXCEPT !.status = "deleted"]
                        \/ /\ HasResult(i)
                           /\ results'[i] =
                                [results[i] EXCEPT !.expired = TRUE]
  PROVE  Quiet
<1>1. ASSUME NEW i \in Ids, results'[i] # NoRow
      PROVE  /\ results[i] # NoRow
             /\ results'[i].path     = results[i].path
             /\ results'[i].external = results[i].external
             /\ results'[i].value    = results[i].value
             /\ results[i].expired => results'[i].expired
  BY <1>1, Absence DEF ResultRow
<1> QED
  BY <1>1 DEF Quiet

\* Commands by key only refresh, extend or delete the row.
LEMMA KeyStepIsQuiet ==
  ASSUME TypeOK, NEW key \in Keys, KeyStep(key)
  PROVE  Quiet
<1>1. ASSUME NEW i \in ItemsByKey(key) PROVE i \in Ids /\ items[i] \in ItemRow
  BY DEF TypeOK, ItemsByKey, At, Visible, HasItem, Keys, NoRow
<1>2. CASE Heartbeat(key)
  BY <1>1, <1>2 DEF TypeOK, Heartbeat, Quiet, ItemRow, NoRow
<1>3. ASSUME NEW x \in Extras, MergeExtra(key, x) PROVE Quiet
  BY <1>1, <1>3 DEF TypeOK, MergeExtra, Quiet, ItemRow, NoRow
<1>4. CASE Cancel(key)
  BY <1>1, <1>4 DEF TypeOK, Cancel, Quiet, ItemRow, NoRow
<1> QED
  BY <1>2, <1>3, <1>4 DEF KeyStep

\* Readers only mark or delete results.
LEMMA ReaderStepIsQuiet ==
  ASSUME TypeOK, NEW w \in Waiters, ReaderStep(w)
  PROVE  Quiet
<1> DEFINE Marked == \/ results' = results
                     \/ \E i \in Ids : HasResult(i) /\ MarkDeleted(i)
                     \/ \E i \in Ids :
                          results' = [results EXCEPT ![i] = NoRow]
<1>1. UNCHANGED <<items, payloads, expired, nextId, outcome, running>>
  BY DEF ReaderStep, QueryResult, Subscribe, Lookup, Wake, Retire, GiveUp,
         tables
<1>2. ASSUME NEW path \in Paths, FoundByPath(w, path) PROVE Marked
  BY <1>2 DEF FoundByPath, LatestResult, ResultsAt, LiveResult
<1>3. Marked
  <2>1. ASSUME NEW key \in Keys, NEW e \in Externals \cup {None},
               QueryResult(w, key, e)
        PROVE  Marked
    BY <1>2, <2>1 DEF QueryResult, FoundById, Keys
  <2>2. ASSUME NEW key \in Keys, Subscribe(w, key) PROVE Marked
    BY <2>2 DEF Subscribe, tables
  <2>3. CASE Lookup(w)
    <3>1. waiter[w].key \in Keys
      BY <2>3 DEF TypeOK, Lookup, Reader, NoReader
    <3> QED
      BY <1>2, <2>3, <3>1 DEF Lookup, FoundById, Keys
  <2>4. CASE Wake(w) \/ GiveUp(w)
    BY <2>4 DEF Wake, GiveUp, tables
  <2>5. CASE Retire(w)
    <3>1. waiter[w].id \in Ids
      BY <2>5 DEF TypeOK, Retire, Reader, NoReader
    <3> QED
      BY <2>5, <3>1 DEF Retire
  <2> QED
    BY <2>1, <2>2, <2>3, <2>4, <2>5 DEF ReaderStep
<1>4. \A i \in Ids : \/ results'[i] = results[i] \/ results'[i] = NoRow
                     \/ /\ HasResult(i)
                        /\ results'[i] =
                             [results[i] EXCEPT !.status = "deleted"]
  BY <1>3 DEF TypeOK, MarkDeleted
<1> QED
  BY <1>1, <1>4, ResultsOnlyIsQuiet

\* Deadlines and compaction never revive or relabel a row.
LEMMA ClockStepIsQuiet ==
  ASSUME TypeOK, NEW i \in Ids, ClockStep(i)
  PROVE  Quiet
<1>1. HasItem(i) => items[i] \in ItemRow /\ items[i] # NoRow
  BY Absence
<1>2. CASE HeartbeatLapses(i) \/ OrphanDeadline(i)
  BY <1>1, <1>2 DEF HeartbeatLapses, OrphanDeadline, Quiet, TypeOK, ItemRow,
                    NoRow
<1>3. CASE ItemExpires(i)
  BY <1>1, <1>3 DEF ItemExpires, Quiet
<1>4. CASE ResultExpires(i)
  BY <1>4, ResultsOnlyIsQuiet DEF ResultExpires, LiveResult, TypeOK
<1>5. CASE Compact(i)
  BY <1>5 DEF Compact, Quiet, TypeOK, NoRow
<1> QED
  BY <1>2, <1>3, <1>4, <1>5 DEF ClockStep

\* So are sending an event, the gc, truncation, a crash, an execution without
\* an acknowledgement and a refused one.
LEMMA OtherStepIsQuiet ==
  ASSUME TypeOK,
         \/ Clear \/ UNCHANGED vars
         \/ \E due \in SUBSET gc : CollectResults(due)
         \/ \E e \in outbox : Broadcast(e)
         \/ \E p \in Processes : Crash(p) \/ \E i \in Ids : Abandon(p, i)
         \/ \E p \in Processes, i \in Ids, v \in Processes \cup {None} :
              Ack(p, i, v) /\ AckRefused(i, v)
  PROVE  Quiet
<1>1. CASE Clear
  BY <1>1 DEF Clear, Quiet, TypeOK
<1>2. CASE UNCHANGED vars \/ \E e \in outbox : Broadcast(e)
  BY <1>2 DEF vars, tables, Broadcast, Quiet
<1>3. CASE \E due \in SUBSET gc : CollectResults(due)
  BY <1>3 DEF CollectResults, Quiet
<1>4. CASE \E p \in Processes : Crash(p) \/ \E i \in Ids : Abandon(p, i)
  BY <1>4 DEF Crash, Abandon, tables, Quiet, TypeOK
<1>5. CASE \E p \in Processes, i \in Ids, v \in Processes \cup {None} :
             Ack(p, i, v) /\ AckRefused(i, v)
  BY <1>5 DEF Ack, AckRefused, Quiet, TypeOK
<1> QED
  BY <1>1, <1>2, <1>3, <1>4, <1>5

\* A new item under a path that is not queued (Add, AddClaimed, AddUnclaimed).
LEMMA InsertKeepsTables ==
  ASSUME TypeOK, TypeOK', TableInvariant,
         NEW p \in Processes, NEW path \in Paths,
         NEW e \in Externals \cup {None}, NEW x \in Exclusives,
         NEW st \in {"pending", "active"},
         At(path) = {},
         Insert(NewItem(path, e, PidOf(p), x, st)),
         UNCHANGED <<expired, results, outcome>>,
         \/ UNCHANGED running
         \/ st = "active" /\ Execute(p, nextId)
  PROVE  TableInvariant'
<1> USE DEF TableInvariant
<1> DEFINE n == nextId
           row == NewItem(path, e, PidOf(p), x, st)
<1>1. n \in Ids
  BY InsertType
<1>2. /\ items[n] = NoRow /\ results[n] = NoRow
      /\ n \notin payloads /\ n \notin expired /\ outcome[n] = Open
      /\ \A q \in Processes : n \notin running[q]
  BY <1>1 DEF UnusedIds, TypeOK
<1>3. /\ items' = [items EXCEPT ![n] = row] /\ items'[n] = row
      /\ \A i \in Ids : i # n => items'[i] = items[i]
      /\ payloads' = payloads \cup {n} /\ nextId' = n + 1
  BY <1>1 DEF Insert, TypeOK
<1>4. row.path = path /\ row.status = st /\ row.owner = PidOf(p)
      /\ row.exclusive = x /\ row # NoRow
  BY DEF NewItem, NoRow
<1>5. \A q \in Processes : \/ running'[q] = running[q]
                           \/ /\ q = p /\ st = "active"
                              /\ running'[q] = running[q] \cup {n}
  BY <1>1 DEF Execute, TypeOK
<1>a. UnusedIds'
  <2>1. \A i \in Ids : i >= n + 1 => i # n /\ i >= nextId
    BY <1>1 DEF Ids
  <2> QED
    BY <1>3, <1>5, <2>1 DEF UnusedIds
<1>b. GivenIsNotPending'
  BY <1>1, <1>2, <1>3, <1>4, <1>5 DEF GivenIsNotPending, TypeOK
<1>c. OneItemPerPath'
  <2>1. \A i \in Ids : Visible(i)' /\ i # n => Visible(i)
    BY <1>3 DEF Visible, HasItem
  <2>2. \A i \in Ids : Visible(i) => items[i].path # path
    BY DEF At
  <2> QED
    BY <1>3, <1>4, <2>1, <2>2 DEF OneItemPerPath
<1>d. PayloadOfVisibleItem'
  BY <1>3 DEF PayloadOfVisibleItem, Visible, HasItem
<1>e. ItemXorResult'
  BY <1>2, <1>3 DEF ItemXorResult, HasItem, HasResult, NoRow
<1>f. OneExecutor'
  BY <1>2, <1>5 DEF OneExecutor
<1>g. ExclusiveStaysHome'
  BY <1>2, <1>3, <1>4, <1>5 DEF ExclusiveStaysHome, HasItem, TypeOK, PidOf
<1>h. OneResultPerRequest'
  BY DEF OneResultPerRequest, LiveResult, HasResult
<1>i. /\ \A i \in Ids : HasItem(i)' => outcome'[i] = Open
      /\ \A i \in Ids : HasResult(i)' => outcome'[i] = results'[i].value
  BY <1>2, <1>3 DEF HasItem, HasResult
<1> QED
  BY <1>a, <1>b, <1>c, <1>d, <1>e, <1>f, <1>g, <1>h, <1>i

\* A pending item goes to one process, which no other was given before.
LEMMA ClaimKeepsTables ==
  ASSUME TypeOK, TypeOK', TableInvariant,
         NEW p \in Processes, NEW path \in Paths, NEW i \in At(path),
         TryClaim(p, i), UNCHANGED <<expired, results, outcome>>
  PROVE  TableInvariant'
<1> USE DEF TableInvariant
<1>1. i \in Ids /\ Visible(i) /\ i \in payloads /\ items[i] \in ItemRow
  BY Absence DEF At, Visible, PayloadOfVisibleItem
<1>2. /\ items[i].status = "pending"
      /\ items[i].exclusive => items[i].owner = PidOf(p)
      /\ items' = [items EXCEPT ![i] = Claimed(@)]
      /\ running' = [running EXCEPT ![p] = @ \cup {i}]
      /\ UNCHANGED <<payloads, nextId>>
  BY <1>1 DEF TryClaim, Execute
<1>3. /\ items'[i] = Claimed(items[i])
      /\ \A j \in Ids : j # i => items'[j] = items[j]
  BY <1>1, <1>2 DEF TypeOK
<1>4. LET c == Claimed(items[i]) IN
      /\ c.path = items[i].path /\ c.owner = items[i].owner
      /\ c.exclusive = items[i].exclusive /\ c.status = "active"
      /\ c # NoRow
  BY <1>1 DEF Claimed, ItemRow, NoRow
<1>5. /\ running'[p] = running[p] \cup {i}
      /\ \A q \in Processes : q # p => running'[q] = running[q]
      /\ \A q \in Processes : i \notin running[q]
  BY <1>1, <1>2 DEF TypeOK, GivenIsNotPending
<1>6. \A j \in Ids : HasItem(j)' <=> HasItem(j)
  BY <1>1, <1>3, <1>4 DEF HasItem, Visible
<1>a. UnusedIds'
  <2>1. i < nextId
    BY <1>1 DEF UnusedIds, Visible, HasItem, TypeOK, Ids, NoRow
  <2> QED
    BY <1>2, <1>3, <1>5, <2>1 DEF UnusedIds, TypeOK, Ids
<1>b. GivenIsNotPending'
  BY <1>3, <1>4, <1>5 DEF GivenIsNotPending, TypeOK
<1>c. OneItemPerPath'
  BY <1>3, <1>4, <1>6 DEF OneItemPerPath, Visible
<1>d. PayloadOfVisibleItem'
  BY <1>2, <1>6 DEF PayloadOfVisibleItem, Visible
<1>e. ItemXorResult'
  BY <1>6 DEF ItemXorResult, HasResult
<1>f. OneExecutor'
  BY <1>5 DEF OneExecutor
<1>g. ExclusiveStaysHome'
  BY <1>2, <1>3, <1>4, <1>5, <1>6 DEF ExclusiveStaysHome, TypeOK, PidOf
<1>h. OneResultPerRequest'
  BY DEF OneResultPerRequest, LiveResult, HasResult
<1>i. /\ \A j \in Ids : HasItem(j)' => outcome'[j] = Open
      /\ \A j \in Ids : HasResult(j)' => outcome'[j] = results'[j].value
  BY <1>6 DEF HasResult
<1> QED
  BY <1>a, <1>b, <1>c, <1>d, <1>e, <1>f, <1>g, <1>h, <1>i

\* An accepted acknowledgement swaps the item for its result, if it has one.
LEMMA AckKeepsTables ==
  ASSUME TypeOK, TypeOK', TableInvariant,
         NEW p \in Processes, NEW i \in Ids, NEW v \in {p, None},
         Ack(p, i, v), AckAccepted(i, v)
  PROVE  TableInvariant'
<1> USE DEF TableInvariant
<1> DEFINE res == [path |-> items[i].path, value |-> v,
                   external |-> items[i].external,
                   status |-> "ready", expired |-> FALSE]
<1>1. HasItem(i) /\ items[i] \in ItemRow /\ outcome[i] = Open
      /\ i < nextId /\ results[i] = NoRow
  BY Absence DEF AckAccepted, UnusedIds, ItemXorResult, TypeOK, Ids
<1>2. /\ items'[i] = NoRow
      /\ \A j \in Ids : j # i => items'[j] = items[j]
      /\ payloads' = payloads \ {i} /\ UNCHANGED <<expired, nextId>>
      /\ outcome'[i] = v
      /\ \A j \in Ids : j # i => outcome'[j] = outcome[j]
      /\ \A q \in Processes : running'[q] \subseteq running[q]
  BY DEF Ack, AckAccepted, TypeOK
<1>3. /\ results'[i] = NoRow \/ (v # None /\ results'[i] = res)
      /\ v # None => ResultsOfRequest(items[i].path, items[i].external) = {}
      /\ \A j \in Ids : j # i => results'[j] = results[j]
  <2>1. v = None \/ ~AckConflicts(i)
    BY DEF AckAccepted
  <2>2. results' = IF v = None THEN results ELSE [results EXCEPT ![i] = res]
    BY DEF AckAccepted
  <2>3. results \in [Ids -> ResultRow \cup {NoRow}]
    BY DEF TypeOK
  <2>4. v # None => ResultsOfRequest(items[i].path, items[i].external) = {}
    BY <2>1 DEF AckConflicts
  <2>5. results'[i] = NoRow \/ (v # None /\ results'[i] = res)
    BY <1>1, <2>2, <2>3
  <2>6. \A j \in Ids : j # i => results'[j] = results[j]
    BY <2>2, <2>3
  <2> QED
    BY <2>4, <2>5, <2>6
<1>4. /\ res # NoRow /\ res.value = v /\ res.path = items[i].path
      /\ res.external = items[i].external
  BY DEF NoRow
<1>a. UnusedIds'
  BY <1>1, <1>2, <1>3 DEF UnusedIds, TypeOK, Ids
<1>b. GivenIsNotPending'
  BY <1>2 DEF GivenIsNotPending, TypeOK, NoRow
<1>c. OneItemPerPath'
  BY <1>2 DEF OneItemPerPath, Visible, HasItem, NoRow
<1>d. PayloadOfVisibleItem'
  BY <1>2 DEF PayloadOfVisibleItem, Visible, HasItem, NoRow
<1>e. ItemXorResult'
  BY <1>2, <1>3 DEF ItemXorResult, HasItem, HasResult, NoRow
<1>f. OneExecutor'
  BY <1>2 DEF OneExecutor
<1>g. ExclusiveStaysHome'
  BY <1>2 DEF ExclusiveStaysHome, HasItem, TypeOK, PidOf, NoRow
<1>h. OneResultPerRequest'
  <2>1. \A j \in Ids : LiveResult(j)' /\ j # i => LiveResult(j)
    BY <1>3 DEF LiveResult, HasResult
  <2>2. ASSUME NEW j \in Ids, j # i, LiveResult(j), LiveResult(i)',
               items[i].external # None, results[j].path = items[i].path,
               results[j].external = items[i].external
        PROVE  FALSE
    BY <1>3, <2>2 DEF ResultsOfRequest, ResultsAt, LiveResult, HasResult,
                      NoRow
  <2>3. LiveResult(i)' => results'[i] = res
    BY <1>3 DEF LiveResult, HasResult, NoRow
  <2> QED
    BY <1>3, <1>4, <2>1, <2>2, <2>3 DEF OneResultPerRequest
<1>i. /\ \A j \in Ids : HasItem(j)' => outcome'[j] = Open
      /\ \A j \in Ids : HasResult(j)' => outcome'[j] = results'[j].value
  BY <1>2, <1>3, <1>4 DEF HasItem, HasResult, NoRow
<1> QED
  BY <1>a, <1>b, <1>c, <1>d, <1>e, <1>f, <1>g, <1>h, <1>i

\* Every step keeps the tables consistent.
LEMMA NextKeepsTables ==
  ASSUME TypeOK, TypeOK', TableInvariant, [Next]_vars
  PROVE  TableInvariant'
<1>1. ASSUME NEW p \in Processes, ProcessStep(p) PROVE TableInvariant'
  <2>1. ASSUME NEW path \in Paths, NEW e \in Externals \cup {None},
               NEW x \in Exclusives, Add(p, path, e, x)
        PROVE  TableInvariant'
    BY <2>1, InsertKeepsTables DEF Add
  <2>2. ASSUME NEW path \in Paths, NEW e \in Externals \cup {None},
               NEW x \in Exclusives, AddAndRetrieve(p, path, e, x)
        PROVE  TableInvariant'
    <3>1. CASE AddClaimed(p, path, e, x)
      BY <2>2, <3>1, InsertKeepsTables DEF AddAndRetrieve, AddClaimed
    <3>2. CASE AddUnclaimed(p, path, e, x)
      BY <2>2, <3>2, InsertKeepsTables DEF AddAndRetrieve, AddUnclaimed
    <3>3. CASE ClaimQueued(p, path)
      BY <2>2, <3>3, ClaimKeepsTables DEF AddAndRetrieve, ClaimQueued
    <3> QED
      BY <2>2, <3>1, <3>2, <3>3 DEF AddAndRetrieve
  <2>3. ASSUME NEW path \in Paths, Retrieve(p, path) PROVE TableInvariant'
    BY <2>3, ClaimKeepsTables DEF Retrieve
  <2>4. ASSUME NEW i \in Ids, NEW v \in {p, None}, Ack(p, i, v)
        PROVE  TableInvariant'
    <3>1. CASE AckAccepted(i, v)
      BY <2>4, <3>1, AckKeepsTables
    <3>2. CASE AckRefused(i, v)
      BY <2>4, <3>2, OtherStepIsQuiet, QuietKeepsTables
    <3> QED
      BY <2>4, <3>1, <3>2 DEF Ack
  <2>5. CASE Crash(p) \/ \E i \in Ids : Abandon(p, i)
    BY <2>5, OtherStepIsQuiet, QuietKeepsTables
  <2> QED
    BY <1>1, <2>1, <2>2, <2>3, <2>4, <2>5 DEF ProcessStep
<1>2. ASSUME NEW key \in Keys, KeyStep(key) PROVE TableInvariant'
  BY <1>2, KeyStepIsQuiet, QuietKeepsTables
<1>3. ASSUME NEW w \in Waiters, ReaderStep(w) PROVE TableInvariant'
  BY <1>3, ReaderStepIsQuiet, QuietKeepsTables
<1>4. ASSUME NEW i \in Ids, ClockStep(i) PROVE TableInvariant'
  BY <1>4, ClockStepIsQuiet, QuietKeepsTables
<1>5. ASSUME \/ Clear \/ UNCHANGED vars
             \/ \E due \in SUBSET gc : CollectResults(due)
             \/ \E e \in outbox : Broadcast(e)
      PROVE  TableInvariant'
  BY <1>5, OtherStepIsQuiet, QuietKeepsTables
<1> QED
  BY <1>1, <1>2, <1>3, <1>4, <1>5 DEF Next

\* Empty tables are consistent (Init).
LEMMA InitTables == Init => TableInvariant
BY DEF Init, TableInvariant, UnusedIds, GivenIsNotPending, OneItemPerPath,
       PayloadOfVisibleItem, ItemXorResult, OneExecutor, ExclusiveStaysHome,
       OneResultPerRequest, Visible, LiveResult, HasItem, HasResult, NoRow

\* The tables stay consistent: a path is queued once, an item has its payload,
\* an id has an item or a result, never both, one process executes it, an
\* exclusive one its owner, and a request has one answer at most.
THEOREM TablesConsistent == Spec => []TableInvariant
<1>1. TypeOK /\ TypeOK' /\ TableInvariant /\ [Next]_vars => TableInvariant'
  BY NextKeepsTables
<1> QED
  BY <1>1, InitTables, TypeCorrect, PTL DEF Spec

\* A path is queued once among the items that have not expired (queue_add,
\* queue_add_and_retrieve).
THEOREM PathQueuedOnce == Spec => []OneItemPerPath
<1>1. TableInvariant => OneItemPerPath
  BY DEF TableInvariant
<1> QED
  BY <1>1, TablesConsistent, PTL

\* An item is executed by one process only (try_claim_queue_item).
THEOREM ExecutedOnce == Spec => []OneExecutor
<1>1. TableInvariant => OneExecutor
  BY DEF TableInvariant
<1> QED
  BY <1>1, TablesConsistent, PTL

\* An exclusive item stays with the process that added it (is_visible_for).
THEOREM ExclusiveKept == Spec => []ExclusiveStaysHome
<1>1. TableInvariant => ExclusiveStaysHome
  BY DEF TableInvariant
<1> QED
  BY <1>1, TablesConsistent, PTL

\* Every visible item has its payload (queue_add, queue_cancel, compaction).
THEOREM PayloadKept == Spec => []PayloadOfVisibleItem
<1>1. TableInvariant => PayloadOfVisibleItem
  BY DEF TableInvariant
<1> QED
  BY <1>1, TablesConsistent, PTL

\* An acknowledgement swaps an item for its result (queue_ack).
THEOREM ItemOrResult == Spec => []ItemXorResult
<1>1. TableInvariant => ItemXorResult
  BY DEF TableInvariant
<1> QED
  BY <1>1, TablesConsistent, PTL

\* A request has one live result at most (the unique index on path and
\* external id).
THEOREM RequestAnsweredOnce == Spec => []OneResultPerRequest
<1>1. TableInvariant => OneResultPerRequest
  BY DEF TableInvariant
<1> QED
  BY <1>1, TablesConsistent, PTL

-----------------------------------------------------------------------------
(* The readers.                                                            *)

Repeats(e) == outcome[e.id] = e.value

ReaderInvariant ==
  /\ \A e \in outbox : Repeats(e)
  /\ \A w \in Waiters : Listening(w) /\ waiter[w].first # None =>
       Repeats(waiter[w].first) /\ Matches(waiter[w].key, waiter[w].first)
  /\ AnswerIsOutcome /\ NoLostWakeup

\* A reader that listens or that has an answer has the fields that go with it.
LEMMA ReaderFields ==
  ASSUME TypeOK, NEW w \in Waiters
  PROVE  /\ Listening(w) => /\ waiter[w].key \in Keys
                            /\ waiter[w].first \in AckEvent \cup {None}
         /\ waiter[w].pc \in {"retiring", "done"} =>
              /\ waiter[w].key \in Keys /\ waiter[w].id \in Ids
              /\ waiter[w].value \in Processes \cup {None}
BY DEF TypeOK, Listening, Reader, NoReader

\* Results come, change and go without touching readers and events.
LEMMA QuietKeepsReaders ==
  ASSUME TypeOK, TypeOK', ReaderInvariant, Quiet, UNCHANGED <<outbox, waiter>>
  PROVE  ReaderInvariant'
<1>1. \A i \in Ids : LiveResult(i)' => LiveResult(i)
  BY DEF LiveResult, Quiet, TypeOK, ResultRow, HasResult, NoRow
<1>2. NoLostWakeup'
  BY <1>1 DEF ReaderInvariant, NoLostWakeup
<1> QED
  BY <1>2 DEF ReaderInvariant, AnswerIsOutcome, Repeats, Listening, Matches,
              Quiet

\* A command that adds or claims an item leaves readers and results alone.
LEMMA QueueingKeepsReaders ==
  ASSUME ReaderInvariant, UNCHANGED <<results, outbox, waiter, outcome>>
  PROVE  ReaderInvariant'
BY DEF ReaderInvariant, AnswerIsOutcome, Repeats, Listening, Matches,
       NoLostWakeup, LiveResult, HasResult

\* The id that is acknowledged had no outcome, hence no event and no answer.
LEMMA AckKeepsReaders ==
  ASSUME TypeOK, TypeOK', TableInvariant, ReaderInvariant,
         NEW p \in Processes, NEW i \in Ids, NEW v \in {p, None},
         Ack(p, i, v), AckAccepted(i, v)
  PROVE  ReaderInvariant'
<1> DEFINE ev == [id |-> i, path |-> items[i].path, value |-> v]
<1>1. outcome[i] = Open /\ Open \notin Processes \cup {None}
  BY QueueAssumption DEF TableInvariant, AckAccepted
<1>2. /\ waiter' = waiter /\ outbox' = outbox \cup {ev}
      /\ outcome'[i] = v
      /\ \A j \in Ids : j # i => outcome'[j] = outcome[j]
      /\ \A j \in Ids : j # i => results'[j] = results[j]
  BY DEF Ack, AckAccepted, TypeOK
<1>3. \A e \in AckEvent : Repeats(e) => Repeats(e)'
  BY <1>1, <1>2 DEF Repeats, AckEvent
<1>4. \A e \in outbox' : Repeats(e)'
  BY <1>2, <1>3 DEF Repeats, ReaderInvariant, TypeOK
<1>5. ASSUME NEW w \in Waiters, Listening(w)', (waiter[w].first # None)'
      PROVE  /\ Repeats(waiter[w].first)'
             /\ Matches(waiter[w].key, waiter[w].first)'
  <2>1. Listening(w) /\ waiter[w].first \in AckEvent
    BY <1>2, <1>5, ReaderFields DEF Listening
  <2> QED
    BY <1>2, <1>3, <2>1, <1>5 DEF ReaderInvariant, Matches, Repeats
<1>6. AnswerIsOutcome'
  <2>1. ASSUME NEW w \in Waiters, waiter[w].pc \in {"retiring", "done"}
        PROVE  /\ waiter[w].id \in Ids /\ waiter[w].id # i
               /\ outcome[waiter[w].id] = waiter[w].value
    BY <1>1, <2>1, ReaderFields DEF AnswerIsOutcome, ReaderInvariant
  <2> QED
    BY <1>2, <2>1 DEF AnswerIsOutcome, ReaderInvariant
<1>7. NoLostWakeup'
  <2>1. \A j \in Ids : j # i /\ LiveResult(j)' => LiveResult(j)
    BY <1>2 DEF LiveResult, HasResult
  <2>2. ev \in outbox' /\ ev.id = i /\ outbox \subseteq outbox'
    BY <1>2
  <2> QED
    BY <1>2, <2>1, <2>2 DEF NoLostWakeup, ReaderInvariant
<1> QED
  BY <1>4, <1>5, <1>6, <1>7 DEF ReaderInvariant

\* An answer taken from the table of results repeats the outcome.
LEMMA AnsweringKeepsReaders ==
  ASSUME TypeOK, TypeOK', ReaderInvariant, Quiet, UNCHANGED outbox,
         NEW w \in Waiters, NEW key \in Keys, NEW i \in Ids,
         NEW v \in Processes \cup {None},
         Answered(w, key, i, v), outcome[i] = v,
         key.by = "id" => key.id = i
  PROVE  ReaderInvariant'
<1>1. /\ waiter'[w] = [pc |-> "done", key |-> key, id |-> i, value |-> v]
      /\ \A u \in Waiters : u # w => waiter'[u] = waiter[u]
      /\ outcome' = outcome
  BY DEF Answered, TypeOK, Quiet
<1>2. \A j \in Ids : LiveResult(j)' => LiveResult(j)
  BY DEF LiveResult, Quiet, TypeOK, ResultRow, HasResult, NoRow
<1>3. \A u \in Waiters : Listening(u)' => u # w /\ Listening(u)
  BY <1>1 DEF Listening
<1>4. AnswerIsOutcome'
  BY <1>1 DEF AnswerIsOutcome, ReaderInvariant
<1>5. NoLostWakeup'
  BY <1>1, <1>2 DEF NoLostWakeup, ReaderInvariant
<1> QED
  BY <1>1, <1>3, <1>4, <1>5 DEF ReaderInvariant, Repeats, Matches

\* What a reader finds in the table is the outcome of the id it is given.
LEMMA FindingKeepsReaders ==
  ASSUME TypeOK, TypeOK', TableInvariant, ReaderInvariant, Quiet,
         UNCHANGED outbox, NEW w \in Waiters
  PROVE  /\ \A i \in Ids : FoundById(w, i) => ReaderInvariant'
         /\ \A path \in Paths : FoundByPath(w, path) => ReaderInvariant'
<1>1. \A i \in Ids : LiveResult(i) => /\ outcome[i] = results[i].value
                                      /\ results[i].value \in Processes
  BY Absence DEF LiveResult, TableInvariant, ResultRow
<1>2. ASSUME NEW i \in Ids, FoundById(w, i) PROVE ReaderInvariant'
  <2>1. ById(i) \in Keys /\ ById(i).id = i
    BY DEF ById, Keys
  <2> QED
    BY <1>1, <1>2, <2>1, AnsweringKeepsReaders DEF FoundById
<1>3. ASSUME NEW path \in Paths, FoundByPath(w, path) PROVE ReaderInvariant'
  <2>1. ByPath(path) \in Keys /\ ByPath(path).by = "path"
    BY DEF ByPath, Keys
  <2>2. PICK i \in Ids : /\ LiveResult(i)
                         /\ Answered(w, ByPath(path), i, results[i].value)
    BY <1>3 DEF FoundByPath, LatestResult, ResultsAt
  <2> QED
    BY <1>1, <2>1, <2>2, AnsweringKeepsReaders
<1> QED
  BY <1>2, <1>3

\* A reader that changes its own record and keeps, or loses, the results.
LEMMA OneReaderMoves ==
  ASSUME TypeOK, TypeOK', ReaderInvariant, Quiet, UNCHANGED outbox,
         NEW w \in Waiters,
         \A u \in Waiters : u # w => waiter'[u] = waiter[u],
         Listening(w)' =>
           /\ waiter'[w].first = None \/ ( Listening(w)
                /\ waiter'[w].first = waiter[w].first
                /\ waiter'[w].key = waiter[w].key )
           /\ waiter'[w].pc = "waiting" => NothingFound(waiter'[w].key),
         waiter'[w].pc \in {"retiring", "done"} =>
           /\ outcome[waiter'[w].id] = waiter'[w].value
           /\ waiter'[w].key.by = "id" =>
                waiter'[w].key.id = waiter'[w].id
  PROVE  ReaderInvariant'
<1>1. \A j \in Ids : LiveResult(j)' => LiveResult(j)
  BY DEF LiveResult, Quiet, TypeOK, ResultRow, HasResult, NoRow
<1>2. outcome' = outcome
  BY DEF Quiet
<1>3. ASSUME NEW u \in Waiters, Listening(u)', (waiter[u].first # None)'
      PROVE  /\ Repeats(waiter[u].first)'
             /\ Matches(waiter[u].key, waiter[u].first)'
  BY <1>2, <1>3 DEF ReaderInvariant, Repeats, Matches, Listening
<1>4. AnswerIsOutcome'
  BY <1>2 DEF AnswerIsOutcome, ReaderInvariant
<1>5. NoLostWakeup'
  BY <1>1 DEF NoLostWakeup, ReaderInvariant, NothingFound, ById, Listening
<1> QED
  BY <1>2, <1>3, <1>4, <1>5 DEF ReaderInvariant, Repeats

\* A reader subscribes, looks, waits, is woken and retires the row without
\* missing its event.
LEMMA ReaderStepKeepsReaders ==
  ASSUME TypeOK, TypeOK', TableInvariant, ReaderInvariant,
         NEW w \in Waiters, ReaderStep(w)
  PROVE  ReaderInvariant'
<1>0. Quiet
  BY ReaderStepIsQuiet
<1>1. ASSUME NEW key \in Keys, NEW e \in Externals \cup {None},
             QueryResult(w, key, e)
      PROVE  ReaderInvariant'
  <2>1. CASE key.by = "id" /\ FoundById(w, key.id)
    BY <1>0, <1>1, <2>1, FindingKeepsReaders DEF QueryResult, Keys
  <2>2. CASE key.by = "path" /\ \E i \in ResultsOfRequest(key.path, e) :
                                  Answered(w, key, i, results[i].value)
    <3>1. PICK i \in Ids : /\ LiveResult(i)
                           /\ Answered(w, key, i, results[i].value)
      BY <2>2 DEF ResultsOfRequest, ResultsAt
    <3>2. outcome[i] = results[i].value /\ results[i].value \in Processes
      BY <3>1, Absence DEF LiveResult, TableInvariant, ResultRow
    <3> QED
      BY <1>0, <1>1, <2>2, <3>1, <3>2, AnsweringKeepsReaders DEF QueryResult
  <2>3. CASE key.by = "path" /\ FoundByPath(w, key.path)
    BY <1>0, <1>1, <2>3, FindingKeepsReaders DEF QueryResult, Keys
  <2> QED
    BY <1>1, <2>1, <2>2, <2>3 DEF QueryResult
<1>2. ASSUME NEW key \in Keys, Subscribe(w, key) PROVE ReaderInvariant'
  <2>1. /\ waiter'[w] = [pc |-> "subscribed", key |-> key, first |-> None]
        /\ \A u \in Waiters : u # w => waiter'[u] = waiter[u]
    BY <1>2 DEF Subscribe, TypeOK
  <2> QED
    BY <1>0, <1>2, <2>1, OneReaderMoves DEF Subscribe
<1>3. CASE Lookup(w)
  <2>1. waiter[w].key \in Keys /\ Listening(w)
    BY <1>3, ReaderFields DEF Lookup, Listening
  <2>2. CASE waiter[w].key.by = "id" /\ FoundById(w, waiter[w].key.id)
    BY <1>0, <1>3, <2>1, <2>2, FindingKeepsReaders DEF Lookup, Keys
  <2>3. CASE waiter[w].key.by = "path" /\ FoundByPath(w, waiter[w].key.path)
    BY <1>0, <1>3, <2>1, <2>3, FindingKeepsReaders DEF Lookup, Keys
  <2>4. CASE /\ NothingFound(waiter[w].key)
             /\ waiter' = [waiter EXCEPT ![w].pc = "waiting"]
    <3>1. /\ waiter'[w] = [waiter[w] EXCEPT !.pc = "waiting"]
          /\ \A u \in Waiters : u # w => waiter'[u] = waiter[u]
      BY <2>4 DEF TypeOK
    <3>2. /\ waiter'[w].pc = "waiting" /\ waiter'[w].key = waiter[w].key
          /\ waiter'[w].first = waiter[w].first
      BY <1>3, <3>1 DEF TypeOK, Lookup, Reader, NoReader
    <3> QED
      BY <1>0, <1>3, <2>1, <2>4, <3>1, <3>2, OneReaderMoves DEF Lookup
  <2> QED
    BY <1>3, <2>2, <2>3, <2>4 DEF Lookup
<1>4. CASE Wake(w)
  <2>1. /\ Listening(w) /\ waiter[w].first \in AckEvent
        /\ waiter[w].key \in Keys
    BY <1>4, ReaderFields DEF Wake, Listening
  <2>2. Repeats(waiter[w].first) /\ Matches(waiter[w].key, waiter[w].first)
    BY <1>4, <2>1 DEF ReaderInvariant, Wake
  <2>3. /\ waiter'[w].pc \in {"retiring", "done"}
        /\ waiter'[w].key = waiter[w].key
        /\ waiter'[w].id = waiter[w].first.id
        /\ waiter'[w].value = waiter[w].first.value
        /\ \A u \in Waiters : u # w => waiter'[u] = waiter[u]
    BY <1>4 DEF Wake, TypeOK
  <2> QED
    BY <1>0, <1>4, <2>2, <2>3, OneReaderMoves
       DEF Wake, Repeats, Matches, Listening
<1>5. CASE Retire(w)
  <2>1. /\ waiter'[w] = [waiter[w] EXCEPT !.pc = "done"]
        /\ \A u \in Waiters : u # w => waiter'[u] = waiter[u]
    BY <1>5 DEF Retire, TypeOK
  <2>2. /\ waiter'[w].pc = "done" /\ waiter'[w].key = waiter[w].key
        /\ waiter'[w].id = waiter[w].id
        /\ waiter'[w].value = waiter[w].value
    BY <1>5, <2>1 DEF TypeOK, Retire, Reader, NoReader
  <2>3. /\ outcome[waiter[w].id] = waiter[w].value
        /\ waiter[w].key.by = "id" => waiter[w].key.id = waiter[w].id
    BY <1>5 DEF ReaderInvariant, AnswerIsOutcome, Retire
  <2> QED
    BY <1>0, <1>5, <2>1, <2>2, <2>3, OneReaderMoves DEF Retire, Listening
<1>6. CASE GiveUp(w)
  <2>1. /\ waiter'[w].pc = "idle"
        /\ \A u \in Waiters : u # w => waiter'[u] = waiter[u]
    BY <1>6 DEF GiveUp, TypeOK, NoReader
  <2> QED
    BY <1>0, <1>6, <2>1, OneReaderMoves DEF GiveUp, Listening
<1> QED
  BY <1>1, <1>2, <1>3, <1>4, <1>5, <1>6 DEF ReaderStep

\* An event reaches every reader that listens for it.
LEMMA BroadcastKeepsReaders ==
  ASSUME TypeOK, TypeOK', ReaderInvariant, NEW e \in outbox, Broadcast(e)
  PROVE  ReaderInvariant'
<1>1. /\ e \in AckEvent /\ e # None /\ Repeats(e)
      /\ outbox' = outbox \ {e} /\ UNCHANGED <<results, outcome>>
      /\ \A w \in Waiters : waiter'[w] = Deliver(w, e)
  BY QueueAssumption DEF Broadcast, TypeOK, ReaderInvariant, tables
<1>2. ASSUME NEW w \in Waiters
      PROVE  \/ waiter'[w] = waiter[w]
             \/ /\ Listening(w) /\ Matches(waiter[w].key, e)
                /\ waiter'[w].pc = waiter[w].pc
                /\ waiter'[w].key = waiter[w].key
                /\ waiter'[w].first = e
  BY <1>1 DEF Deliver, TypeOK, Listening, Reader, NoReader
<1>3. ASSUME NEW w \in Waiters, Listening(w)', (waiter[w].first # None)'
      PROVE  /\ Repeats(waiter[w].first)'
             /\ Matches(waiter[w].key, waiter[w].first)'
  BY <1>1, <1>2, <1>3 DEF ReaderInvariant, Repeats, Matches, Listening
<1>4. AnswerIsOutcome'
  BY <1>1, <1>2 DEF AnswerIsOutcome, ReaderInvariant, Listening
<1>5. NoLostWakeup'
  <2> SUFFICES ASSUME NEW w \in Waiters, NEW i \in Ids,
                      waiter'[w].pc = "waiting", waiter'[w].key = ById(i),
                      LiveResult(i)'
               PROVE  waiter'[w].first # None \/ \E f \in outbox' : f.id = i
    BY DEF NoLostWakeup
  <2>1. /\ waiter[w].pc = "waiting" /\ waiter[w].key = ById(i)
        /\ LiveResult(i)
    BY <1>1, <1>2 DEF LiveResult, HasResult
  <2>2. CASE waiter[w].first # None
    BY <1>1, <1>2, <2>2
  <2>3. CASE waiter[w].first = None /\ e.id = i
    BY <1>1, <2>1, <2>3 DEF Deliver, Listening, Matches, ById, TypeOK, Reader,
                            NoReader
  <2>4. CASE waiter[w].first = None /\ e.id # i
    BY <1>1, <2>1, <2>4 DEF NoLostWakeup, ReaderInvariant
  <2> QED
    BY <2>2, <2>3, <2>4
<1> QED
  BY <1>1, <1>3, <1>4, <1>5 DEF ReaderInvariant, Repeats

\* Every step keeps the readers consistent with the tables.
LEMMA NextKeepsReaders ==
  ASSUME TypeOK, TypeOK', TableInvariant, ReaderInvariant, [Next]_vars
  PROVE  ReaderInvariant'
<1>1. ASSUME NEW p \in Processes, ProcessStep(p) PROVE ReaderInvariant'
  <2>1. ASSUME NEW path \in Paths, NEW e \in Externals \cup {None},
               NEW x \in Exclusives,
               Add(p, path, e, x) \/ AddAndRetrieve(p, path, e, x)
        PROVE  ReaderInvariant'
    BY <2>1, QueueingKeepsReaders DEF Add, AddAndRetrieve
  <2>2. ASSUME NEW path \in Paths, Retrieve(p, path) PROVE ReaderInvariant'
    BY <2>2, QueueingKeepsReaders DEF Retrieve
  <2>3. ASSUME NEW i \in Ids, NEW v \in {p, None}, Ack(p, i, v)
        PROVE  ReaderInvariant'
    <3>1. CASE AckAccepted(i, v)
      BY <2>3, <3>1, AckKeepsReaders
    <3>2. CASE AckRefused(i, v)
      BY <2>3, <3>2, OtherStepIsQuiet, QuietKeepsReaders DEF Ack, AckRefused
    <3> QED
      BY <2>3, <3>1, <3>2 DEF Ack
  <2>4. CASE Crash(p) \/ \E i \in Ids : Abandon(p, i)
    BY <2>4, OtherStepIsQuiet, QuietKeepsReaders DEF Crash, Abandon
  <2> QED
    BY <1>1, <2>1, <2>2, <2>3, <2>4 DEF ProcessStep
<1>2. ASSUME NEW key \in Keys, KeyStep(key) PROVE ReaderInvariant'
  BY <1>2, KeyStepIsQuiet, QuietKeepsReaders
     DEF KeyStep, Heartbeat, MergeExtra, Cancel
<1>3. ASSUME NEW w \in Waiters, ReaderStep(w) PROVE ReaderInvariant'
  BY <1>3, ReaderStepKeepsReaders
<1>4. ASSUME NEW e \in outbox, Broadcast(e) PROVE ReaderInvariant'
  BY <1>4, BroadcastKeepsReaders
<1>5. ASSUME NEW i \in Ids, ClockStep(i) PROVE ReaderInvariant'
  BY <1>5, ClockStepIsQuiet, QuietKeepsReaders
     DEF ClockStep, HeartbeatLapses, OrphanDeadline, ItemExpires,
         ResultExpires, Compact
<1>6. ASSUME \/ Clear \/ UNCHANGED vars
             \/ \E due \in SUBSET gc : CollectResults(due)
      PROVE  ReaderInvariant'
  BY <1>6, OtherStepIsQuiet, QuietKeepsReaders
     DEF Clear, vars, CollectResults
<1> QED
  BY <1>1, <1>2, <1>3, <1>4, <1>5, <1>6 DEF Next

\* Idle readers are consistent (Init).
LEMMA InitReaders == Init => ReaderInvariant
BY DEF Init, ReaderInvariant, Listening, NoReader, AnswerIsOutcome,
       NoLostWakeup

\* The inductive invariant of the queue.
THEOREM QueueConsistent == Spec => []QueueInvariant
<1>1. /\ TypeOK /\ TypeOK' /\ TableInvariant /\ ReaderInvariant /\ [Next]_vars
           => ReaderInvariant'
  BY NextKeepsReaders
<1>2. TypeOK /\ TableInvariant /\ ReaderInvariant => QueueInvariant
  BY DEF QueueInvariant, TableInvariant, ReaderInvariant, OutcomeRepeated,
         Repeats
<1> QED
  BY <1>1, <1>2, InitReaders, TypeCorrect, TablesConsistent, PTL DEF Spec

\* A reader by id is never left waiting for a result that is already stored
\* and whose event has been sent (queue_result_blocking).
THEOREM NoWakeupIsLost == Spec => []NoLostWakeup
<1>1. QueueInvariant => NoLostWakeup
  BY DEF QueueInvariant
<1> QED
  BY <1>1, QueueConsistent, PTL

\* Every answer a reader returns is what the accepted acknowledgement of that
\* very item said (queue_result, queue_result_blocking, queue_ack).
THEOREM AnswersAreOutcomes == Spec => []AnswerIsOutcome
<1>1. QueueInvariant => AnswerIsOutcome
  BY DEF QueueInvariant
<1> QED
  BY <1>1, QueueConsistent, PTL

-----------------------------------------------------------------------------
(* The concurrency budget of a prefix: how many items the claiming commands  *)
(* may make active.                                                          *)

\* Items and their counts are finite.
LEMMA CountedFinite ==
  ASSUME NEW pre, NEW st
  PROVE  /\ IsFiniteSet(Counted(pre, st))
         /\ Cardinality(Counted(pre, st)) \in Nat
<1>1. IsFiniteSet(Ids)
  BY QueueAssumption, FS_Interval DEF Ids
<1>2. Counted(pre, st) \subseteq Ids
  BY DEF Counted
<1> QED
  BY <1>1, <1>2, FS_Subset, FS_CardinalityType

\* One more element costs one at most.
LEMMA OneMore ==
  ASSUME NEW S, IsFiniteSet(S), NEW x, NEW T \in SUBSET (S \cup {x})
  PROVE  Cardinality(T) \in Nat /\ Cardinality(T) <= Cardinality(S) + 1
<1>1. /\ IsFiniteSet(S \cup {x})
      /\ Cardinality(S \cup {x}) <= Cardinality(S) + 1
      /\ Cardinality(S) \in Nat
  BY FS_AddElement, FS_CardinalityType
<1>2. IsFiniteSet(T) /\ Cardinality(T) <= Cardinality(S \cup {x})
  BY <1>1, FS_Subset
<1> QED
  BY <1>1, <1>2, FS_CardinalityType

\* A budgeted claim makes one more item of its own prefix active.
Claims(path, x) ==
  /\ \A pre : /\ Counted(pre, "active")'
                   \subseteq Counted(pre, "active") \cup {x}
              /\ pre # Prefix(path) =>
                   Counted(pre, "active")' \subseteq Counted(pre, "active")
  /\ Counted(Prefix(path), "pending")'
       \subseteq Counted(Prefix(path), "pending") \ At(path)

\* A row that is added active counts for its prefix.
LEMMA InsertClaims ==
  ASSUME TypeOK, TableInvariant, NEW p \in Processes, NEW path \in Paths,
         NEW e \in Externals \cup {None}, NEW x \in Exclusives,
         At(path) = {}, UNCHANGED expired,
         Insert(NewItem(path, e, PidOf(p), x, "active"))
  PROVE  Claims(path, nextId)
<1> DEFINE row == NewItem(path, e, PidOf(p), x, "active")
<1>1. /\ items'[nextId] = row
      /\ \A i \in Ids : i # nextId => items'[i] = items[i]
  BY InsertType DEF Insert, TypeOK
<1>2. row.path = path /\ row.status = "active"
  BY DEF NewItem
<1>3. \A i \in Ids : i # nextId => (Visible(i)' <=> Visible(i))
  BY <1>1 DEF Visible, HasItem
<1> QED
  BY <1>1, <1>2, <1>3 DEF Claims, Counted

\* A claimed item leaves the backlog and counts for its prefix.
LEMMA TryClaimClaims ==
  ASSUME TypeOK, TableInvariant, NEW p \in Processes, NEW path \in Paths,
         NEW i \in At(path), TryClaim(p, i), UNCHANGED expired
  PROVE  Claims(path, i)
<1>1. i \in Ids /\ Visible(i) /\ i \in payloads /\ items[i] \in ItemRow
  BY Absence DEF At, Visible, TableInvariant, PayloadOfVisibleItem
<1>2. Claimed(items[i]).path = items[i].path
  BY <1>1 DEF Claimed, ItemRow
<1>3. Claimed(items[i]).status = "active"
  BY <1>1 DEF Claimed, ItemRow
<1>4. /\ items'[i] = Claimed(items[i])
      /\ \A j \in Ids : j # i => items'[j] = items[j]
  BY <1>1 DEF TryClaim, TypeOK
<1>5. \A j \in Ids : Visible(j)' => Visible(j)
  BY <1>1, <1>4 DEF Visible, HasItem
<1>6. items[i].path = path /\ At(path) \subseteq {i}
  BY DEF At, TableInvariant, OneItemPerPath
<1>7. Counted(Prefix(path), "pending")'
        \subseteq Counted(Prefix(path), "pending") \ At(path)
  BY <1>3, <1>4, <1>5, <1>6 DEF Counted
<1>8. ASSUME NEW pre
      PROVE  /\ Counted(pre, "active")'
                  \subseteq Counted(pre, "active") \cup {i}
             /\ pre # Prefix(path) =>
                  Counted(pre, "active")' \subseteq Counted(pre, "active")
  BY <1>2, <1>4, <1>5, <1>6 DEF Counted
<1> QED
  BY <1>7, <1>8 DEF Claims

\* A claim below the limit keeps every prefix within it.
LEMMA ClaimsWithinBudget ==
  ASSUME ConcurrencyRespected, NEW path \in Paths, NEW x, Claims(path, x),
         Cardinality(Counted(Prefix(path), "active")) < Concurrency
  PROVE  ConcurrencyRespected'
<1> SUFFICES ASSUME NEW q \in Paths
             PROVE  Cardinality(Counted(Prefix(q), "active"))' <= Concurrency
  BY DEF ConcurrencyRespected
<1>1. CASE Prefix(q) = Prefix(path)
  <2>1. ASSUME NEW pre, pre = Prefix(path)
        PROVE  Cardinality(Counted(pre, "active")') <= Concurrency
    <3>1. Counted(pre, "active")' \in SUBSET (Counted(pre, "active") \cup {x})
      BY DEF Claims
    <3>2. Cardinality(Counted(pre, "active")) < Concurrency
      BY <2>1
    <3> QED
      BY <3>1, <3>2, CountedFinite, OneMore, QueueAssumption
  <2> QED
    BY <1>1, <2>1 DEF Prefix
<1>2. CASE Prefix(q) # Prefix(path)
  <2>1. Counted(Prefix(q), "active")' \in SUBSET Counted(Prefix(q), "active")
    BY <1>2 DEF Claims, Prefix
  <2>2. Cardinality(Counted(Prefix(q), "active")')
          <= Cardinality(Counted(Prefix(q), "active"))
    BY <2>1, CountedFinite, FS_Subset
  <2>3. /\ Cardinality(Counted(Prefix(q), "active")') \in Nat
        /\ Cardinality(Counted(Prefix(q), "active")) \in Nat
    BY <2>1, CountedFinite, FS_Subset, FS_CardinalityType
  <2> QED
    BY <2>2, <2>3, QueueAssumption DEF ConcurrencyRespected, Prefix
<1> QED
  BY <1>1, <1>2

\* The budget of QUEUE ADD_AND_RETRIEVE leaves an active slot free.
LEMMA SpareSlotIsFree ==
  ASSUME NEW path \in Paths, SpareSlot(path)
  PROVE  /\ Cardinality(Counted(Prefix(path), "active")) < Concurrency
         /\ IsFiniteSet(Counted(Prefix(path), "pending") \ At(path))
<1> DEFINE backlog == Counted(Prefix(path), "pending") \ At(path)
<1>1. IsFiniteSet(backlog) /\ Cardinality(backlog) \in Nat
  BY CountedFinite, FS_Subset, FS_CardinalityType
<1> QED
  BY <1>1, CountedFinite, QueueAssumption DEF SpareSlot

\* A step that makes no other item active keeps every prefix within it.
LEMMA NoClaimKeepsBudget ==
  ASSUME ConcurrencyRespected,
         \A i \in Ids : Visible(i)' /\ items'[i].status = "active" =>
           /\ Visible(i) /\ items[i].status = "active"
           /\ items'[i].path = items[i].path
  PROVE  ConcurrencyRespected'
<1> SUFFICES ASSUME NEW q \in Paths
             PROVE  Cardinality(Counted(Prefix(q), "active"))' <= Concurrency
  BY DEF ConcurrencyRespected
<1>1. Counted(Prefix(q), "active")' \in SUBSET Counted(Prefix(q), "active")
  BY DEF Counted, Prefix
<1>2. Cardinality(Counted(Prefix(q), "active")')
        <= Cardinality(Counted(Prefix(q), "active"))
  BY <1>1, CountedFinite, FS_Subset
<1>3. /\ Cardinality(Counted(Prefix(q), "active")') \in Nat
      /\ Cardinality(Counted(Prefix(q), "active")) \in Nat
  BY <1>1, CountedFinite, FS_Subset, FS_CardinalityType
<1> QED
  BY <1>2, <1>3, QueueAssumption DEF ConcurrencyRespected, Prefix

\* Both claiming commands respect the budget, and nothing else claims.
LEMMA NextKeepsBudget ==
  ASSUME TypeOK, TableInvariant, ConcurrencyRespected, [Next]_vars
  PROVE  ConcurrencyRespected'
<1>1. ASSUME Quiet PROVE ConcurrencyRespected'
  <2>1. \A i \in Ids : HasItem(i)' => items'[i] # NoRow
    BY DEF HasItem, NoRow
  <2>2. \A i \in Ids : items[i] # NoRow => HasItem(i)
    BY Absence
  <2> QED
    BY <1>1, <2>1, <2>2, NoClaimKeepsBudget DEF Quiet, Visible
<1>2. ASSUME NEW p \in Processes, NEW path \in Paths,
             NEW e \in Externals \cup {None}, NEW x \in Exclusives,
             Insert(NewItem(path, e, PidOf(p), x, "pending")),
             UNCHANGED expired
      PROVE  ConcurrencyRespected'
  <2>1. /\ items'[nextId].status = "pending"
        /\ \A i \in Ids : i # nextId => items'[i] = items[i]
    BY <1>2, InsertType DEF Insert, NewItem, TypeOK
  <2> QED
    BY <1>2, <2>1, NoClaimKeepsBudget DEF Visible, HasItem
<1>3. ASSUME NEW p \in Processes, ProcessStep(p) PROVE ConcurrencyRespected'
  <2>1. ASSUME NEW path \in Paths, NEW e \in Externals \cup {None},
               NEW x \in Exclusives, Add(p, path, e, x)
        PROVE  ConcurrencyRespected'
    BY <1>2, <2>1 DEF Add
  <2>2. ASSUME NEW path \in Paths, NEW e \in Externals \cup {None},
               NEW x \in Exclusives, AddAndRetrieve(p, path, e, x)
        PROVE  ConcurrencyRespected'
    <3>1. CASE AddClaimed(p, path, e, x)
      <4>1. Claims(path, nextId)
        BY <2>2, <3>1, InsertClaims DEF AddAndRetrieve, AddClaimed
      <4> QED
        BY <3>1, <4>1, SpareSlotIsFree, ClaimsWithinBudget DEF AddClaimed
    <3>2. CASE AddUnclaimed(p, path, e, x)
      BY <1>2, <2>2, <3>2 DEF AddAndRetrieve, AddUnclaimed
    <3>3. CASE ClaimQueued(p, path)
      <4>1. PICK i \in At(path) : TryClaim(p, i)
        BY <3>3 DEF ClaimQueued
      <4>2. Claims(path, i)
        BY <2>2, <4>1, TryClaimClaims DEF AddAndRetrieve
      <4> QED
        BY <3>3, <4>2, SpareSlotIsFree, ClaimsWithinBudget DEF ClaimQueued
    <3> QED
      BY <2>2, <3>1, <3>2, <3>3 DEF AddAndRetrieve
  <2>3. ASSUME NEW path \in Paths, Retrieve(p, path)
        PROVE  ConcurrencyRespected'
    <3>1. PICK i \in At(path) : TryClaim(p, i)
      BY <2>3 DEF Retrieve
    <3>2. Claims(path, i)
      BY <2>3, <3>1, TryClaimClaims DEF Retrieve
    <3> QED
      BY <2>3, <3>2, ClaimsWithinBudget DEF Retrieve
  <2>4. ASSUME NEW i \in Ids, NEW v \in {p, None}, Ack(p, i, v)
        PROVE  ConcurrencyRespected'
    <3>1. CASE AckAccepted(i, v)
      BY <2>4, <3>1, NoClaimKeepsBudget
         DEF Ack, AckAccepted, Visible, HasItem, NoRow, TypeOK
    <3>2. CASE AckRefused(i, v)
      BY <1>1, <2>4, <3>2, OtherStepIsQuiet
    <3> QED
      BY <2>4, <3>1, <3>2 DEF Ack
  <2>5. CASE Crash(p) \/ \E i \in Ids : Abandon(p, i)
    BY <1>1, <2>5, OtherStepIsQuiet
  <2> QED
    BY <1>3, <2>1, <2>2, <2>3, <2>4, <2>5 DEF ProcessStep
<1> QED
  BY <1>1, <1>3, KeyStepIsQuiet, ReaderStepIsQuiet, ClockStepIsQuiet,
     OtherStepIsQuiet DEF Next

\* The items of a prefix that are being executed never exceed the concurrency
\* that its processes pass (queue_prefix_counters, queue_retrieve_by_path,
\* queue_add_and_retrieve).
THEOREM BudgetRespected == Spec => []ConcurrencyRespected
<1>1. Init => ConcurrencyRespected
  <2> SUFFICES ASSUME Init, NEW path \in Paths
               PROVE  Cardinality(Counted(Prefix(path), "active"))
                        <= Concurrency
    BY DEF ConcurrencyRespected
  <2>1. Counted(Prefix(path), "active") = {}
    BY DEF Init, Counted, Visible, HasItem, NoRow
  <2> QED
    BY <2>1, FS_EmptySet, QueueAssumption
<1>2. TypeOK /\ TableInvariant /\ ConcurrencyRespected /\ [Next]_vars
        => ConcurrencyRespected'
  BY NextKeepsBudget
<1> QED
  BY <1>1, <1>2, TypeCorrect, TablesConsistent, PTL DEF Spec

\* A step of QUEUE ADD_AND_RETRIEVE that claims leaves a slot for everyone who
\* is still pending.
LEMMA ClaimLeavesSlots ==
  ASSUME TypeOK, TableInvariant, NEW p \in Processes, NEW path \in Paths,
         NEW e \in Externals \cup {None}, NEW x \in Exclusives,
         running' # running, AddAndRetrieve(p, path, e, x)
  PROVE  Cardinality(Counted(Prefix(path), "active"))' +
           Cardinality(Counted(Prefix(path), "pending"))' <= Concurrency
<1> DEFINE active  == Counted(Prefix(path), "active")
           backlog == Counted(Prefix(path), "pending") \ At(path)
<1>1. SpareSlot(path) /\ \E i : Claims(path, i)
  <2>1. CASE AddClaimed(p, path, e, x)
    BY <2>1, InsertClaims DEF AddAndRetrieve, AddClaimed
  <2>2. CASE ClaimQueued(p, path)
    BY <2>2, TryClaimClaims DEF AddAndRetrieve, ClaimQueued
  <2> QED
    BY <2>1, <2>2 DEF AddAndRetrieve, AddUnclaimed
<1>2. PICK i : Claims(path, i)
  BY <1>1
<1>3. /\ Cardinality(active) + Cardinality(backlog) < Concurrency
      /\ IsFiniteSet(backlog) /\ Cardinality(backlog) \in Nat
      /\ IsFiniteSet(active) /\ Cardinality(active) \in Nat
  BY <1>1, SpareSlotIsFree, CountedFinite, FS_CardinalityType DEF SpareSlot
<1>4. /\ Cardinality(active') \in Nat
      /\ Cardinality(active') <= Cardinality(active) + 1
  <2>1. active' \in SUBSET (active \cup {i})
    BY <1>2 DEF Claims, Prefix
  <2> QED
    BY <1>3, <2>1, OneMore
<1>5. /\ Cardinality(Counted(Prefix(path), "pending")') \in Nat
      /\ Cardinality(Counted(Prefix(path), "pending")')
           <= Cardinality(backlog)
  <2>1. Counted(Prefix(path), "pending")' \in SUBSET backlog
    BY <1>2 DEF Claims, Prefix
  <2> QED
    BY <1>3, <2>1, FS_Subset, FS_CardinalityType
<1> QED
  BY <1>3, <1>4, <1>5, QueueAssumption DEF Prefix

\* QUEUE ADD_AND_RETRIEVE never jumps over a pending item that would have had
\* a slot (queue_add_and_retrieve).
THEOREM NoJumping == Spec => ClaimJumpsOverNoOne
<1> DEFINE Orderly ==
      \A p \in Processes, path \in Paths, e \in Externals \cup {None},
         x \in Exclusives :
        running' # running /\ AddAndRetrieve(p, path, e, x) =>
          Cardinality(Counted(Prefix(path), "active"))' +
            Cardinality(Counted(Prefix(path), "pending"))' <= Concurrency
<1>1. TypeOK /\ TableInvariant /\ [Next]_vars => Orderly
  BY ClaimLeavesSlots
<1>2. ClaimJumpsOverNoOne <=> [][Orderly]_vars
  BY DEF ClaimJumpsOverNoOne
<1> HIDE DEF Orderly
<1> QED
  BY <1>1, <1>2, TypeCorrect, TablesConsistent, PTL DEF Spec

-----------------------------------------------------------------------------
(* Results: what may remove one.                                            *)

\* Commands that work on items, and readers that only mark rows, remove no
\* result.
LEMMA MarkingKeepsResults ==
  ASSUME TypeOK, NEW i \in Ids, HasResult(i),
         \/ UNCHANGED results
         \/ \E j \in Ids : HasResult(j) /\ MarkDeleted(j)
         \/ \E j \in Ids, value \in Processes \cup {None} :
              AckAccepted(j, value)
  PROVE  HasResult(i)'
BY DEF TypeOK, HasResult, MarkDeleted, AckAccepted, ResultRow, NoRow

\* A reader removes a result only when it was woken and asked by path.
LEMMA ReaderRemovesOwnResult ==
  ASSUME TypeOK, NEW w \in Waiters, ReaderStep(w),
         NEW i \in Ids, HasResult(i), ~HasResult(i)'
  PROVE  /\ waiter[w].pc = "retiring" /\ waiter[w].id = i
         /\ waiter[w].key.by = "path"
<1>1. ASSUME NEW path \in Paths, FoundByPath(w, path) PROVE FALSE
  BY <1>1, MarkingKeepsResults
     DEF FoundByPath, LatestResult, ResultsAt, LiveResult
<1>2. ASSUME NEW key \in Keys, NEW e \in Externals \cup {None},
             QueryResult(w, key, e)
      PROVE  FALSE
  BY <1>1, <1>2, MarkingKeepsResults DEF QueryResult, FoundById, Keys
<1>3. ASSUME Lookup(w) PROVE FALSE
  <2>1. waiter[w].key \in Keys
    BY <1>3 DEF Lookup, TypeOK, Reader, NoReader
  <2> QED
    BY <1>1, <1>3, <2>1, MarkingKeepsResults DEF Lookup, FoundById, Keys
<1>4. ASSUME \/ \E key \in Keys : Subscribe(w, key)
             \/ Wake(w) \/ GiveUp(w)
      PROVE  FALSE
  BY <1>4, MarkingKeepsResults DEF Subscribe, Wake, GiveUp, tables
<1>5. Retire(w)
  BY <1>2, <1>3, <1>4 DEF ReaderStep
<1>6. waiter[w].pc = "retiring" /\ waiter[w].id \in Ids
  BY <1>5 DEF Retire, TypeOK, Reader, NoReader
<1>7. waiter[w].key.by = "path"
  BY <1>5, <1>6, MarkingKeepsResults DEF Retire
<1>8. waiter[w].id = i
  BY <1>5, <1>6, <1>7 DEF Retire, TypeOK, HasResult
<1> QED
  BY <1>6, <1>7, <1>8

\* Time removes expired results only, and nothing else does but the delayed
\* deletion, a truncate, and the reader by path.
LEMMA RemovedForAReason ==
  ASSUME TypeOK, [Next]_vars, NEW i \in Ids, HasResult(i), ~HasResult(i)'
  PROVE  \/ results[i].expired \/ i \in gc \/ items' = [j \in Ids |-> NoRow]
         \/ \E w \in Waiters : /\ waiter[w].pc = "retiring" /\ waiter[w].id = i
                               /\ waiter[w].key.by = "path"
<1>1. ASSUME NEW p \in Processes, ProcessStep(p) PROVE FALSE
  <2>1. ASSUME NEW path \in Paths, NEW e \in Externals \cup {None},
               NEW x \in Exclusives,
               Add(p, path, e, x) \/ AddAndRetrieve(p, path, e, x)
        PROVE  FALSE
    BY <2>1, MarkingKeepsResults DEF Add, AddAndRetrieve
  <2>2. ASSUME NEW path \in Paths, Retrieve(p, path) PROVE FALSE
    BY <2>2, MarkingKeepsResults DEF Retrieve
  <2>3. ASSUME NEW j \in Ids, NEW v \in {p, None}, Ack(p, j, v) PROVE FALSE
    BY <2>3, MarkingKeepsResults DEF Ack, AckRefused
  <2>4. CASE Crash(p) \/ \E j \in Ids : Abandon(p, j)
    BY <2>4, MarkingKeepsResults DEF Crash, Abandon, tables
  <2> QED
    BY <1>1, <2>1, <2>2, <2>3, <2>4 DEF ProcessStep
<1>2. ASSUME NEW key \in Keys, KeyStep(key) PROVE FALSE
  BY <1>2, MarkingKeepsResults DEF KeyStep, Heartbeat, MergeExtra, Cancel
<1>3. CASE Clear
  BY <1>3 DEF Clear
<1>4. CASE \E e \in outbox : Broadcast(e)
  BY <1>4, MarkingKeepsResults DEF Broadcast, tables
<1>5. CASE \E due \in SUBSET gc : CollectResults(due)
  BY <1>5 DEF CollectResults, HasResult
<1>6. ASSUME NEW j \in Ids, ClockStep(j) PROVE results[i].expired
  <2>1. CASE HeartbeatLapses(j) \/ OrphanDeadline(j) \/ ItemExpires(j)
    BY <2>1, MarkingKeepsResults
       DEF HeartbeatLapses, OrphanDeadline, ItemExpires
  <2>2. CASE ResultExpires(j)
    BY <2>2 DEF ResultExpires, LiveResult, HasResult, TypeOK, ResultRow
  <2>3. CASE Compact(j)
    BY <2>3 DEF Compact, HasResult, TypeOK
  <2> QED
    BY <1>6, <2>1, <2>2, <2>3 DEF ClockStep
<1>7. CASE UNCHANGED vars
  BY <1>7, MarkingKeepsResults DEF vars, tables
<1> QED
  BY <1>1, <1>2, <1>3, <1>4, <1>5, <1>6, <1>7, ReaderRemovesOwnResult DEF Next

\* A result stays until its delayed deletion or its expiry, or until a reader
\* that was woken by path takes it: a reader by id, or one that finds a row,
\* never takes it away from the others (queue_result_blocking,
\* get_result_by_path, GCTask::DeleteQueue).
THEOREM ResultsAreKept == Spec => ResultsKeptForReaders
<1> DEFINE Kept ==
      \A i \in Ids : HasResult(i) /\ ~HasResult(i)' =>
        \/ results[i].expired \/ i \in gc \/ items' = [j \in Ids |-> NoRow]
        \/ \E w \in Waiters : /\ waiter[w].pc = "retiring" /\ waiter[w].id = i
                              /\ waiter[w].key.by = "path"
<1>1. TypeOK /\ [Next]_vars => Kept
  BY RemovedForAReason
<1>2. ResultsKeptForReaders <=> [][Kept]_vars
  BY DEF ResultsKeptForReaders
<1> HIDE DEF Kept
<1> QED
  BY <1>1, <1>2, TypeCorrect, PTL DEF Spec

-----------------------------------------------------------------------------
(* What a row is stays what it is.  No command changes the path, the owner or *)
(* the exclusivity of an item, an item is never pending again, and what is    *)
(* given to a process was pending.                                            *)

RowPassesOn(i) ==
  /\ HasItem(i)' =>
       /\ HasItem(i)
       /\ items'[i].path      = items[i].path
       /\ items'[i].owner     = items[i].owner
       /\ items'[i].exclusive = items[i].exclusive
       /\ \/ items'[i].status = items[i].status
          \/ items[i].status = "pending" /\ items'[i].status = "active"
  /\ \A q \in Processes :
       i \in running'[q] => i \in running[q] \/ items[i].status = "pending"

\* A step that adds no row, and neither claims nor gives one away.
LEMMA QuietPassesRows ==
  ASSUME Quiet, TypeOK, TypeOK', NEW i \in Ids
  PROVE  RowPassesOn(i)
BY Absence DEF Quiet, RowPassesOn, TypeOK, HasItem, NoRow, ItemRow

\* A claim makes the row active and changes nothing else that lasts.
LEMMA ClaimPassesRows ==
  ASSUME TypeOK, NEW p \in Processes, NEW k \in Ids, TryClaim(p, k),
         NEW i \in Ids
  PROVE  RowPassesOn(i)
<1>1. items[k] \in ItemRow
  BY Absence DEF TryClaim, HasItem
<1>2. CASE k \in payloads
  <2>1. /\ items'[i] = IF i = k THEN Claimed(items[k]) ELSE items[i]
        /\ \A q \in Processes :
             running'[q] = IF q = p THEN running[p] \cup {k} ELSE running[q]
    BY <1>2 DEF TryClaim, Execute, TypeOK
  <2> QED
    BY <1>1, <2>1 DEF TryClaim, RowPassesOn, HasItem, Claimed, ItemRow
<1>3. CASE k \notin payloads
  <2>1. items'[i] = IF i = k THEN NoRow ELSE items[i]
    BY <1>3 DEF TryClaim, TypeOK
  <2> QED
    BY <1>3, <2>1 DEF TryClaim, RowPassesOn, HasItem, NoRow
<1> QED
  BY <1>2, <1>3

\* An acknowledgement keeps its row or removes it.
LEMMA AckPassesRows ==
  ASSUME TypeOK, NEW p \in Processes, NEW k \in Ids,
         NEW v \in Processes \cup {None}, Ack(p, k, v), NEW i \in Ids
  PROVE  RowPassesOn(i)
<1>1. items'[i] \in {items[i], NoRow}
  BY DEF Ack, AckAccepted, AckRefused, TypeOK
<1>2. \A q \in Processes : running'[q] \subseteq running[q]
  BY DEF Ack, TypeOK
<1> QED
  BY <1>1, <1>2 DEF RowPassesOn, HasItem, NoRow

\* An insert touches the next row id only.
LEMMA InsertPassesRows ==
  ASSUME TypeOK, NEW p \in Processes, NEW row, Insert(row),
         UNCHANGED running \/ Execute(p, nextId),
         NEW i \in Ids, i # nextId
  PROVE  RowPassesOn(i)
<1>1. items'[i] = items[i]
  BY DEF Insert, TypeOK
<1>2. \A q \in Processes : i \in running'[q] => i \in running[q]
  BY DEF Execute, TypeOK
<1> QED
  BY <1>1, <1>2 DEF RowPassesOn, HasItem

\* Every row that is not being added passes on, and row ids only grow.
LEMMA RowsPassOn ==
  ASSUME TypeOK, [Next]_vars
  PROVE  /\ \A i \in Ids : i # nextId => RowPassesOn(i)
         /\ nextId' >= nextId
<1> DEFINE PassOn == /\ \A i \in Ids : i # nextId => RowPassesOn(i)
                     /\ nextId' >= nextId
<1>0. TypeOK'
  BY NextKeepsType
<1>q. Quiet => PassOn
  BY <1>0, QuietPassesRows DEF Quiet, TypeOK
<1>1. ASSUME NEW p \in Processes, ProcessStep(p) PROVE PassOn
  <2>1. ASSUME NEW row, Insert(row),
               UNCHANGED running \/ Execute(p, nextId)
        PROVE  PassOn
    <3>1. \A i \in Ids : i # nextId => RowPassesOn(i)
      BY <2>1, InsertPassesRows
    <3>2. nextId' >= nextId
      BY <2>1, QueueAssumption DEF Insert, TypeOK
    <3> QED
      BY <3>1, <3>2
  <2>2. ASSUME NEW path \in Paths, NEW k \in At(path), TryClaim(p, k)
        PROVE  PassOn
    <3>1. k \in Ids
      BY DEF At
    <3> QED
      BY <2>2, <3>1, ClaimPassesRows DEF TryClaim, TypeOK
  <2>3. ASSUME NEW path \in Paths, NEW e \in Externals \cup {None},
               NEW x \in Exclusives,
               Add(p, path, e, x) \/ AddAndRetrieve(p, path, e, x)
        PROVE  PassOn
    BY <2>1, <2>2, <2>3
       DEF Add, AddAndRetrieve, AddClaimed, AddUnclaimed, ClaimQueued
  <2>4. ASSUME NEW path \in Paths, Retrieve(p, path) PROVE PassOn
    BY <2>2, <2>4 DEF Retrieve
  <2>5. ASSUME NEW k \in Ids, NEW v \in {p, None}, Ack(p, k, v) PROVE PassOn
    <3>1. v \in Processes \cup {None}
      OBVIOUS
    <3>2. \A i \in Ids : RowPassesOn(i)
      BY <2>5, <3>1, AckPassesRows
    <3>3. nextId' >= nextId
      BY <2>5 DEF Ack, TypeOK
    <3> QED
      BY <3>2, <3>3
  <2>6. CASE Crash(p) \/ \E i \in Ids : Abandon(p, i)
    BY <1>q, <2>6, OtherStepIsQuiet
  <2> QED
    BY <1>1, <2>3, <2>4, <2>5, <2>6 DEF ProcessStep
<1>2. ASSUME NEW key \in Keys, KeyStep(key) PROVE PassOn
  BY <1>q, <1>2, KeyStepIsQuiet
<1>3. ASSUME NEW w \in Waiters, ReaderStep(w) PROVE PassOn
  BY <1>q, <1>3, ReaderStepIsQuiet
<1>4. ASSUME NEW i \in Ids, ClockStep(i) PROVE PassOn
  BY <1>q, <1>4, ClockStepIsQuiet
<1>5. ASSUME \/ Clear \/ UNCHANGED vars
             \/ \E due \in SUBSET gc : CollectResults(due)
             \/ \E e \in outbox : Broadcast(e)
      PROVE  PassOn
  BY <1>q, <1>5, OtherStepIsQuiet
<1> HIDE DEF PassOn
<1>6. PassOn
  BY <1>1, <1>2, <1>3, <1>4, <1>5 DEF Next
<1> QED
  BY <1>6 DEF PassOn

-----------------------------------------------------------------------------
(* The contract: every step of the queue is a step of JobContract or leaves  *)
(* its variables alone.                                                      *)

phase  == [i \in Ids |-> PhaseOf(i)]
answer == [w \in Waiters |-> AnswerOf(w)]

\* An empty queue is the initial state of the contract (Init).
LEMMA InitImplements == Init => Contract!Init
BY DEF Init, Contract!Init, PhaseOf, AnswerOf, HasItem, NoRow, NoReader, Ids,
       Open, Contract!Open

\* An id is done exactly when it has an outcome, and has a row before that.
LEMMA PhaseFacts ==
  ASSUME QueueInvariant, NEW i \in Ids
  PROVE  /\ phase[i] = PhaseOf(i)
         /\ HasItem(i) => /\ PhaseOf(i) = items[i].status
                          /\ items[i].status \in {"pending", "active"}
         /\ i >= nextId => PhaseOf(i) = "new"
         /\ outcome[i] # Open => PhaseOf(i) = "done"
         /\ outcome[i] = Open /\ ~HasItem(i) => PhaseOf(i) \in {"new", "lost"}
<1>1. TypeOK /\ UnusedIds /\ OutcomeRepeated
  BY DEF QueueInvariant
<1>2. HasItem(i) => items[i].status \in {"pending", "active"}
  BY <1>1, Absence DEF ItemRow
<1>3. i >= nextId => ~HasItem(i) /\ ~(i < nextId) /\ outcome[i] = Open
  BY <1>1 DEF UnusedIds, HasItem, NoRow, TypeOK, Ids
<1> QED
  BY <1>1, <1>2, <1>3 DEF phase, PhaseOf, OutcomeRepeated

\* A quiet step that moves no reader and no process drops some jobs at most.
LEMMA QuietLoses ==
  ASSUME QueueInvariant, TypeOK', Quiet, UNCHANGED running,
         \A w \in Waiters : AnswerOf(w)' = AnswerOf(w)
  PROVE  Contract!Lose
<1> DEFINE js == {i \in Ids : HasItem(i) /\ ~HasItem(i)'}
<1>1. ASSUME NEW i \in Ids
      PROVE  /\ i \in js => PhaseOf(i) \in {"pending", "active"}
             /\ PhaseOf(i)' = IF i \in js THEN "lost" ELSE PhaseOf(i)
  <2>1. TypeOK /\ UnusedIds /\ OutcomeRepeated
    BY DEF QueueInvariant
  <2>2. /\ HasItem(i)' => HasItem(i) /\ items'[i].status = items[i].status
        /\ outcome'[i] = outcome[i] /\ nextId' = nextId
    BY <2>1, Absence DEF Quiet, HasItem, TypeOK, ItemRow, NoRow
  <2>3. HasItem(i) => i < nextId /\ outcome[i] = Open
    BY <2>1 DEF UnusedIds, HasItem, NoRow, OutcomeRepeated, TypeOK, Ids
  <2> QED
    BY <2>2, <2>3, PhaseFacts DEF PhaseOf
<1>2. phase' = [i \in Ids |-> IF i \in js THEN "lost" ELSE phase[i]]
  BY <1>1 DEF phase
<1>3. js \in SUBSET {i \in Ids : phase[i] \in {"pending", "active"}}
  BY <1>1 DEF phase
<1>4. answer' = answer /\ outcome' = outcome
  BY DEF answer, Quiet
<1> QED
  BY <1>2, <1>3, <1>4 DEF Contract!Lose, phase, answer

\* A new row is a submitted job, claimed at once or not.
LEMMA InsertSubmits ==
  ASSUME QueueInvariant, TypeOK', NEW p \in Processes, NEW path \in Paths,
         NEW e \in Externals \cup {None}, NEW x \in Exclusives,
         NEW st \in {"pending", "active"},
         Insert(NewItem(path, e, PidOf(p), x, st)),
         UNCHANGED <<outcome, waiter>>,
         \/ st = "pending" /\ UNCHANGED running
         \/ st = "active" /\ Execute(p, nextId)
  PROVE  Contract!Submit(nextId) /\ nextId \in Ids
<1>1. TypeOK /\ UnusedIds
  BY DEF QueueInvariant
<1>2. nextId \in Ids
  BY <1>1, InsertType
<1>3. /\ items' = [items EXCEPT ![nextId] = NewItem(path, e, PidOf(p), x, st)]
      /\ nextId' = nextId + 1
  BY DEF Insert
<1>4. NewItem(path, e, PidOf(p), x, st).status = st
  BY DEF NewItem
<1>5. phase[nextId] = "new" /\ outcome[nextId] = Open
  BY <1>1, <1>2, PhaseFacts DEF UnusedIds, TypeOK
<1>6. ASSUME NEW i \in Ids
      PROVE  PhaseOf(i)' = IF i = nextId THEN st ELSE PhaseOf(i)
  <2>1. CASE i = nextId
    BY <1>1, <1>2, <1>3, <1>4, <1>5, <2>1 DEF PhaseOf, HasItem, TypeOK
  <2>2. CASE i # nextId
    <3>1. items'[i] = items[i] /\ outcome'[i] = outcome[i]
      BY <1>1, <1>3, <2>2 DEF TypeOK
    <3>2. i < nextId' <=> i < nextId
      BY <1>2, <1>3, <2>2 DEF Ids
    <3> QED
      BY <2>2, <3>1, <3>2 DEF PhaseOf, HasItem
  <2> QED
    BY <2>1, <2>2
<1>7. phase' = [phase EXCEPT ![nextId] = st]
  BY <1>2, <1>6 DEF phase
<1>8. answer' = answer
  BY DEF answer, AnswerOf
<1> QED
  BY <1>2, <1>5, <1>7, <1>8
     DEF Contract!Submit, Contract!Give, Execute, phase, answer

\* Claiming a queued item is claiming the job; the payload is always there.
LEMMA ClaimClaims ==
  ASSUME QueueInvariant, TypeOK', NEW p \in Processes, NEW path \in Paths,
         NEW i \in At(path), TryClaim(p, i), UNCHANGED <<outcome, waiter>>
  PROVE  Contract!Claim(p, i) /\ i \in Ids
<1>1. /\ TypeOK /\ i \in Ids /\ HasItem(i) /\ items[i] \in ItemRow
      /\ i \in payloads
  BY Absence DEF QueueInvariant, At, Visible, PayloadOfVisibleItem
<1>2. /\ items' = [items EXCEPT ![i] = Claimed(@)] /\ Execute(p, i)
      /\ items[i].status = "pending" /\ nextId' = nextId
  BY <1>1 DEF TryClaim
<1>3. Claimed(items[i]).status = "active"
  BY <1>1 DEF Claimed, ItemRow
<1>4. /\ HasItem(i)' /\ items'[i].status = "active"
      /\ \A j \in Ids : j # i => items'[j] = items[j]
  BY <1>1, <1>2, <1>3 DEF TypeOK, HasItem
<1>5. outcome[i] = Open /\ phase[i] = "pending"
  BY <1>1, <1>2, PhaseFacts DEF QueueInvariant, OutcomeRepeated
<1>6. \A j \in Ids : PhaseOf(j)' = IF j = i THEN "active" ELSE PhaseOf(j)
  BY <1>1, <1>2, <1>4, <1>5 DEF PhaseOf, HasItem
<1>7. phase' = [phase EXCEPT ![i] = "active"]
  BY <1>1, <1>6 DEF phase
<1>8. answer' = answer
  BY DEF answer, AnswerOf
<1> QED
  BY <1>1, <1>2, <1>5, <1>7, <1>8
     DEF Contract!Claim, Contract!Give, Execute, phase, answer

\* An accepted acknowledgement finishes the job of the process that reports.
LEMMA AckFinishes ==
  ASSUME QueueInvariant, TypeOK', NEW p \in Processes, NEW i \in Ids,
         NEW v \in {p, None}, Ack(p, i, v), AckAccepted(i, v)
  PROVE  Contract!Finish(p, i)
<1>1. /\ TypeOK /\ HasItem(i) /\ i \in running[p]
      /\ items[i].status # "pending"
  BY DEF QueueInvariant, Ack, AckAccepted, GivenIsNotPending
<1>2. phase[i] = "active"
  BY <1>1, PhaseFacts
<1>3. /\ outcome' = [outcome EXCEPT ![i] = v] /\ v # Open
      /\ running' = [running EXCEPT ![p] = @ \ {i}]
      /\ items' = [items EXCEPT ![i] = NoRow] /\ UNCHANGED <<nextId, waiter>>
  BY QueueAssumption DEF Ack, AckAccepted
<1>4. \A j \in Ids : PhaseOf(j)' = IF j = i THEN "done" ELSE PhaseOf(j)
  BY <1>1, <1>3 DEF PhaseOf, HasItem, TypeOK
<1>5. phase' = [phase EXCEPT ![i] = "done"]
  BY <1>4 DEF phase
<1>6. answer' = answer
  BY <1>3 DEF answer, AnswerOf
<1> QED
  BY <1>1, <1>2, <1>3, <1>5, <1>6 DEF Contract!Finish, phase, answer

\* A crash, an execution without a report and a refused report give jobs up
\* without finishing them.
LEMMA RefusalAbandons ==
  ASSUME QueueInvariant, NEW p \in Processes,
         \/ Crash(p) \/ \E i \in Ids : Abandon(p, i)
         \/ \E i \in Ids, v \in {p, None} : Ack(p, i, v) /\ AckRefused(i, v)
  PROVE  Contract!Abandon(p)
<1>1. PICK js \in SUBSET running[p] :
        running' = [running EXCEPT ![p] = @ \ js]
  <2>1. CASE Crash(p)
    <3>1. running' = [running EXCEPT ![p] = @ \ running[p]]
      BY <2>1 DEF Crash
    <3> QED
      BY <3>1
  <2>2. ASSUME NEW i \in Ids, NEW v \in {p, None},
               Ack(p, i, v) \/ Abandon(p, i)
        PROVE  \E js \in SUBSET running[p] :
                 running' = [running EXCEPT ![p] = @ \ js]
    BY <2>2 DEF Ack, Abandon
  <2> QED
    BY <2>1, <2>2
<1>2. UNCHANGED <<items, nextId, outcome, waiter>>
  BY DEF Crash, Abandon, tables, Ack, AckRefused
<1>3. phase' = phase /\ answer' = answer
  BY <1>2 DEF phase, answer, PhaseOf, AnswerOf, HasItem
<1> QED
  BY <1>1, <1>2, <1>3 DEF Contract!Abandon, phase, answer
\* A reader's step changes its own answer only, to the outcome of an id that
\* is done or to none.
LEMMA ReaderAnswers ==
  ASSUME QueueInvariant, QueueInvariant', NEW w \in Waiters, ReaderStep(w)
  PROVE  Contract!Answer(w)
<1>1. UNCHANGED <<items, nextId, outcome, running>>
  BY DEF ReaderStep, QueryResult, Subscribe, Lookup, Wake, Retire, GiveUp,
         tables
<1>2. phase' = phase
  BY <1>1 DEF phase, PhaseOf, HasItem
<1>3. \A u \in Waiters : u # w => waiter'[u] = waiter[u]
  BY DEF ReaderStep, QueryResult, Subscribe, Lookup, Wake, Retire, GiveUp,
         FoundById, FoundByPath, Answered, QueueInvariant, TypeOK
<1>4. answer' = [answer EXCEPT ![w] = AnswerOf(w)']
  BY <1>3 DEF answer, AnswerOf
<1>5. CASE waiter'[w].pc \in {"retiring", "done"}
  <2>1. /\ waiter'[w].id \in Ids
        /\ waiter'[w].value \in Processes \cup {None}
        /\ outcome'[waiter'[w].id] = waiter'[w].value
    BY <1>5 DEF QueueInvariant, TypeOK, Reader, NoReader, AnswerIsOutcome
  <2>2. outcome[waiter'[w].id] # Open
    BY <1>1, <2>1, QueueAssumption
  <2>3. phase[waiter'[w].id] = "done"
    BY <2>1, <2>2, PhaseFacts
  <2>4. AnswerOf(w)' = <<waiter'[w].id, outcome[waiter'[w].id]>>
    BY <1>1, <1>5, <2>1 DEF AnswerOf
  <2> QED
    BY <1>1, <1>2, <1>4, <2>1, <2>3, <2>4
       DEF Contract!Answer, phase, answer
<1>6. CASE waiter'[w].pc \notin {"retiring", "done"}
  <2>1. AnswerOf(w)' = None
    BY <1>6 DEF AnswerOf
  <2> QED
    BY <1>1, <1>2, <1>4, <2>1 DEF Contract!Answer, phase, answer
<1> QED
  BY <1>5, <1>6

\* Every step of the queue is a step of the contract, or none.
LEMMA NextImplements ==
  ASSUME QueueInvariant, QueueInvariant', [Next]_vars
  PROVE  [Contract!Next]_(Contract!vars)
<1>1. TypeOK /\ TypeOK'
  BY DEF QueueInvariant
<1>2. ASSUME NEW p \in Processes, ProcessStep(p) PROVE Contract!Next
  <2>1. ASSUME NEW path \in Paths, NEW e \in Externals \cup {None},
               NEW x \in Exclusives, Add(p, path, e, x)
        PROVE  Contract!Next
    BY <1>1, <2>1, InsertSubmits DEF Add, Contract!Next
  <2>2. ASSUME NEW path \in Paths, NEW e \in Externals \cup {None},
               NEW x \in Exclusives, AddAndRetrieve(p, path, e, x)
        PROVE  Contract!Next
    <3>1. CASE AddClaimed(p, path, e, x)
      BY <1>1, <2>2, <3>1, InsertSubmits
         DEF AddAndRetrieve, AddClaimed, Contract!Next
    <3>2. CASE AddUnclaimed(p, path, e, x)
      BY <1>1, <2>2, <3>2, InsertSubmits
         DEF AddAndRetrieve, AddUnclaimed, Contract!Next
    <3>3. CASE ClaimQueued(p, path)
      BY <1>1, <2>2, <3>3, ClaimClaims
         DEF AddAndRetrieve, ClaimQueued, Contract!Next
    <3> QED
      BY <2>2, <3>1, <3>2, <3>3 DEF AddAndRetrieve
  <2>3. ASSUME NEW path \in Paths, Retrieve(p, path) PROVE Contract!Next
    BY <1>1, <2>3, ClaimClaims DEF Retrieve, Contract!Next
  <2>4. ASSUME NEW i \in Ids, NEW v \in {p, None}, Ack(p, i, v)
        PROVE  Contract!Next
    <3>1. CASE AckAccepted(i, v)
      BY <1>1, <2>4, <3>1, AckFinishes DEF Contract!Next
    <3>2. CASE AckRefused(i, v)
      BY <2>4, <3>2, RefusalAbandons DEF Contract!Next
    <3> QED
      BY <2>4, <3>1, <3>2 DEF Ack
  <2>5. CASE Crash(p) \/ \E i \in Ids : Abandon(p, i)
    BY <2>5, RefusalAbandons DEF Contract!Next
  <2> QED
    BY <1>2, <2>1, <2>2, <2>3, <2>4, <2>5 DEF ProcessStep
<1>3. ASSUME NEW key \in Keys, KeyStep(key) PROVE Contract!Next
  <2>1. UNCHANGED <<running, waiter>>
    BY <1>3 DEF KeyStep, Heartbeat, MergeExtra, Cancel
  <2> QED
    BY <1>1, <1>3, <2>1, KeyStepIsQuiet, QuietLoses
       DEF AnswerOf, Contract!Next
<1>4. ASSUME NEW w \in Waiters, ReaderStep(w) PROVE Contract!Next
  BY <1>4, ReaderAnswers DEF Contract!Next
<1>5. ASSUME NEW i \in Ids, ClockStep(i) PROVE Contract!Next
  <2>1. UNCHANGED <<running, waiter>>
    BY <1>5 DEF ClockStep, HeartbeatLapses, OrphanDeadline, ItemExpires,
                ResultExpires, Compact
  <2> QED
    BY <1>1, <1>5, <2>1, ClockStepIsQuiet, QuietLoses
       DEF AnswerOf, Contract!Next
<1>6. ASSUME NEW e \in outbox, Broadcast(e) PROVE Contract!Next
  <2>1. \A w \in Waiters : AnswerOf(w)' = AnswerOf(w)
    BY <1>1, <1>6 DEF Broadcast, Deliver, Listening, AnswerOf, TypeOK, Reader,
                      NoReader
  <2> QED
    BY <1>1, <1>6, <2>1, OtherStepIsQuiet, QuietLoses
       DEF Broadcast, Contract!Next
<1>7. ASSUME \/ Clear \/ UNCHANGED vars
             \/ \E due \in SUBSET gc : CollectResults(due)
      PROVE  Contract!Next
  <2>1. UNCHANGED <<running, waiter>>
    BY <1>7 DEF Clear, vars, CollectResults
  <2> QED
    BY <1>1, <1>7, <2>1, OtherStepIsQuiet, QuietLoses
       DEF AnswerOf, Contract!Next
<1> QED
  BY <1>2, <1>3, <1>4, <1>5, <1>6, <1>7 DEF Next

\* The query queue keeps the contract it has with its users: a query is
\* claimed by one process, finishes once and by the word of that process, and
\* every answer is that word.
THEOREM QueueImplementsContract == Spec => ImplementsContract
<1>1. QueueInvariant /\ QueueInvariant' /\ [Next]_vars
        => [Contract!Next]_(Contract!vars)
  BY NextImplements
<1> QED
  BY <1>1, InitImplements, QueueConsistent, PTL
     DEF Spec, ImplementsContract, Contract!Spec

=============================================================================
