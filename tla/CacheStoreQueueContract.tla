----------------------- MODULE CacheStoreQueueContract -----------------------
(***************************************************************************)
(* The query queue of Cube Store implements JobContract.  A job is a row   *)
(* id of the items table; its phase is read off the tables and, once no    *)
(* row is left, off the acknowledgement that was accepted for it.          *)
(***************************************************************************)
EXTENDS CacheStoreQueue

PhaseOf(i) ==
  IF outcome[i] # Open THEN "done"
  ELSE IF HasItem(i) THEN items[i].status
  ELSE IF i < nextId THEN "lost" ELSE "new"

AnswerOf(w) ==
  IF waiter[w].pc \in {"retiring", "done"}
  THEN <<waiter[w].id, waiter[w].value>> ELSE None

Contract == INSTANCE JobContract WITH
  Jobs    <- Ids,
  Askers  <- Waiters,
  phase   <- [i \in Ids |-> PhaseOf(i)],
  answer  <- [w \in Waiters |-> AnswerOf(w)]

\* Whatever expires, is cancelled, truncated or compacted, and however the
\* readers are woken, users of the queue see the contract.
ImplementsContract == Contract!Spec
=============================================================================
