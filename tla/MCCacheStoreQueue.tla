-------------------------- MODULE MCCacheStoreQueue --------------------------
(* Constants of the runs of CacheStoreQueue.                               *)
EXTENDS CacheStoreQueueContract, TLC

CONSTANTS k1, k2   \* query hashes

OnePath  == {<<"pre", k1>>}
TwoPaths == {<<"pre", k1>>, <<"pre", k2>>}

\* Without readers and results the events and their history feed nothing back;
\* no command looks at a missed heartbeat or at what was merged.
Unread == [lapsed |-> FALSE, extra |-> {}]
ClaimView ==
  <<[i \in Ids |-> IF HasItem(i) THEN Unread @@ items[i] ELSE NoRow],
    payloads, expired, nextId, running>>
=============================================================================
