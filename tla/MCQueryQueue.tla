---------------------------- MODULE MCQueryQueue ----------------------------
(***************************************************************************)
(* Two API instances with one queue, and the queries their clients ask.    *)
(***************************************************************************)
EXTENDS QueryQueue

CONSTANTS k1, k2, k3, w1, w2, w3, p1, e1

Path(k)    == <<"queue", k>>
OnePath    == {Path(k1)}
TwoPaths   == {Path(k1), Path(k2)}
ThreePaths == {Path(k1), Path(k2), Path(k3)}

\* The third path is the urgent one.
Urgent    == [path \in Paths |-> IF path = Path(k3) THEN 1 ELSE 0]
Shared    == [path \in Paths |-> None]
\* The first path is a persistent query of p1.
FirstAtP1 == [path \in Paths |-> IF path = Path(k1) THEN p1 ELSE None]

Asking(kind, path, external) ==
  [kind |-> kind, path |-> path, external |-> external]
OwnPath(w) ==
  CASE w = w1 -> Path(k1) [] w = w2 -> Path(k2) [] OTHER -> Path(k3)
Jobs        == [w \in Waiters |-> Asking("job", OwnPath(w), None)]
QueryAndJob == [w \in Waiters |->
                  Asking(IF w = w1 THEN "query" ELSE "job", OwnPath(w), None)]
\* Two requests with one request id, as when a client sends it again.
SameRequest == [w \in Waiters |-> Asking("query", Path(k1), e1)]

\* Jobs read no results, so neither the results nor the events matter to what
\* is queued, claimed and reconciled.
WorkView == <<items, payloads, expired, nextId, running, clientVars>>
=============================================================================
