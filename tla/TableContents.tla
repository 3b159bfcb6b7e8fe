---------------------------- MODULE TableContents ---------------------------
(***************************************************************************)
(* What an index promises of its table: the rows of an insert appear, all  *)
(* at once and at most once, and nothing else happens to the rows that a   *)
(* select would see.                                                       *)
(***************************************************************************)
CONSTANTS Insert, RowsOf(_)

VARIABLE contents   \* rows a select planned now would read

Init == contents = {}

Add(i) ==
  /\ contents \cap RowsOf(i) = {}
  /\ contents' = contents \cup RowsOf(i)

Next == \E i \in Insert : Add(i)

Spec == Init /\ [][Next]_contents
=============================================================================
