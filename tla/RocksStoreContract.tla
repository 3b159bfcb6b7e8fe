------------------------- MODULE RocksStoreContract -------------------------
(***************************************************************************)
(* What RocksStore promises of the rows it is given: the remote file       *)
(* system holds the state after some prefix of the writes, that prefix     *)
(* only grows, and a process that starts without its local files continues *)
(* from it.                                                                *)
(***************************************************************************)
EXTENDS Naturals, Sequences

CONSTANT Writes

VARIABLES
  history,  \* the writes of this store, in order
  saved     \* how many of them a new process would find

Init == history = <<>> /\ saved = 0

Write == /\ \E w \in Writes : history' = Append(history, w)
         /\ UNCHANGED saved

Save == /\ saved' \in saved..Len(history)
        /\ UNCHANGED history

Recover == /\ history' = SubSeq(history, 1, saved)
           /\ UNCHANGED saved

Next == Write \/ Save \/ Recover

Spec == Init /\ [][Next]_<<history, saved>>
=============================================================================
