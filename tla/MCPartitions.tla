---------------------------- MODULE MCPartitions ----------------------------
(***************************************************************************)
(* Inserts for the model checker: each one adds a row for each of its keys. *)
(***************************************************************************)
EXTENDS Partitions

CONSTANTS s1, s2, r1

BothTwice == <<{1, 2}, {1, 2}>>
OneEach == <<{1}, {2}>>
Gap == <<{1, 2, 3}, {2}, {2}>>
=============================================================================
