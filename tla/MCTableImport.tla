---------------------------- MODULE MCTableImport ---------------------------
(***************************************************************************)
(* Two commands with IF NOT EXISTS for the same table of one location.     *)
(***************************************************************************)
EXTENDS TableImport

CONSTANTS c1, c2, w1, w2, l1
=============================================================================
