---------------------------- MODULE MCRocksStore ----------------------------
(***************************************************************************)
(* A store of two keys.                                                    *)
(***************************************************************************)
EXTENDS RocksStore

CONSTANTS k1, k2
=============================================================================
