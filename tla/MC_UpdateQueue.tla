---------------------------- MODULE MC_UpdateQueue ----------------------------
(* Small instances of UpdateQueue for TLC: the constants are all in the     *)
(* .cfg files.                                                              *)
EXTENDS UpdateQueue
=============================================================================
