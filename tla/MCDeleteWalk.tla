---------------------------- MODULE MCDeleteWalk ----------------------------
(***************************************************************************)
(* DeleteWalk on every destination tree of NumEntries entries, with every  *)
(* file list for it.                                                       *)
(***************************************************************************)
EXTENDS DeleteWalk
=============================================================================
