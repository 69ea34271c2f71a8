--------------------------- MODULE MCFileConversion ---------------------------
(***************************************************************************)
(* FileConversion for TLC: the processes run with --force differ in name   *)
(* only, and so do the clock values, which nothing compares but for        *)
(* equality.                                                               *)
(***************************************************************************)
EXTENDS FileConversion, TLC

Alike == Permutations(Overwrites) \cup Permutations(Nonces)
=============================================================================
