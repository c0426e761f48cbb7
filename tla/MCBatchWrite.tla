---------------------------- MODULE MCBatchWrite ----------------------------
(***************************************************************************)
(* TLC instances of BatchWrite.                                            *)
(***************************************************************************)
EXTENDS BatchWrite, TLC

Symmetry == Permutations(Ids) \cup Permutations(Ptrs)
=============================================================================
