----------------------------- MODULE MCTransact -----------------------------
(***************************************************************************)
(* TLC instances of Transact.                                              *)
(***************************************************************************)
EXTENDS Transact, TLC

Symmetry == Permutations(Callers) \cup Permutations(Ids)
=============================================================================
