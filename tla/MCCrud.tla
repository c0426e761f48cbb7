------------------------------- MODULE MCCrud -------------------------------
(***************************************************************************)
(* TLC instances of CrudProps.                                             *)
(***************************************************************************)
EXTENDS CrudProps, TLC

Symmetry == Permutations(Callers) \cup Permutations(Ids)
=============================================================================
