------------------------------- MODULE Descent -------------------------------
(***************************************************************************)
(* The lexicographic order of tuples of n natural numbers, in which every  *)
(* descent ends: what a call has left to do is measured in it.             *)
(***************************************************************************)
EXTENDS Naturals, WellFoundedInduction

Less(n) == LexProductOrdering(OpToRel(<, Nat), Nat, n)
=============================================================================
