-------------------------- MODULE MCParallelScan ---------------------------
(***************************************************************************)
(* TLC instance of ParallelScan.                                           *)
(***************************************************************************)
EXTENDS ParallelScan

Keys2 == 1..2

\* Rows that satisfy every choice of the conditions that build.
SomeRows == {[exists |-> TRUE, sat |-> S] : S \in SUBSET (Conds \ BadConds)}
=============================================================================
