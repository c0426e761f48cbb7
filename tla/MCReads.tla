------------------------------ MODULE MCReads -------------------------------
(***************************************************************************)
(* TLC instance of Reads.                                                  *)
(***************************************************************************)
EXTENDS Reads

Keys3 == 1..3

\* Rows of a partition, of the type's index and of another index: those the
\* condition c holds for, and those it does not.
SomeRows == {[in |-> {"p", "gsi1"}, sat |-> {"c"}],
             [in |-> {"p", "gsi1", "gsi2"}, sat |-> {}]}

SomeKinds == [s \in {"p", "gsi1", "gsi2"} |->
                  CASE s = "p" -> "S" [] s = "gsi1" -> "N" [] OTHER -> "B"]

SomeRanges == {{1, 2}}
=============================================================================
