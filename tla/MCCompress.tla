----------------------------- MODULE MCCompress -----------------------------
(***************************************************************************)
(* TLC instance of Compress: a program without tags, one that has tagged   *)
(* Notes, and one that has tagged Log and Temp as well.  Notes and Raw     *)
(* have a dynamodbav name, Temp has "-"; Raw is a []byte.                  *)
(***************************************************************************)
EXTENDS Compress, TLC

Kinds == [f \in Fields |-> IF f = "Raw" THEN "bytes" ELSE "text"]
Tagged == "old" :> {} @@ "mid" :> {"Notes"} @@ "new" :> {"Notes", "Log", "Temp"}
Named == "Notes" :> "n" @@ "Log" :> "" @@ "Temp" :> "-" @@ "Raw" :> "r"

ASSUME DistinctNames /\ TaggedIsText
=============================================================================
