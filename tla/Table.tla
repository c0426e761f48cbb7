------------------------------- MODULE Table --------------------------------
(***************************************************************************)
(* The DynamoDB table, as far as the code in src/ relies on it: what one   *)
(* request does to the row at its key.  The service is external; a request *)
(* is atomic, PutItem replaces the whole row, UpdateItem changes only the  *)
(* attributes its expression names and creates the row if there is none,   *)
(* DeleteItem of a missing row succeeds.                                   *)
(***************************************************************************)
EXTENDS Item

\* The absence of a row; every row that exists has Version >= 1.
Absent == [item |-> NoItem, gsi1pk |-> Unset]

Exists(row) == row # Absent

Conditions == [kind : {"none", "absent", "version"}, version : Nat]
NoCondition == [kind |-> "none", version |-> 0]

\* A ConditionExpression evaluated on the row at the key of the request.
Holds(cond, row) ==
    \/ cond.kind = "none"
    \/ cond.kind = "absent" /\ ~Exists(row)
    \/ cond.kind = "version" /\ Exists(row) /\ row.item.version = cond.version

\* A mutant of Updated: the expression has no ADD Version.
UpdatedSameVersion(row, now) ==
    [row EXCEPT !.item.updated = now, !.item.edits = row.item.edits \cup {now}]

\* UpdateItem with the expression UpdateBuilder.Run builds: SET UpdatedAt,
\* ADD Version 1 and the queued operations.  On a missing row ADD counts
\* from 0 and every attribute the expression does not name stays missing.
Updated(row, now) ==
    [row EXCEPT !.item.updated = now,
                !.item.version = row.item.version + 1,
                !.item.edits   = row.item.edits \cup {now}]

\* The row after a request whose condition holds.
Apply(req, row) ==
    CASE req.op = "PutItem"    -> req.row
      [] req.op = "UpdateItem" -> Updated(row, req.at)
      [] req.op = "DeleteItem" -> Absent
      [] OTHER                 -> row
=============================================================================
