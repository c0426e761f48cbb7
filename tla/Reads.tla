-------------------------------- MODULE Reads --------------------------------
(***************************************************************************)
(* Query and Statement over one table, with the programs that write it.    *)
(***************************************************************************)
EXTENDS Query, Statement

Init == Start(NewQuery \cup NewStatement)

Next ==
    \/ \E pk \in Pks : WherePK(pk)
    \/ \E keys \in Ranges : SKCond(keys)
    \/ \E f \in Conds : Filter(f)
    \/ \E name \in Indexes : Index(name)
    \/ \E n \in Limits : LimitQuery(n) \/ LimitStatement(n)
    \/ \E v \in BOOLEAN : ConsistentRead(v)
    \/ QueryAll \/ StatementAll \/ AllCalls \/ QueryAllPage \/ StatementAllPage \/ AllFails
    \/ QueryWalk \/ StatementWalk \/ QueryPage \/ StatementPage \/ PageFails \/ Abandon
    \/ \E k \in Keys, row \in Rows \cup {Absent} : Change(k, row)
    \/ \E k \in Keys : Replicate(k)

\* Each call of the service returns, and All goes on.
Spec ==
    /\ Init /\ [][Next]_vars
    /\ WF_vars(AllCalls)
    /\ WF_vars(QueryAllPage \/ StatementAllPage \/ AllFails)

-----------------------------------------------------------------------------
Once     == [k \in Keys |-> 1]
Returned == IF pc \in Running THEN Nothing ELSE items
Status   == CASE pc = "building" -> "idle" [] pc \in Running -> "running" [] OTHER -> pc

ReadAll == INSTANCE ReadAll WITH
    rows   <- Matching(rows, replica),
    asked  <- Once,
    items  <- Returned,
    status <- Status

\* All, and a walk with Page whatever calls of it fail and are repeated, return
\* every matching row that was there all the time exactly once, and only rows
\* that matched: pages that a filter leaves empty do not end it, rows that come
\* or go do not shift it, a second run of the builder starts afresh; after
\* ConsistentRead that is every row that was really there (query.go 349-351 and
\* 380-383, statement.go 87-90 and 108-113).
ImplementsReadAll == ReadAll!Spec

\* All returns: every page leads further, and an empty token ends the loop as
\* nil does (query.go 360-376, statement.go 122-139).
AllEnds == pc = "all" ~> pc \in {"ok", "err"}

-----------------------------------------------------------------------------
(* Why ImplementsReadAll holds. *)

\* A query never reads consistently, and a statement has no key of its own.
BuilderInv ==
    /\ b.kind = "query" => ~b.consistentRead
    /\ b.kind = "statement" => b.sk = Keys

HistoryInv ==
    pc \in Running => /\ always \subseteq Matching(rows, replica)
                      /\ Matching(rows, replica) \subseteq ever

\* The keys up to the token have been read, each once, and none after it.
CollectedInv ==
    pc \in Running =>
        \A k \in Keys :
            /\ k > token.pos \/ k \notin ever => items[k] = 0
            /\ k <= token.pos /\ k \in always => items[k] = 1

\* The inductive invariant of All and of a walk: it relates the token, which is
\* all that the next call knows, to the items collected before (query.go 349-390,
\* statement.go 87-139).
ReadInv == TypeOK /\ BuilderInv /\ HistoryInv /\ CollectedInv

\* No sort key is a number that a float64 does not have.  Without this a cursor
\* of Page is another key, and ImplementsReadAll does not hold.
ExactKeys == \A k \in Keys, s \in Pks \cup Indexes : KeyKind[s] = "N" => Rounded(k) = k
=============================================================================
