------------------------------ MODULE Statement ------------------------------
(***************************************************************************)
(* StatementBuilder of statement.go: a PartiQL SELECT, run with All or     *)
(* Page over NextToken.  A parameter that does not marshal is reported by  *)
(* the first call only.  What the text of the statement selects are the    *)
(* rows that satisfy its conditions.                                       *)
(***************************************************************************)
EXTENDS Reader

\* What Statement returns: it marshals the parameters, which may fail.
NewStatement ==
    {[kind |-> "statement", pk |-> None, sk |-> Keys, filters |-> conds, index |-> None,
      limit |-> NoLimit, consistentRead |-> FALSE, err |-> err] :
         conds \in SUBSET (Conds \ BadConds), err \in BOOLEAN}

BuildStatement(new) == b.kind = "statement" /\ Build(new)

LimitStatement(n) == BuildStatement([b EXCEPT !.limit = n])
ConsistentRead(v) == BuildStatement([b EXCEPT !.consistentRead = v])

StatementInput == [stmt |-> b.filters, limit |-> b.limit, consistent |-> b.consistentRead]

\* The pages the service may answer with (external).  The last one has no
\* NextToken or an empty one.
StatementReplies ==
    LET in == StatementInput
        seen == IF in.consistent THEN rows ELSE replica
        there == {k \in Keys : seen[k] # Absent}
        passing == {k \in there : in.stmt \subseteq seen[k].sat}
        NextTokens(last) ==
            IF last = NoKey THEN {NoToken, [kind |-> "token", pos |-> NoKey]}
                            ELSE {[kind |-> "token", pos |-> last]}
    IN  UNION {{[items |-> page.items, token |-> t] : t \in NextTokens(page.last)} :
                  page \in Replies(there, passing, token.pos, in.limit)}

StatementAll == b.kind = "statement" /\ Begin("all", b.err)

\* A mutant of StatementNext: an empty token is a token.
StatementNextNil(t) == IF t = NoToken THEN NoToken ELSE t

\* Neither nil nor empty: it becomes NextToken of the next request.
StatementNext(t) == IF t.pos = NoKey THEN NoToken ELSE t

StatementAllPage ==
    /\ b.kind = "statement"
    /\ AllTurn({[items |-> page.items, next |-> StatementNext(page.token)] : page \in StatementReplies})

StatementWalk == b.kind = "statement" /\ Begin("walk", b.err)

\* *out.NextToken, or "" if it is nil: either way the empty cursor at the end.
nextCursor(t) == IF t = NoToken \/ t.pos = NoKey THEN NoToken ELSE t

StatementPage ==
    /\ b.kind = "statement"
    /\ PageTurn({[items |-> page.items, next |-> nextCursor(page.token)] : page \in StatementReplies})
=============================================================================
