-------------------------------- MODULE Query --------------------------------
(***************************************************************************)
(* QueryBuilder of query.go: the builder's methods, the request, All,      *)
(* which follows LastEvaluatedKey, and Page, whose cursor is that key      *)
(* through JSON.                                                           *)
(***************************************************************************)
EXTENDS Reader

CONSTANTS
    KeyKind,    \* "S", "N" or "B": the type of the sort key in each partition
    MaxExact    \* 2^53: the numbers up to here are exact as a float64

ASSUME QueryAssumption ==
    /\ KeyKind \in [Pks \cup Indexes -> {"S", "N", "B"}]
    /\ MaxExact \in Nat

\* What Query returns.
NewQuery ==
    {[kind |-> "query", pk |-> None, sk |-> Keys, filters |-> {}, index |-> None,
      limit |-> NoLimit, consistentRead |-> FALSE, err |-> FALSE]}

BuildQuery(new) == b.kind = "query" /\ Build(new)

WherePK(pk)   == BuildQuery([b EXCEPT !.pk = pk])
SKCond(keys)  == BuildQuery([b EXCEPT !.sk = keys])     \* SKEquals, SKBeginsWith, SKBetween
Filter(f)     == BuildQuery([b EXCEPT !.filters = @ \cup {f}])
Index(name)   == BuildQuery([b EXCEPT !.index = name])
LimitQuery(n) == BuildQuery([b EXCEPT !.limit = n])

-----------------------------------------------------------------------------
QueryInput ==
    [source |-> IF b.pk # None THEN b.pk
                ELSE IF b.index # None THEN b.index ELSE gsi1Name,
     sk |-> b.sk, filters |-> b.filters, limit |-> b.limit]

\* The pages the service may answer with (external); it does not know
\* ConsistentRead, and refuses a start key of another type.
QueryReplies(start) ==
    LET in == QueryInput
        there == {k \in in.sk : in.source \in replica[k].in}
        passing == {k \in there : filterExpression(in.filters, replica[k])}
    IN  IF start.kind \in {"none", KeyKind[in.source]}
        THEN Replies(there, passing, start.pos, in.limit) ELSE {}

QueryAll == b.kind = "query" /\ Begin("all", ~Builds(b.filters))

\* LastEvaluatedKey, if there is one, becomes ExclusiveStartKey.
QueryStart(last) ==
    IF last = NoKey THEN NoToken ELSE [kind |-> KeyKind[QueryInput.source], pos |-> last]

QueryAllPage ==
    /\ b.kind = "query"
    /\ AllTurn({[items |-> page.items, next |-> QueryStart(page.last)] : page \in QueryReplies(token)})

-----------------------------------------------------------------------------
\* A number as a float64 has it; above 2^53 only the even ones exist.
Rounded(k) == IF k <= MaxExact \/ k % 2 = 0 THEN k ELSE k - 1

\* Through a map[string]any and JSON: a number becomes a float64, a []byte a
\* base64 string.
encodeCursor(key) ==
    IF key.kind = "N" THEN [kind |-> "json number", pos |-> Rounded(key.pos)]
                      ELSE [kind |-> "json string", pos |-> key.pos]

decodeCursor(c) == [kind |-> IF c.kind = "json number" THEN "N" ELSE "S", pos |-> c.pos]

QueryWalk == b.kind = "query" /\ Begin("walk", ~Builds(b.filters))

\* A mutant of NextCursor: the caller gets the cursor it passed back.
NextCursorSame(last) ==
    IF last = NoKey THEN NoToken
    ELSE IF token = NoToken THEN encodeCursor(QueryStart(last)) ELSE token

NextCursor(last) == IF last = NoKey THEN NoToken ELSE encodeCursor(QueryStart(last))

\* The key with which Page starts, if its cursor is not empty.
CursorKey == IF token = NoToken THEN NoToken ELSE decodeCursor(token)

QueryPage ==
    /\ b.kind = "query"
    /\ PageTurn({[items |-> page.items, next |-> NextCursor(page.last)] : page \in QueryReplies(CursorKey)})
=============================================================================
