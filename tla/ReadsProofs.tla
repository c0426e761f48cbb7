---------------------------- MODULE ReadsProofs -----------------------------
(***************************************************************************)
(* Proofs about Reads: All and a walk with Page of a query and of a        *)
(* statement, for any table, builder and page sizes.                       *)
(***************************************************************************)
EXTENDS Reads, Descent, FiniteSetTheorems, TLAPS

\* The part of the table a call is about.
Now == Matching(rows, replica)

\* A page: the matching rows after the start, up to the last key that was
\* evaluated or, if there is none, to the end.
IsPage(found, last, start) ==
    /\ last = NoKey \/ (last \in Keys /\ last > start)
    /\ \A k \in Keys : k \in found <=> /\ k \in Now /\ k > start
                                       /\ last = NoKey \/ k <= last

LEMMA PageShape ==
    ASSUME NEW reachable \in SUBSET (Nat \ {0}), NEW matching, NEW start \in Nat,
           NEW limit, NEW page \in Replies(reachable, matching, start, limit)
    PROVE  /\ page.last = NoKey \/ (page.last \in reachable /\ page.last > start)
           /\ \A k : k \in page.items <=>
                  /\ k \in reachable /\ k \in matching /\ k > start
                  /\ page.last = NoKey \/ k <= page.last
<1> DEFINE todo == {k \in reachable : k > start}
<1>1. CASE \E last \in todo :
               page = [items |-> {k \in todo : k <= last} \cap matching, last |-> last]
  BY <1>1 DEF NoKey
<1>2. CASE page = [items |-> todo \cap matching, last |-> NoKey]
  BY <1>2 DEF NoKey
<1>3. QED
  BY <1>1, <1>2 DEF Replies

\* What is needed of the constants and of the variables' types.
LEMMA Constants ==
    /\ Keys \subseteq Nat \ {0} /\ NoKey \in Nat /\ NoKey \notin Keys
    /\ \A range \in Ranges : range \subseteq Keys
    /\ \A s \in Pks \cup Indexes : KeyKind[s] \in TokenKinds
    /\ gsi1Name \in Indexes
    /\ MaxChanges \in Nat
  BY ReaderAssumption, QueryAssumption DEF NoKey, TokenKinds

TokenType == [kind : TokenKinds, pos : Keys] \cup {NoToken}

Builders == [kind : {"query", "statement"}, pk : Pks \cup {None}, sk : Ranges \cup {Keys},
             filters : SUBSET Conds, index : Indexes \cup {None}, limit : Limits \cup {NoLimit},
             consistentRead : BOOLEAN, err : BOOLEAN]

LEMMA Types ==
    ASSUME TypeOK
    PROVE  /\ b \in Builders /\ b.sk \subseteq Keys
           /\ token \in TokenType /\ token.pos \in Nat
           /\ Now \subseteq Keys
           /\ items \in [Keys -> 0..1]
<1>1. b \in Builders /\ token \in TokenType /\ items \in [Keys -> 0..1]
  BY DEF TypeOK, Builders, TokenType
<1>2. b.sk \subseteq Keys
  BY <1>1, Constants DEF Builders
<1>3. token.pos \in Nat
  <2>1. NoToken.pos = NoKey
    BY DEF NoToken
  <2>2. token = NoToken \/ token.pos \in Keys
    BY <1>1 DEF TokenType
  <2>3. QED
    BY <2>1, <2>2, Constants
<1>4. Now \subseteq Keys
  BY <1>2 DEF Now, Matching
<1>5. QED
  BY <1>1, <1>2, <1>3, <1>4

\* What the service answers a query with is a page of what was asked for.
LEMMA QueryPages ==
    ASSUME ReadInv, b.kind = "query", NEW start, start.pos \in Nat,
           NEW page \in QueryReplies(start)
    PROVE  IsPage(page.items, page.last, start.pos)
<1> DEFINE there   == {k \in b.sk : Partition \in replica[k].in}
           passing == {k \in there : filterExpression(b.filters, replica[k])}
<1>1. QueryInput.source = Partition /\ QueryInput.sk = b.sk /\ QueryInput.filters = b.filters
  BY DEF QueryInput, Partition
<1>2. page \in Replies(there, passing, start.pos, QueryInput.limit)
  BY <1>1 DEF QueryReplies
<1>3. there \subseteq Keys /\ there \in SUBSET (Nat \ {0})
  BY Types, Constants DEF ReadInv
<1>4. \A k \in Keys : k \in Now <=> k \in there /\ k \in passing
  <2>1. ~b.consistentRead /\ b.sk \subseteq Keys
    BY Types DEF ReadInv, BuilderInv
  <2>2. Absent.in = {}
    BY DEF Absent
  <2>3. QED
    BY <2>1, <2>2 DEF Now, Matching, filterExpression, buildCondition
<1>5. page.last = NoKey \/ (page.last \in there /\ page.last > start.pos)
  BY <1>2, <1>3, PageShape
<1>6. \A k : k \in page.items <=> /\ k \in there /\ k \in passing /\ k > start.pos
                                  /\ page.last = NoKey \/ k <= page.last
  BY <1>2, <1>3, PageShape
<1>7. QED
  BY <1>3, <1>4, <1>5, <1>6 DEF IsPage

\* The same of a statement, of which the token is the start.
LEMMA StatementPages ==
    ASSUME ReadInv, b.kind = "statement", NEW page \in StatementReplies
    PROVE  \E last : /\ IsPage(page.items, last, token.pos)
                     /\ page.token \in IF last = NoKey
                                       THEN {NoToken, [kind |-> "token", pos |-> NoKey]}
                                       ELSE {[kind |-> "token", pos |-> last]}
<1> DEFINE seen    == IF b.consistentRead THEN rows ELSE replica
           there   == {k \in Keys : seen[k] # Absent}
           passing == {k \in there : b.filters \subseteq seen[k].sat}
           Tokens(last) == IF last = NoKey
                           THEN {NoToken, [kind |-> "token", pos |-> NoKey]}
                           ELSE {[kind |-> "token", pos |-> last]}
<1>1. PICK reply \in Replies(there, passing, token.pos, b.limit) :
          \E t \in Tokens(reply.last) : page = [items |-> reply.items, token |-> t]
  BY DEF StatementReplies, StatementInput
<1>2. page.items = reply.items /\ page.token \in Tokens(reply.last)
  BY <1>1
<1>3. there \subseteq Keys /\ there \in SUBSET (Nat \ {0}) /\ token.pos \in Nat
  BY Types, Constants DEF ReadInv
<1>4. \A k \in Keys : k \in Now <=> k \in there /\ k \in passing
  BY DEF Now, Matching, ReadInv, BuilderInv
<1>5. reply.last = NoKey \/ (reply.last \in there /\ reply.last > token.pos)
  BY <1>1, <1>3, PageShape
<1>6. \A k : k \in reply.items <=> /\ k \in there /\ k \in passing /\ k > token.pos
                                   /\ reply.last = NoKey \/ k <= reply.last
  BY <1>1, <1>3, PageShape
<1>7. IsPage(page.items, reply.last, token.pos)
  BY <1>2, <1>3, <1>4, <1>5, <1>6 DEF IsPage
<1>8. QED
  BY <1>2, <1>7

-----------------------------------------------------------------------------
(* The steps. *)

LEMMA ReadInit == Init => ReadInv
<1> SUFFICES ASSUME Init PROVE ReadInv
  OBVIOUS
<1>1. /\ rows \in Table /\ replica = rows /\ pc = "building" /\ token = NoToken
      /\ items = Nothing /\ always = {} /\ ever = {} /\ changes = 0
      /\ b \in NewQuery \cup NewStatement
  BY DEF Init, Start
<1>2. b \in Builders /\ BuilderInv
  <2>1. CASE b \in NewQuery
    <3>1. b = [kind |-> "query", pk |-> None, sk |-> Keys, filters |-> {}, index |-> None,
               limit |-> NoLimit, consistentRead |-> FALSE, err |-> FALSE]
      BY <2>1 DEF NewQuery
    <3>2. b.kind = "query" /\ b.consistentRead = FALSE
      BY <3>1
    <3>3. QED
      BY <3>1, <3>2 DEF Builders, BuilderInv
  <2>2. CASE b \in NewStatement
    <3>1. PICK conds \in SUBSET (Conds \ BadConds), err \in BOOLEAN :
              b = [kind |-> "statement", pk |-> None, sk |-> Keys, filters |-> conds,
                   index |-> None, limit |-> NoLimit, consistentRead |-> FALSE, err |-> err]
      BY <2>2 DEF NewStatement
    <3>2. conds \in SUBSET Conds
      OBVIOUS
    <3>3. b.kind = "statement" /\ b.sk = Keys
      BY <3>1
    <3>4. QED
      BY <3>1, <3>2, <3>3 DEF Builders, BuilderInv
  <2>3. QED
    BY <1>1, <2>1, <2>2
<1>3. TypeOK
  BY <1>1, <1>2, Constants DEF TypeOK, Builders, Nothing
<1>4. QED
  BY <1>1, <1>2, <1>3 DEF ReadInv, HistoryInv, CollectedInv, Running

LEMMA BuildStep ==
    ASSUME ReadInv, NEW new, Build(new), new \in Builders,
           new.kind = "query" => ~new.consistentRead,
           new.kind = "statement" => new.sk = Keys
    PROVE  ReadInv'
<1>1. /\ pc \notin Running /\ b' = new
      /\ UNCHANGED <<pc, token, items, rows, replica, always, ever, changes>>
  BY DEF Build, table
<1>2. TypeOK'
  BY <1>1 DEF ReadInv, TypeOK, Builders
<1>3. QED
  BY <1>1, <1>2 DEF ReadInv, BuilderInv, HistoryInv, CollectedInv, Running

\* Every method of the two builders.
Setting ==
    \/ \E pk \in Pks : WherePK(pk)
    \/ \E keys \in Ranges : SKCond(keys)
    \/ \E f \in Conds : Filter(f)
    \/ \E name \in Indexes : Index(name)
    \/ \E n \in Limits : LimitQuery(n) \/ LimitStatement(n)
    \/ \E v \in BOOLEAN : ConsistentRead(v)

LEMMA SettingStep ==
    ASSUME ReadInv, Setting
    PROVE  ReadInv'
<1>1. b \in Builders /\ BuilderInv
  BY Types DEF ReadInv
<1>2. ASSUME NEW pk \in Pks, WherePK(pk) PROVE ReadInv'
  <2>1. [b EXCEPT !.pk = pk] \in Builders
    BY <1>1 DEF Builders
  <2>2. QED
    BY <1>1, <1>2, <2>1, BuildStep DEF WherePK, BuildQuery, BuilderInv, Builders
<1>3. ASSUME NEW keys \in Ranges, SKCond(keys) PROVE ReadInv'
  <2>1. [b EXCEPT !.sk = keys] \in Builders
    BY <1>1 DEF Builders
  <2>2. QED
    BY <1>1, <1>3, <2>1, BuildStep DEF SKCond, BuildQuery, BuilderInv, Builders
<1>4. ASSUME NEW f \in Conds, Filter(f) PROVE ReadInv'
  <2>1. [b EXCEPT !.filters = @ \cup {f}] \in Builders
    BY <1>1 DEF Builders
  <2>2. QED
    BY <1>1, <1>4, <2>1, BuildStep DEF Filter, BuildQuery, BuilderInv, Builders
<1>5. ASSUME NEW name \in Indexes, Index(name) PROVE ReadInv'
  <2>1. [b EXCEPT !.index = name] \in Builders
    BY <1>1 DEF Builders
  <2>2. QED
    BY <1>1, <1>5, <2>1, BuildStep DEF Index, BuildQuery, BuilderInv, Builders
<1>6. ASSUME NEW n \in Limits, LimitQuery(n) \/ LimitStatement(n) PROVE ReadInv'
  <2>1. [b EXCEPT !.limit = n] \in Builders
    BY <1>1 DEF Builders
  <2>2. QED
    BY <1>1, <1>6, <2>1, BuildStep
       DEF LimitQuery, LimitStatement, BuildQuery, BuildStatement, BuilderInv, Builders
<1>7. ASSUME NEW v \in BOOLEAN, ConsistentRead(v) PROVE ReadInv'
  <2>1. [b EXCEPT !.consistentRead = v] \in Builders
    BY <1>1 DEF Builders
  <2>2. QED
    BY <1>1, <1>7, <2>1, BuildStep DEF ConsistentRead, BuildStatement, BuilderInv, Builders
<1>8. QED
  BY <1>2, <1>3, <1>4, <1>5, <1>6, <1>7 DEF Setting

LEMMA BeginStep ==
    ASSUME ReadInv, NEW mode \in Running, NEW failed, Begin(mode, failed)
    PROVE  ReadInv'
<1>1. /\ pc \notin Running /\ token' = NoToken /\ items' = Nothing
      /\ pc' = IF failed THEN "err" ELSE mode
      /\ IF failed THEN UNCHANGED <<always, ever>> ELSE always' = Now /\ ever' = Now
      /\ UNCHANGED <<rows, replica, b, changes>>
  BY DEF Begin, Now
<1>2. Matching(rows, replica)' = Now /\ Now \subseteq Keys
  BY <1>1, Types DEF Now, Matching, Partition, ReadInv
<1>3. TypeOK'
  BY <1>1, <1>2 DEF ReadInv, TypeOK, Nothing
<1>4. HistoryInv'
  BY <1>1, <1>2 DEF HistoryInv, Running
<1>5. CollectedInv'
  <2>1. token'.pos = NoKey /\ \A k \in Keys : items'[k] = 0 /\ ~(k <= NoKey)
    BY <1>1, Constants DEF NoToken, Nothing, NoKey
  <2>2. QED
    BY <2>1 DEF CollectedInv
<1>6. BuilderInv'
  BY <1>1 DEF ReadInv, BuilderInv
<1>7. QED
  BY <1>3, <1>4, <1>5, <1>6 DEF ReadInv

\* A page is collected: it starts where the token is, and leads to the next one.
Turn(found, last) ==
    /\ pc \in Running
    /\ IsPage(found, last, token.pos)
    /\ items' = Collect(items, found)
    /\ token' \in TokenType /\ token'.pos = last
    /\ IF last = NoKey THEN pc' = "ok" ELSE pc' \in Running
    /\ UNCHANGED <<b, rows, replica, always, ever, changes>>

LEMMA TurnStep ==
    ASSUME ReadInv, NEW found, NEW last, Turn(found, last)
    PROVE  /\ ReadInv'
           /\ last = NoKey => ReadAll!Promised(items')
<1> USE DEF Turn
<1>1. \A k \in Keys : items'[k] = items[k] + (IF k \in found THEN 1 ELSE 0)
  BY Types DEF ReadInv, Collect
<1>2. \A k \in Keys : items[k] \in 0..1 /\ k \in Nat
  BY Types, Constants DEF ReadInv
<1>3. \A k \in Keys : k \in found => items[k] = 0 /\ k \in Now /\ k > token.pos
  BY DEF ReadInv, CollectedInv, IsPage
<1>4. \A k \in Keys : items'[k] = IF k \in found THEN 1 ELSE items[k]
  BY <1>1, <1>2, <1>3
<1>5. items' \in [Keys -> 0..1]
  <2>1. items' = [k \in Keys |-> items[k] + (IF k \in found THEN 1 ELSE 0)]
    BY Types DEF ReadInv, Collect
  <2>2. QED
    BY <1>2, <1>4, <2>1
<1>6. Matching(rows, replica)' = Now
  BY DEF Now, Matching, Partition
<1>7. TypeOK'
  BY <1>5 DEF ReadInv, TypeOK, TokenType, Running
<1>8. HistoryInv'
  BY <1>6 DEF ReadInv, HistoryInv, Now
<1>9. CollectedInv'
  <2>1. SUFFICES ASSUME pc' \in Running, NEW k \in Keys
                 PROVE  /\ k > token'.pos \/ k \notin ever => items'[k] = 0
                        /\ k <= token'.pos /\ k \in always => items'[k] = 1
    BY DEF CollectedInv
  <2>2. last \in Keys /\ last > token.pos /\ token'.pos = last /\ last \in Nat /\ token.pos \in Nat
    BY <2>1, Types, Constants DEF ReadInv, IsPage, Running
  <2>3. k \in found <=> k \in Now /\ k > token.pos /\ k <= last
    BY <2>2, Constants DEF IsPage
  <2>4. always \subseteq Now /\ Now \subseteq ever
    BY DEF ReadInv, HistoryInv, Now
  <2>5. /\ k > token.pos \/ k \notin ever => items[k] = 0
        /\ k <= token.pos /\ k \in always => items[k] = 1
    BY DEF ReadInv, CollectedInv
  <2>6. k \in Nat
    BY Constants
  <2>7. QED
    BY <1>4, <2>2, <2>3, <2>4, <2>5, <2>6
<1>10. BuilderInv'
  BY DEF ReadInv, BuilderInv
<1>11. ASSUME last = NoKey PROVE ReadAll!Promised(items')
  <2>1. SUFFICES ASSUME NEW k \in Keys
                 PROVE  /\ items'[k] <= 1
                        /\ k \in always => items'[k] = 1
                        /\ k \notin ever => items'[k] = 0
    BY DEF ReadAll!Promised, Once
  <2>2. k \in found <=> k \in Now /\ k > token.pos
    BY <1>11 DEF IsPage
  <2>3. always \subseteq Now /\ Now \subseteq ever
    BY DEF ReadInv, HistoryInv, Now
  <2>4. /\ k > token.pos \/ k \notin ever => items[k] = 0
        /\ k <= token.pos /\ k \in always => items[k] = 1
    BY DEF ReadInv, CollectedInv
  <2>5. k \in Nat /\ token.pos \in Nat /\ items[k] \in 0..1
    BY Types, Constants DEF ReadInv
  <2>6. QED
    BY <1>4, <2>2, <2>3, <2>4, <2>5
<1>12. QED
  BY <1>7, <1>8, <1>9, <1>10, <1>11 DEF ReadInv

\* The key a query's call starts with is the one the last page ended with, in
\* All as it is and in a walk through the cursor.
LEMMA QueryKeys ==
    ASSUME ExactKeys, ReadInv, NEW last, last \in Keys
    PROVE  /\ QueryStart(last) \in TokenType /\ QueryStart(last).pos = last
           /\ NextCursor(last) \in TokenType /\ NextCursor(last).pos = last
<1> DEFINE kind == KeyKind[QueryInput.source]
           json == IF kind = "N" THEN "json number" ELSE "json string"
<1>1. QueryInput.source \in Pks \cup Indexes
  BY Types, Constants DEF ReadInv, QueryInput, Builders
<1>2. kind \in TokenKinds /\ json \in TokenKinds /\ last # NoKey
  BY <1>1, Constants DEF TokenKinds
<1>3. QueryStart(last) = [kind |-> kind, pos |-> last]
  BY <1>2 DEF QueryStart
<1>4. kind = "N" => Rounded(last) = last
  BY <1>1 DEF ExactKeys
<1> HIDE DEF kind
<1>5. NextCursor(last) = [kind |-> json, pos |-> last]
  <2>1. NextCursor(last) = encodeCursor(QueryStart(last))
    BY <1>2 DEF NextCursor
  <2>2. QueryStart(last).kind = kind /\ QueryStart(last).pos = last
    BY <1>3
  <2>3. QED
    BY <1>4, <2>1, <2>2 DEF encodeCursor
<1> HIDE DEF json
<1>6. \A p \in TokenKinds : [kind |-> p, pos |-> last] \in TokenType
  BY DEF TokenType
<1>7. QED
  BY <1>2, <1>3, <1>5, <1>6

LEMMA CursorKeys == CursorKey.pos = token.pos
  BY DEF CursorKey, decodeCursor

LEMMA NoTokenFacts == NoToken \in TokenType /\ NoToken.pos = NoKey
  BY DEF TokenType, NoToken

\* A page with which a call goes on: next is the token it leads to.
LEMMA AllTurns ==
    ASSUME ReadInv, NEW pages, AllTurn(pages) \/ PageTurn(pages),
           \A page \in pages : \E last :
               /\ IsPage(page.items, last, token.pos)
               /\ page.next \in TokenType /\ page.next.pos = last
               /\ last = NoKey => page.next = NoToken
    PROVE  \E found, last : Turn(found, last)
<1>1. PICK page \in pages :
          /\ pc \in Running
          /\ items' = Collect(items, page.items)
          /\ token' = page.next
          /\ pc' \in IF page.next = NoToken THEN {"ok"} ELSE Running
          /\ UNCHANGED <<b, rows, replica, always, ever, changes>>
  BY DEF AllTurn, PageTurn, Running, table
<1>2. PICK last : /\ IsPage(page.items, last, token.pos)
                  /\ page.next \in TokenType /\ page.next.pos = last
                  /\ last = NoKey => page.next = NoToken
  OBVIOUS
<1>3. last # NoKey => page.next # NoToken
  BY <1>2, NoTokenFacts
<1>4. Turn(page.items, last)
  BY <1>1, <1>2, <1>3 DEF Turn
<1>5. QED
  BY <1>4

\* Each call that gets a page, of All or of a walk, is such a turn.
LEMMA PageStep ==
    ASSUME ExactKeys, ReadInv,
           QueryAllPage \/ StatementAllPage \/ QueryPage \/ StatementPage
    PROVE  \E found, last : Turn(found, last)
<1>1. token \in TokenType /\ token.pos \in Nat
  BY Types DEF ReadInv
<1>2. CASE QueryAllPage
  <2> DEFINE pages == {[items |-> page.items, next |-> QueryStart(page.last)] :
                           page \in QueryReplies(token)}
  <2>1. AllTurn(pages) /\ b.kind = "query"
    BY <1>2 DEF QueryAllPage
  <2>2. ASSUME NEW page \in QueryReplies(token)
        PROVE  /\ IsPage(page.items, page.last, token.pos)
               /\ QueryStart(page.last) \in TokenType /\ QueryStart(page.last).pos = page.last
               /\ page.last = NoKey => QueryStart(page.last) = NoToken
    <3>1. IsPage(page.items, page.last, token.pos)
      BY <1>1, <2>1, QueryPages
    <3>2. page.last = NoKey => QueryStart(page.last) = NoToken
      BY DEF QueryStart
    <3>3. QED
      BY <3>1, <3>2, QueryKeys, NoTokenFacts DEF IsPage
  <2>3. QED
    BY <2>1, <2>2, AllTurns
<1>3. CASE QueryPage
  <2> DEFINE pages == {[items |-> page.items, next |-> NextCursor(page.last)] :
                           page \in QueryReplies(CursorKey)}
  <2>1. PageTurn(pages) /\ b.kind = "query"
    BY <1>3 DEF QueryPage
  <2>2. ASSUME NEW page \in QueryReplies(CursorKey)
        PROVE  /\ IsPage(page.items, page.last, token.pos)
               /\ NextCursor(page.last) \in TokenType /\ NextCursor(page.last).pos = page.last
               /\ page.last = NoKey => NextCursor(page.last) = NoToken
    <3>1. IsPage(page.items, page.last, token.pos)
      BY <1>1, <2>1, CursorKeys, QueryPages
    <3>2. page.last = NoKey => NextCursor(page.last) = NoToken
      BY DEF NextCursor
    <3>3. QED
      BY <3>1, <3>2, QueryKeys, NoTokenFacts DEF IsPage
  <2>3. QED
    BY <2>1, <2>2, AllTurns
<1>4. CASE StatementAllPage \/ StatementPage
  <2> DEFINE all  == {[items |-> page.items, next |-> StatementNext(page.token)] :
                          page \in StatementReplies}
             walk == {[items |-> page.items, next |-> nextCursor(page.token)] :
                          page \in StatementReplies}
  <2>1. b.kind = "statement" /\ (AllTurn(all) \/ PageTurn(walk))
    BY <1>4 DEF StatementAllPage, StatementPage
  <2>2. ASSUME NEW page \in StatementReplies
        PROVE  \E last : /\ IsPage(page.items, last, token.pos)
                         /\ \A next \in {StatementNext(page.token), nextCursor(page.token)} :
                               /\ next \in TokenType /\ next.pos = last
                               /\ last = NoKey => next = NoToken
    <3>1. PICK last : /\ IsPage(page.items, last, token.pos)
                      /\ page.token \in IF last = NoKey
                                        THEN {NoToken, [kind |-> "token", pos |-> NoKey]}
                                        ELSE {[kind |-> "token", pos |-> last]}
      BY <2>1, StatementPages
    <3>2. CASE last = NoKey
      <4>1. page.token.pos = NoKey
        BY <3>1, <3>2, NoTokenFacts
      <4>2. StatementNext(page.token) = NoToken /\ nextCursor(page.token) = NoToken
        BY <4>1 DEF StatementNext, nextCursor
      <4>3. QED
        BY <3>1, <3>2, <4>2, NoTokenFacts
    <3>3. CASE last # NoKey
      <4>1. page.token = [kind |-> "token", pos |-> last] /\ last \in Keys
        BY <3>1, <3>3 DEF IsPage
      <4>2. page.token \in TokenType /\ page.token.pos = last
        BY <4>1 DEF TokenType, TokenKinds
      <4>3. StatementNext(page.token) = page.token /\ nextCursor(page.token) = page.token
        BY <3>3, <4>2, NoTokenFacts DEF StatementNext, nextCursor
      <4>4. QED
        BY <3>1, <3>3, <4>2, <4>3
    <3>4. QED
      BY <3>2, <3>3
  <2>3. CASE AllTurn(all)
    <3>1. \A page \in all : \E last :
              /\ IsPage(page.items, last, token.pos)
              /\ page.next \in TokenType /\ page.next.pos = last
              /\ last = NoKey => page.next = NoToken
      BY <2>2
    <3>2. QED
      BY <2>3, <3>1, AllTurns
  <2>4. CASE PageTurn(walk)
    <3>1. \A page \in walk : \E last :
              /\ IsPage(page.items, last, token.pos)
              /\ page.next \in TokenType /\ page.next.pos = last
              /\ last = NoKey => page.next = NoToken
      BY <2>2
    <3>2. QED
      BY <2>4, <3>1, AllTurns
  <2>5. QED
    BY <2>1, <2>3, <2>4
<1>5. QED
  BY <1>2, <1>3, <1>4

\* A step of a call that collects nothing and of which the caller knows that it
\* failed, or that waits.
LEMMA WaitStep ==
    ASSUME ReadInv, AllCalls \/ AllFails \/ PageFails \/ Abandon
    PROVE  ReadInv'
<1>1. UNCHANGED <<b, token, rows, replica, always, ever, changes>>
  BY DEF AllCalls, AllFails, PageFails, Abandon, table
<1>2. /\ pc \in Running
      /\ \/ items' = items /\ pc' \in Running
         \/ items' = Nothing /\ pc' = "err"
  <2>1. CASE AllCalls \/ PageFails
    BY <2>1 DEF AllCalls, PageFails, Running
  <2>2. CASE AllFails \/ Abandon
    BY <2>2 DEF AllFails, Abandon, Running
  <2>3. QED
    BY <2>1, <2>2
<1>3. Matching(rows, replica)' = Now
  BY <1>1 DEF Now, Matching, Partition
<1>4. TypeOK'
  BY <1>1, <1>2 DEF ReadInv, TypeOK, Nothing
<1>5. HistoryInv' /\ BuilderInv'
  BY <1>1, <1>2, <1>3 DEF ReadInv, HistoryInv, BuilderInv, Now
<1>6. CollectedInv'
  <2>1. pc' \in Running => items' = items /\ pc \in Running
    BY <1>2 DEF Running
  <2>2. QED
    BY <1>1, <2>1 DEF ReadInv, CollectedInv
<1>7. QED
  BY <1>4, <1>5, <1>6 DEF ReadInv

\* Others write, or the replica catches up.
LEMMA SeeStep ==
    ASSUME ReadInv, NEW t \in Table, NEW r \in Table, See(t, r), changes' \in 0..MaxChanges
    PROVE  ReadInv'
<1>1. /\ rows' = t /\ replica' = r
      /\ always' = always \cap Matching(t, r) /\ ever' = ever \cup Matching(t, r)
      /\ UNCHANGED <<b, pc, token, items>>
  BY DEF See
<1>2. Matching(rows, replica)' = Matching(t, r)
  BY <1>1 DEF Matching, Partition
<1>3. Matching(t, r) \subseteq Keys
  BY Types DEF Matching, ReadInv
<1>4. TypeOK'
  BY <1>1, <1>3 DEF ReadInv, TypeOK
<1>5. HistoryInv' /\ BuilderInv'
  BY <1>1, <1>2 DEF ReadInv, HistoryInv, BuilderInv
<1>6. CollectedInv'
  BY <1>1 DEF ReadInv, CollectedInv
<1>7. QED
  BY <1>4, <1>5, <1>6 DEF ReadInv

\* What others do to the table is something the table can be.
LEMMA Sees ==
    ASSUME ReadInv,
           \/ \E k \in Keys, row \in Rows \cup {Absent} : Change(k, row)
           \/ \E k \in Keys : Replicate(k)
    PROVE  /\ \E t \in Table, r \in Table : See(t, r)
           /\ changes' \in 0..MaxChanges
<1>1. rows \in Table /\ replica \in Table /\ changes \in 0..MaxChanges
  BY DEF ReadInv, TypeOK
<1>2. ASSUME NEW k \in Keys, NEW row \in Rows \cup {Absent}, Change(k, row)
      PROVE  /\ \E t \in Table, r \in Table : See(t, r)
             /\ changes' \in 0..MaxChanges
  <2>1. [rows EXCEPT ![k] = row] \in Table
    BY <1>1 DEF Table
  <2>2. QED
    BY <1>1, <1>2, <2>1, Constants DEF Change
<1>3. ASSUME NEW k \in Keys, Replicate(k)
      PROVE  /\ \E t \in Table, r \in Table : See(t, r)
             /\ changes' \in 0..MaxChanges
  <2>1. [replica EXCEPT ![k] = rows[k]] \in Table
    BY <1>1 DEF Table
  <2>2. QED
    BY <1>1, <1>3, <2>1 DEF Replicate
<1>4. QED
  BY <1>2, <1>3

\* The steps by what they do.
LEMMA Steps ==
    ASSUME Next
    PROVE  \/ Setting
           \/ \E mode \in Running : \E failed : Begin(mode, failed)
           \/ QueryAllPage \/ StatementAllPage \/ QueryPage \/ StatementPage
           \/ AllCalls \/ AllFails \/ PageFails \/ Abandon
           \/ \E k \in Keys, row \in Rows \cup {Absent} : Change(k, row)
           \/ \E k \in Keys : Replicate(k)
<1>1. CASE QueryAll \/ StatementAll \/ QueryWalk \/ StatementWalk
  <2>1. "all" \in Running /\ "walk" \in Running
    BY DEF Running
  <2>2. QED
    BY <1>1, <2>1 DEF QueryAll, StatementAll, QueryWalk, StatementWalk
<1>2. QED
  BY <1>1 DEF Next, Setting

LEMMA ReadStep ==
    ASSUME ExactKeys
    PROVE  ReadInv /\ [Next]_vars => ReadInv'
<1> SUFFICES ASSUME ReadInv, [Next]_vars PROVE ReadInv'
  OBVIOUS
<1>1. CASE UNCHANGED vars
  <2>1. UNCHANGED <<rows, replica, b, pc, token, items, always, ever, changes>>
    BY <1>1 DEF vars
  <2>2. Matching(rows, replica)' = Matching(rows, replica)
    BY <2>1 DEF Matching, Partition
  <2>3. TypeOK' /\ BuilderInv'
    BY <2>1 DEF ReadInv, TypeOK, BuilderInv
  <2>4. HistoryInv' /\ CollectedInv'
    BY <2>1, <2>2 DEF ReadInv, HistoryInv, CollectedInv
  <2>5. QED
    BY <2>3, <2>4 DEF ReadInv
<1>2. CASE Setting
  BY <1>2, SettingStep
<1>3. ASSUME NEW mode \in Running, NEW failed, Begin(mode, failed) PROVE ReadInv'
  BY <1>3, BeginStep
<1>4. CASE QueryAllPage \/ StatementAllPage \/ QueryPage \/ StatementPage
  BY <1>4, PageStep, TurnStep
<1>5. CASE AllCalls \/ AllFails \/ PageFails \/ Abandon
  BY <1>5, WaitStep
<1>6. CASE \/ \E k \in Keys, row \in Rows \cup {Absent} : Change(k, row)
           \/ \E k \in Keys : Replicate(k)
  BY <1>6, Sees, SeeStep
<1>7. QED
  BY <1>1, <1>2, <1>3, <1>4, <1>5, <1>6, Steps

\* The inductive invariant of All and of a walk with Page, while others write
\* (query.go 349-390, statement.go 87-139), provided that the cursors of the walk
\* name the keys they were made from.
THEOREM ReadInvariance ==
    ASSUME ExactKeys
    PROVE  Spec => []ReadInv
  BY ReadInit, ReadStep, PTL DEF Spec

-----------------------------------------------------------------------------
(* A read returns every row that matched all the time exactly once. *)

LEMMA Refines ==
    ASSUME ExactKeys, ReadInv, [Next]_vars
    PROVE  \/ ReadAll!Next
           \/ UNCHANGED <<Matching(rows, replica), Once, always, ever, Status, Returned>>
<1>1. /\ ReadInv' /\ Once' = Once /\ Once \in [Keys -> Nat]
      /\ Matching(rows, replica)' \subseteq Keys
  <2>1. ReadInv'
    BY ReadStep
  <2>2. b'.sk \subseteq Keys
    <3>1. b'.sk \in Ranges \cup {Keys}
      BY <2>1 DEF ReadInv, TypeOK
    <3>2. QED
      BY <3>1, Constants
  <2>3. QED
    BY <2>1, <2>2 DEF Once, Matching
<1>2. UNCHANGED <<b, rows, replica>> => Matching(rows, replica)' = Matching(rows, replica)
  BY DEF Matching, Partition
<1>3. pc \in Running \cup {"building", "ok", "err"}
  BY DEF ReadInv, TypeOK
<1>4. CASE Setting
  <2>1. /\ pc \notin Running /\ pc' = pc
        /\ UNCHANGED <<items, rows, replica, always, ever>>
    BY <1>4 DEF Setting, WherePK, SKCond, Filter, Index, LimitQuery, LimitStatement,
       ConsistentRead, BuildQuery, BuildStatement, Build, table
  <2>2. Status' = Status /\ Returned' = Returned /\ Status # "running"
    BY <1>3, <2>1 DEF Status, Returned, Running, Nothing
  <2>3. QED
    BY <1>1, <2>1, <2>2 DEF ReadAll!Next, ReadAll!Build, ReadAll!Bag
<1>5. ASSUME pc' = "err", items' = Nothing, UNCHANGED <<b, rows, replica, always, ever>>
      PROVE  ReadAll!Next
  <2>1. Status' = "err" /\ Returned' = Nothing
    BY <1>5 DEF Status, Returned, Running
  <2>2. QED
    BY <1>1, <1>2, <1>5, <2>1 DEF ReadAll!Next, ReadAll!Fail, ReadAll!Nothing, Nothing
<1>6. ASSUME NEW mode \in Running, NEW failed, Begin(mode, failed) PROVE ReadAll!Next
  <2>1. CASE failed
    BY <1>5, <1>6, <2>1 DEF Begin
  <2>2. CASE ~failed
    <3>1. /\ pc \notin Running /\ pc' \in Running
          /\ always' = Matching(rows, replica) /\ ever' = Matching(rows, replica)
          /\ UNCHANGED <<b, rows, replica>>
      BY <1>6, <2>2 DEF Begin
    <3>2. Status # "running" /\ Status' = "running" /\ Returned' = Nothing
      BY <1>3, <3>1 DEF Status, Returned, Running
    <3>3. QED
      BY <1>1, <1>2, <3>1, <3>2 DEF ReadAll!Next, ReadAll!Begin, ReadAll!Nothing, Nothing
  <2>3. QED
    BY <2>1, <2>2
<1>7. ASSUME pc \in Running, pc' \in Running, UNCHANGED <<b, rows, replica, always, ever>>
      PROVE  UNCHANGED <<Matching(rows, replica), Once, always, ever, Status, Returned>>
  <2>1. Status' = Status /\ Returned' = Returned
    BY <1>7 DEF Status, Returned, Running, Nothing
  <2>2. QED
    BY <1>1, <1>2, <1>7, <2>1
<1>8. CASE QueryAllPage \/ StatementAllPage \/ QueryPage \/ StatementPage
  <2>1. PICK found, last : Turn(found, last)
    BY <1>8, PageStep
  <2>2. CASE last # NoKey
    BY <1>7, <2>1, <2>2 DEF Turn
  <2>3. CASE last = NoKey
    <3>1. ReadAll!Promised(items') /\ items' \in [Keys -> Nat]
      BY <1>1, <2>1, <2>3, TurnStep DEF ReadInv, TypeOK
    <3>2. Status = "running" /\ Status' = "ok" /\ Returned' = items'
      BY <2>1, <2>3 DEF Turn, Status, Returned, Running
    <3>3. UNCHANGED <<b, rows, replica, always, ever>>
      BY <2>1 DEF Turn
    <3>4. QED
      BY <1>1, <1>2, <3>1, <3>2, <3>3
         DEF ReadAll!Next, ReadAll!Return, ReadAll!Bag, ReadAll!Promised
  <2>4. QED
    BY <2>2, <2>3
<1>9. CASE AllCalls \/ PageFails
  BY <1>7, <1>9 DEF AllCalls, PageFails, Running, table
<1>10. CASE AllFails \/ Abandon
  BY <1>5, <1>10 DEF AllFails, Abandon, table
<1>11. CASE \/ \E k \in Keys, row \in Rows \cup {Absent} : Change(k, row)
            \/ \E k \in Keys : Replicate(k)
  <2>1. PICK t \in Table, r \in Table : See(t, r)
    BY <1>11, Sees
  <2>2. /\ rows' = t /\ replica' = r
        /\ always' = always \cap Matching(t, r) /\ ever' = ever \cup Matching(t, r)
        /\ UNCHANGED <<b, pc, items>>
    BY <2>1 DEF See
  <2>3. Matching(rows, replica)' = Matching(t, r)
    BY <2>2 DEF Matching, Partition
  <2>4. Status' = Status /\ Returned' = Returned
    BY <2>2 DEF Status, Returned, Nothing
  <2>5. QED
    BY <1>1, <2>2, <2>3, <2>4 DEF ReadAll!Next, ReadAll!Change
<1>12. CASE UNCHANGED vars
  <2>1. UNCHANGED <<b, rows, replica, always, ever, pc, items>>
    BY <1>12 DEF vars
  <2>2. Status' = Status /\ Returned' = Returned
    BY <2>1 DEF Status, Returned, Nothing
  <2>3. QED
    BY <1>1, <1>2, <2>1, <2>2
<1>13. QED
  BY <1>4, <1>6, <1>8, <1>9, <1>10, <1>11, <1>12, Steps

\* All, and a walk with Page whatever calls of it fail and are repeated, return
\* every row that matched all the time exactly once and no row that never did, or
\* nothing and an error (query.go 349-390, statement.go 87-139).  ExactKeys is
\* needed: a cursor whose number a float64 rounds names another key.
THEOREM ReadsReadAll ==
    ASSUME ExactKeys
    PROVE  Spec => ImplementsReadAll
<1>1. Init => ReadAll!Init
  <2>1. ASSUME Init
        PROVE  /\ Status = "idle" /\ Returned = Nothing /\ Matching(rows, replica) \subseteq Keys
               /\ Once \in [Keys -> Nat] /\ Nothing \in [Keys -> Nat]
               /\ always = {} /\ ever = {}
    <3>1. pc = "building" /\ items = Nothing /\ always = {} /\ ever = {}
      BY <2>1 DEF Init, Start
    <3>2. b.sk \subseteq Keys
      BY <2>1, ReadInit, Types DEF ReadInv
    <3>3. QED
      BY <3>1, <3>2 DEF Status, Returned, Matching, Once, Nothing, Running
  <2>2. QED
    BY <2>1 DEF ReadAll!Init, ReadAll!TypeOK, ReadAll!Bag, ReadAll!Nothing, Nothing
<1>2. ReadInv /\ [Next]_vars => [ReadAll!Next]_(ReadAll!vars)
  BY Refines DEF ReadAll!vars
<1>3. QED
  BY <1>1, <1>2, ReadInit, ReadStep, PTL DEF Spec, ImplementsReadAll, ReadAll!Spec

-----------------------------------------------------------------------------
(* The safe half of AllEnds: each page leads further, of a walk too. *)

\* Whether it runs, the keys to come, and whether the next call is to be made.
ToCome == {k \in Keys : k > token.pos}
Left ==
    <<IF pc \in Running THEN 1 ELSE 0,
      Cardinality(ToCome),
      IF pc \in {"all", "walk"} THEN 1 ELSE 0>>

GoesOn ==
    pc \in Running => \/ <<Left', Left>> \in Less(3)
                      \/ UNCHANGED <<b, pc, token, items>>

ReadGoesOn == [][GoesOn]_vars

LEMMA Lower ==
    ASSUME NEW a1 \in Nat, NEW a2 \in Nat, NEW a3 \in Nat,
           NEW b1 \in Nat, NEW b2 \in Nat, NEW b3 \in Nat,
           \/ b1 < a1
           \/ b1 = a1 /\ b2 < a2
           \/ b1 = a1 /\ b2 = a2 /\ b3 < a3
    PROVE  <<<<b1, b2, b3>>, <<a1, a2, a3>>>> \in Less(3)
<1> DEFINE before == <<a1, a2, a3>>
           after  == <<b1, b2, b3>>
<1>1. before \in [1..3 -> Nat] /\ after \in [1..3 -> Nat]
  OBVIOUS
<1>2. \E j \in 1..3 : /\ \A i \in 1..(j - 1) : after[i] = before[i]
                      /\ after[j] < before[j] /\ after[j] \in Nat /\ before[j] \in Nat
  <2>1. /\ \A i \in 1..(1 - 1) : FALSE
        /\ \A i \in 1..(2 - 1) : i = 1
        /\ \A i \in 1..(3 - 1) : i \in {1, 2}
    OBVIOUS
  <2>2. QED
    BY <2>1
<1>3. QED
  BY <1>1, <1>2 DEF Less, LexProductOrdering, OpToRel

\* To compare what is left, it is enough to do it number by number.
LEMMA LeftLower ==
    ASSUME Cardinality(ToCome) \in Nat, Cardinality(ToCome') \in Nat,
           \/ Left'[1] < Left[1]
           \/ Left'[1] = Left[1] /\ Left'[2] < Left[2]
           \/ Left'[1] = Left[1] /\ Left'[2] = Left[2] /\ Left'[3] < Left[3]
    PROVE  <<Left', Left>> \in Less(3)
<1>1. Left[1] \in Nat /\ Left[2] \in Nat /\ Left[3] \in Nat
  BY DEF Left
<1>2. Left'[1] \in Nat /\ Left'[2] \in Nat /\ Left'[3] \in Nat
  BY DEF Left
<1>3. <<<<Left'[1], Left'[2], Left'[3]>>, <<Left[1], Left[2], Left[3]>>>> \in Less(3)
  BY <1>1, <1>2, Lower
<1>4. Left = <<Left[1], Left[2], Left[3]>> /\ Left' = <<Left'[1], Left'[2], Left'[3]>>
  BY DEF Left
<1>5. QED
  BY <1>3, <1>4

LEMMA ReadDescends ==
    ASSUME ExactKeys, IsFiniteSet(Keys), ReadInv, pc \in Running, Next
    PROVE  \/ <<Left', Left>> \in Less(3)
           \/ UNCHANGED <<b, pc, token, items>>
<1>1. /\ IsFiniteSet(ToCome) /\ Cardinality(ToCome) \in Nat
      /\ IsFiniteSet(ToCome') /\ Cardinality(ToCome') \in Nat
  <2>1. ToCome \subseteq Keys /\ ToCome' \subseteq Keys
    BY DEF ToCome
  <2>2. QED
    BY <2>1, FS_Subset, FS_CardinalityType
<1>2. CASE Setting
  BY <1>2 DEF Setting, WherePK, SKCond, Filter, Index, LimitQuery, LimitStatement,
     ConsistentRead, BuildQuery, BuildStatement, Build
<1>3. ASSUME NEW mode \in Running, NEW failed, Begin(mode, failed) PROVE FALSE
  BY <1>3 DEF Begin
<1>4. CASE QueryAllPage \/ StatementAllPage \/ QueryPage \/ StatementPage
  <2>1. PICK found, last : Turn(found, last)
    BY <1>4, PageStep
  <2>2. CASE last = NoKey
    <3>1. pc' \notin Running
      BY <2>1, <2>2 DEF Turn, Running
    <3>2. Left'[1] < Left[1]
      BY <3>1 DEF Left
    <3>3. QED
      BY <1>1, <3>2, LeftLower
  <2>3. CASE last # NoKey
    <3>1. /\ pc' \in Running /\ token'.pos = last
          /\ last \in Keys /\ last > token.pos
          /\ token.pos \in Nat /\ Keys \subseteq Nat
      BY <2>1, <2>3, Types, Constants DEF Turn, IsPage, ReadInv
    <3>2. ToCome' \subseteq ToCome /\ last \in ToCome /\ last \notin ToCome'
      <4>1. last \in Nat /\ token.pos \in Nat /\ \A k \in Keys : k \in Nat
        BY <3>1
      <4>2. \A k \in Keys : k > last => k > token.pos
        BY <3>1, <4>1
      <4>3. ToCome' = {k \in Keys : k > last}
        BY <3>1 DEF ToCome
      <4>4. last \in ToCome /\ last \notin ToCome'
        BY <3>1, <4>1, <4>3 DEF ToCome
      <4>5. \A k \in ToCome' : k \in ToCome
        BY <4>2, <4>3 DEF ToCome
      <4>6. QED
        BY <4>4, <4>5
    <3>3. Cardinality(ToCome') < Cardinality(ToCome)
      <4>1. Cardinality(ToCome') <= Cardinality(ToCome)
            /\ (Cardinality(ToCome') = Cardinality(ToCome) => ToCome' = ToCome)
        BY <1>1, <3>2, FS_Subset
      <4>2. QED
        BY <1>1, <3>2, <4>1
    <3>4. QED
      BY <1>1, <3>1, <3>3, LeftLower DEF Left
  <2>4. QED
    BY <2>2, <2>3
<1>5. CASE AllCalls \/ PageFails
  <2>1. ToCome' = ToCome
    BY <1>5 DEF AllCalls, PageFails, ToCome
  <2>2. pc \in {"all", "walk"} /\ pc' \notin {"all", "walk"} /\ pc' \in Running
    BY <1>5 DEF AllCalls, PageFails, Running
  <2>3. Left'[1] = Left[1] /\ Left'[2] = Left[2] /\ Left'[3] < Left[3]
    BY <2>1, <2>2 DEF Left
  <2>4. QED
    BY <1>1, <2>3, LeftLower
<1>6. CASE AllFails \/ Abandon
  <2>1. pc' \notin Running
    BY <1>6 DEF AllFails, Abandon, Running
  <2>2. Left'[1] < Left[1]
    BY <2>1 DEF Left
  <2>3. QED
    BY <1>1, <2>2, LeftLower
<1>7. CASE \/ \E k \in Keys, row \in Rows \cup {Absent} : Change(k, row)
           \/ \E k \in Keys : Replicate(k)
  BY <1>7 DEF Change, Replicate, See
<1>8. QED
  BY <1>2, <1>3, <1>4, <1>5, <1>6, <1>7, Steps

\* Each page of All and of a walk leads further, however many are empty, and what
\* others do to the table does not lead back: neither is endless (query.go 351-376,
\* statement.go 108-139).  With a cursor that names another key a walk can be.
THEOREM ReadNeverTurnsBack ==
    ASSUME ExactKeys, IsFiniteSet(Keys)
    PROVE  Spec => ReadGoesOn
<1>1. ReadInv /\ [Next]_vars => [GoesOn]_vars
  BY ReadDescends DEF GoesOn
<1>2. QED
  BY <1>1, ReadInvariance, PTL DEF Spec, ReadGoesOn
=============================================================================
