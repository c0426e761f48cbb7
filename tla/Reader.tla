------------------------------- MODULE Reader --------------------------------
(***************************************************************************)
(* A caller of the builders that read page by page, QueryBuilder and       *)
(* StatementBuilder, on a table that other programs change: it builds, and *)
(* then runs All, which goes through all pages, or walks with Page and     *)
(* hands the cursor back.  Query and Statement say what each builder sends *)
(* and makes of a response; what their loops have in common is here.       *)
(*                                                                         *)
(* Keys are the positions of the rows in the order of the sort key.  A row *)
(* is in some partitions: that of its PK, and those of the indexes it is   *)
(* in; what a condition says of a row is in the row's set sat.             *)
(***************************************************************************)
EXTENDS Paging, Filters

CONSTANTS
    Keys,          \* positions in the order of the sort key
    Rows,          \* what can be at a position: records of in and sat
    Pks, Indexes,  \* partition key values, and the names of the indexes
    gsi1Name,      \* db.gsi1Name
    Ranges,        \* the keys an SK condition can select
    Limits,        \* the page sizes callers set
    MaxSettings,   \* bound: how many settings of a builder differ from the default
    MaxChanges     \* bound: how often others change a row

Absent == [in |-> {}, sat |-> {}]
None == "none"

ASSUME ReaderAssumption ==
    /\ Keys \subseteq Nat \ {0}
    /\ \A r \in Rows : r.in \subseteq Pks \cup Indexes /\ r.sat \subseteq Conds
    /\ None \notin Pks \cup Indexes /\ gsi1Name \in Indexes
    /\ Ranges \subseteq SUBSET Keys
    /\ Limits \subseteq Nat \ {0}
    /\ MaxSettings \in Nat /\ MaxChanges \in Nat

VARIABLES
    rows,      \* the row at each position
    replica,   \* what an eventually consistent read sees there
    b,         \* the builder
    pc,        \* what the caller does with it
    token,     \* where the next page starts: in the input of All, or the caller's cursor
    items,     \* the items collected: how often each key is among them
    always,    \* history: the keys that matched ever since the call began
    ever,      \* history: the keys that matched at some time since
    changes    \* how often others changed a row

vars == <<rows, replica, b, pc, token, items, always, ever, changes>>
table == <<rows, replica, always, ever, changes>>

Table == [Keys -> Rows \cup {Absent}]
Nothing == [k \in Keys |-> 0]
NoToken == [kind |-> "none", pos |-> NoKey]
TokenKinds == {"S", "N", "B", "json string", "json number", "token"}
Running == {"all", "all waits", "walk", "walk failed"}

TypeOK ==
    /\ rows \in Table /\ replica \in Table
    /\ b       \in [kind : {"query", "statement"}, pk : Pks \cup {None}, sk : Ranges \cup {Keys},
                    filters : SUBSET Conds, index : Indexes \cup {None}, limit : Limits \cup {NoLimit},
                    consistentRead : BOOLEAN, err : BOOLEAN]
    /\ pc      \in Running \cup {"building", "ok", "err"}
    /\ token   \in [kind : TokenKinds, pos : Keys] \cup {NoToken}
    /\ items   \in [Keys -> 0..1]
    /\ always \subseteq Keys /\ ever \subseteq Keys
    /\ changes \in 0..MaxChanges

Start(builders) ==
    /\ rows \in Table /\ replica = rows
    /\ b \in builders
    /\ pc = "building"
    /\ token = NoToken
    /\ items = Nothing
    /\ always = {} /\ ever = {}
    /\ changes = 0

\* What is asked for, in the words of the methods' comments: the rows of the
\* partition or of the type, or of the statement, that satisfy every condition,
\* as the kind of read that was set sees them.
Partition ==
    CASE b.pk # None -> b.pk
      [] b.pk = None /\ b.index # None -> b.index
      [] OTHER -> gsi1Name

Matching(t, r) ==
    LET seen == IF b.consistentRead THEN t ELSE r
    IN  {k \in b.sk : /\ seen[k] # Absent
                      /\ b.kind = "query" => Partition \in seen[k].in
                      /\ \A f \in b.filters : f \in seen[k].sat}

-----------------------------------------------------------------------------
\* How many settings the caller chose.
Settings(builder) ==
    LET set(chosen) == IF chosen THEN 1 ELSE 0
    IN  set(builder.pk # None) + set(builder.sk # Keys) + set(builder.index # None)
        + set(builder.limit # NoLimit) + set(builder.consistentRead)
        + Cardinality(builder.filters)

\* A method that sets something; a builder can be changed and run again.
Build(new) ==
    /\ pc \notin Running
    /\ Settings(new) <= MaxSettings
    /\ b' = new
    /\ UNCHANGED <<pc, token, items, table>>

\* A call begins, All or the first Page of a walk; it may fail at once.
Begin(mode, failed) ==
    /\ pc \notin Running
    /\ token' = NoToken
    /\ items' = Nothing
    /\ pc' = IF failed THEN "err" ELSE mode
    /\ IF failed THEN UNCHANGED <<always, ever>>
       ELSE always' = Matching(rows, replica) /\ ever' = Matching(rows, replica)
    /\ UNCHANGED <<rows, replica, b, changes>>

\* Each turn of All's loop sends a request.
AllCalls ==
    /\ pc = "all"
    /\ pc' = "all waits"
    /\ UNCHANGED <<b, token, items, table>>

\* A mutant of AllTurn: a page without items ends the loop.
AllTurnUntilEmpty(pages) ==
    /\ pc = "all waits"
    /\ \E page \in pages :
          /\ items' = Collect(items, page.items)
          /\ token' = page.next
          /\ pc' = IF page.next = NoToken \/ page.items = {} THEN "ok" ELSE "all"
    /\ UNCHANGED <<b, table>>

\* The rest of the turn: the page is collected and leads to the next one.
AllTurn(pages) ==
    /\ pc = "all waits"
    /\ \E page \in pages :
          /\ items' = Collect(items, page.items)
          /\ token' = page.next
          /\ pc' = IF page.next = NoToken THEN "ok" ELSE "all"
    /\ UNCHANGED <<b, table>>

\* The call or the unmarshaling of an item fails.
AllFails ==
    /\ pc = "all waits"
    /\ pc' = "err"
    /\ items' = Nothing
    /\ UNCHANGED <<b, token, table>>

\* A caller that walks calls Page with the last cursor it got, also after a
\* Page that failed, and keeps the items, until the cursor is empty.
PageTurn(pages) ==
    /\ pc \in {"walk", "walk failed"}
    /\ \E page \in pages :
          /\ items' = Collect(items, page.items)
          /\ token' = page.next
          /\ pc' = IF page.next = NoToken THEN "ok" ELSE "walk"
    /\ UNCHANGED <<b, table>>

\* The cursor came back damaged, the call failed, the service refused the key,
\* or an item did not unmarshal: nothing is returned.
PageFails ==
    /\ pc = "walk"
    /\ pc' = "walk failed"
    /\ UNCHANGED <<b, token, items, table>>

\* The caller ends the walk.
Abandon ==
    /\ pc = "walk failed"
    /\ pc' = "err"
    /\ items' = Nothing
    /\ UNCHANGED <<b, token, table>>

-----------------------------------------------------------------------------
See(t, r) ==
    /\ rows' = t /\ replica' = r
    /\ always' = always \cap Matching(t, r)
    /\ ever' = ever \cup Matching(t, r)
    /\ UNCHANGED <<b, pc, token, items>>

\* Another program puts, changes or deletes a row.
Change(k, row) ==
    /\ changes < MaxChanges
    /\ row # rows[k]
    /\ changes' = changes + 1
    /\ See([rows EXCEPT ![k] = row], replica)

\* The replica catches up on one key (external).
Replicate(k) ==
    /\ replica[k] # rows[k]
    /\ See(rows, [replica EXCEPT ![k] = rows[k]])
    /\ UNCHANGED changes
=============================================================================
