--------------------------- MODULE BatchGetProofs ---------------------------
(***************************************************************************)
(* Proofs about BatchGet, for queues, chunks and retries of any size and   *)
(* any number of changes by others.                                        *)
(***************************************************************************)
EXTENDS BatchGet, Descent, FiniteSetTheorems, TLAPS

\* A set of positions of the queue is finite.
LEMMA PositionsFinite ==
    ASSUME TypeOK, NEW S, S \subseteq DOMAIN ids
    PROVE  IsFiniteSet(S) /\ Cardinality(S) \in Nat
<1>1. Len(ids) \in Nat /\ DOMAIN ids = 1..Len(ids)
  BY DEF TypeOK
<1>2. IsFiniteSet(1..Len(ids))
  BY <1>1, FS_Interval
<1>3. IsFiniteSet(S)
  BY <1>1, <1>2, FS_Subset
<1>4. QED
  BY <1>3, FS_CardinalityType

\* A chunk has at most ChunkSize keys (batch.go 19, 88-90).
LEMMA ChunkFits ==
    ASSUME TypeOK, NEW S, S \subseteq Chunk
    PROVE  Cardinality(S) <= ChunkSize
<1> DEFINE from == start + 1
           to == start + ChunkSize
<1>1. start \in Nat /\ ChunkSize \in Nat /\ ChunkSize > 0 /\ Len(ids) \in Nat
  BY BatchGetAssumption DEF TypeOK
<1>2. from \in Int /\ to \in Int /\ ~(from > to) /\ to - from + 1 = ChunkSize
  BY <1>1
<1>3. IsFiniteSet(from..to) /\ Cardinality(from..to) = ChunkSize
  <2> HIDE DEF from, to
  <2>1. QED
    BY <1>2, FS_Interval
<1>4. S \subseteq from..to
  BY <1>1 DEF Chunk, TypeOK
<1> HIDE DEF from, to
<1>5. Cardinality(S) <= Cardinality(from..to)
  BY <1>3, <1>4, FS_Subset
<1>6. QED
  BY <1>3, <1>5

LEMMA GetInit == Init => GetInv
<1> SUFFICES ASSUME Init PROVE GetInv
  OBVIOUS
<1>1. Cardinality({}) = 0
  BY FS_EmptySet
<1>2. TypeOK
  BY <1>1, BatchGetAssumption DEF Init, TypeOK, Nothing
<1>3. QED
  BY <1>2 DEF Init, GetInv, Sending, HistoryInv, ItemsInv, Running

\* A step that leaves the set of positions whose key was read alone.
LEMMA SameCounted ==
    ASSUME GetInv, pc \in Running, pc' \in Running, Counted' = Counted,
           UNCHANGED <<ids, items, rows, always, ever>>
    PROVE  HistoryInv' /\ ItemsInv'
<1>1. \A k \in Keys : Wanted(k)' = Wanted(k)
  BY DEF Wanted
<1>2. QED
  BY <1>1 DEF GetInv, HistoryInv, ItemsInv

LEMMA ProcessStep ==
    ASSUME GetInv, NEW i \in todo, Process(i)
    PROVE  GetInv'
<1> USE DEF GetInv
<1>1. /\ pc = "waiting" /\ Sending /\ todo' = todo \ {i}
      /\ items' = IF ids[i] \in rows THEN [items EXCEPT ![ids[i]] = @ + 1] ELSE items
      /\ UNCHANGED <<ids, pc, start, request, attempt, rows, always, ever, changes>>
  BY DEF Process, table, Sending
<1>2. /\ i \in Chunk /\ i \in DOMAIN ids /\ ids[i] \in Keys
      /\ i \in Nat /\ ~(i <= start) /\ start \in Nat
  BY <1>1 DEF Chunk, TypeOK
<1>3. TypeOK'
  BY <1>1, <1>2 DEF TypeOK
<1>4. Chunk' = Chunk /\ Sending'
  BY <1>1 DEF Chunk, Sending
<1>5. Counted' = Counted \cup {i} /\ i \notin Counted
  BY <1>1, <1>2, <1>4 DEF Counted
<1>6. HistoryInv'
  BY <1>1 DEF HistoryInv
<1>7. ItemsInv'
  <2> SUFFICES ASSUME NEW k \in Keys
               PROVE  LET n == Cardinality(Wanted(k)' \cap Counted')
                      IN  /\ items'[k] <= n
                          /\ k \in always' => items'[k] = n
                          /\ k \notin ever' => items'[k] = 0
    BY DEF ItemsInv
  <2> DEFINE S == Wanted(k) \cap Counted
             had == Cardinality(S)
  <2>1. Wanted(k)' = Wanted(k)
    BY <1>1 DEF Wanted
  <2>2. IsFiniteSet(S) /\ had \in Nat
    BY PositionsFinite DEF Counted
  <2>3. /\ items[k] <= had /\ items[k] \in Nat
        /\ k \in always => items[k] = had
        /\ k \notin ever => items[k] = 0
        /\ always \subseteq rows /\ rows \subseteq ever
    BY <1>1 DEF ItemsInv, HistoryInv, Running, TypeOK
  <2>4. CASE ids[i] = k
    <3>1. Wanted(k)' \cap Counted' = S \cup {i} /\ i \notin S
      BY <1>2, <1>5, <2>1, <2>4 DEF Wanted
    <3>2. Cardinality(S \cup {i}) = had + 1
      <4> HIDE DEF S
      <4>1. QED
        BY <2>2, <3>1, FS_AddElement
    <3>3. items'[k] = IF k \in rows THEN items[k] + 1 ELSE items[k]
      BY <1>1, <2>4 DEF TypeOK
    <3> HIDE DEF S, had
    <3>4. Cardinality(Wanted(k)' \cap Counted') = had + 1
      BY <3>1, <3>2
    <3>5. always' = always /\ ever' = ever
      BY <1>1
    <3>6. QED
      BY <2>2, <2>3, <3>3, <3>4, <3>5
  <2>5. CASE ids[i] # k
    <3>1. Wanted(k)' \cap Counted' = S
      BY <1>5, <2>1, <2>5 DEF Wanted
    <3>2. items'[k] = items[k]
      BY <1>1, <1>2, <2>5 DEF TypeOK
    <3> HIDE DEF S
    <3>3. QED
      BY <1>1, <2>3, <3>1, <3>2
  <2>6. QED
    BY <2>4, <2>5
<1>8. QED
  BY <1>1, <1>3, <1>4, <1>6, <1>7

LEMMA RespondStep ==
    ASSUME GetInv, Respond \/ CallFails
    PROVE  GetInv'
<1> USE DEF GetInv
<1>1. /\ pc = "waiting" /\ Sending /\ request \subseteq Chunk
      /\ UNCHANGED <<ids, attempt, rows, always, ever, changes>>
      /\ start \in Nat /\ ChunkSize \in Nat /\ ids \in Seq(Keys)
  BY BatchGetAssumption DEF Respond, CallFails, table, Sending, TypeOK
<1>2. CASE ChunkDone
  <2>1. /\ todo = {} /\ start' = start + ChunkSize /\ pc' = "chunk"
        /\ UNCHANGED <<request, todo, items>>
    BY <1>2 DEF ChunkDone
  <2>2. TypeOK'
    BY <1>1, <2>1 DEF TypeOK, Running
  <2>3. Counted' = Counted
    BY <1>1, <2>1 DEF Counted, Sending, Chunk
  <2>4. HistoryInv' /\ ItemsInv'
    BY <1>1, <2>1, <2>3, SameCounted DEF Running
  <2>5. QED
    BY <2>1, <2>2, <2>4 DEF Sending
<1>3. CASE Retry
  <2>1. /\ request' = todo /\ attempt < MaxRetries /\ pc' = "sleeping"
        /\ UNCHANGED <<start, todo, items>>
    BY <1>3 DEF Retry
  <2>2. Chunk' = Chunk
    BY <1>1, <2>1 DEF Chunk
  <2>3. todo \subseteq Chunk /\ Cardinality(todo) <= ChunkSize
    BY <1>1, ChunkFits DEF TypeOK
  <2>4. TypeOK'
    BY <1>1, <2>1, <2>3 DEF TypeOK, Running
  <2>5. Counted' = Counted
    BY <1>1, <2>1, <2>2 DEF Counted, Sending
  <2>6. HistoryInv' /\ ItemsInv'
    BY <1>1, <2>1, <2>5, SameCounted DEF Running
  <2>7. QED
    BY <1>1, <2>1, <2>2, <2>3, <2>4, <2>6
<1>4. CASE GiveUp \/ CallFails
  <2>1. pc' = "err" /\ items' = Nothing /\ UNCHANGED <<start, request, todo>>
    BY <1>4 DEF GiveUp, CallFails
  <2>2. TypeOK'
    BY <1>1, <2>1 DEF TypeOK, Running, Nothing
  <2>3. QED
    BY <2>1, <2>2 DEF HistoryInv, ItemsInv, Sending, Running
<1>5. QED
  BY <1>2, <1>3, <1>4 DEF Respond

LEMMA ChangeStep ==
    ASSUME GetInv, NEW new \in SUBSET Keys, Change(new)
    PROVE  GetInv'
<1> USE DEF GetInv
<1>1. /\ rows' = new /\ always' = always \cap new /\ ever' = ever \cup new
      /\ changes < MaxChanges /\ changes' = changes + 1
      /\ UNCHANGED <<ids, pc, start, request, todo, attempt, items>>
  BY DEF Change
<1>2. TypeOK'
  BY <1>1, BatchGetAssumption DEF TypeOK
<1>3. Counted' = Counted /\ Chunk' = Chunk /\ Sending' = Sending
  BY <1>1 DEF Counted, Chunk, Sending
<1>4. \A k \in Keys : Wanted(k)' = Wanted(k)
  BY <1>1 DEF Wanted
<1>5. HistoryInv'
  BY <1>1 DEF HistoryInv
<1>6. ItemsInv'
  BY <1>1, <1>3, <1>4 DEF ItemsInv
<1>7. QED
  BY <1>1, <1>2, <1>3, <1>5, <1>6

LEMMA GetStep == GetInv /\ [Next]_vars => GetInv'
<1> SUFFICES ASSUME GetInv, [Next]_vars PROVE GetInv'
  OBVIOUS
<1> USE DEF GetInv
<1>1. ASSUME NEW k \in Keys, IDs(k) PROVE GetInv'
  <2>1. /\ ids' \in Seq(Keys) /\ Len(ids') = Len(ids) + 1 /\ Len(ids) < MaxIds
        /\ UNCHANGED <<rows, pc, start, request, todo, attempt, items, always, ever, changes>>
        /\ pc \notin Running /\ Len(ids) \in Nat
    BY <1>1 DEF IDs, TypeOK, table
  <2>2. DOMAIN ids = 1..Len(ids) /\ DOMAIN ids' = 1..Len(ids')
    BY <2>1 DEF TypeOK
  <2>3. TypeOK'
    BY <2>1, <2>2, BatchGetAssumption DEF TypeOK
  <2>4. QED
    BY <2>1, <2>3 DEF HistoryInv, ItemsInv, Sending, Running
<1>2. CASE Run
  <2>1. /\ pc' = "chunk" /\ start' = 0 /\ request' = {} /\ todo' = {}
        /\ attempt' = 0 /\ items' = Nothing /\ always' = rows /\ ever' = rows
        /\ UNCHANGED <<rows, ids, changes>>
    BY <1>2 DEF Run
  <2>2. Cardinality({}) = 0
    BY FS_EmptySet
  <2>3. TypeOK'
    BY <2>1, <2>2, BatchGetAssumption DEF TypeOK, Running, Nothing
  <2>4. Counted' = {}
    BY <2>1 DEF Counted, Sending, TypeOK
  <2>5. \A k \in Keys : Wanted(k)' \cap Counted' = {}
    BY <2>4
  <2>6. QED
    BY <2>1, <2>2, <2>3, <2>5 DEF HistoryInv, ItemsInv, Sending, Nothing
<1>3. CASE NextChunk
  <2>1. /\ pc = "chunk" /\ pc' = "waiting" /\ attempt' = 0
        /\ request' = Chunk /\ todo' = Chunk
        /\ UNCHANGED <<ids, start, items, rows, always, ever, changes>>
    BY <1>3 DEF NextChunk, table
  <2>2. Chunk' = Chunk /\ Cardinality(Chunk) <= ChunkSize /\ Chunk \subseteq DOMAIN ids
    BY <2>1, ChunkFits DEF Chunk
  <2>3. TypeOK'
    BY <2>1, <2>2, BatchGetAssumption DEF TypeOK, Running
  <2>4. Counted' = Counted
    BY <2>1, <2>2 DEF Counted, Sending
  <2>5. HistoryInv' /\ ItemsInv'
    BY <2>1, <2>4, SameCounted DEF Running
  <2>6. QED
    BY <2>1, <2>2, <2>3, <2>5
<1>4. CASE Resend
  <2>1. /\ pc = "sleeping" /\ pc' = "waiting" /\ attempt' = attempt + 1
        /\ UNCHANGED <<ids, start, request, todo, items, rows, always, ever, changes>>
    BY <1>4 DEF Resend, table
  <2>2. TypeOK'
    BY <2>1, BatchGetAssumption DEF TypeOK, Running
  <2>3. Chunk' = Chunk /\ Sending
    BY <2>1 DEF Chunk, Sending
  <2>4. Counted' = Counted
    BY <2>1, <2>3 DEF Counted, Sending
  <2>5. HistoryInv' /\ ItemsInv'
    BY <2>1, <2>4, SameCounted DEF Running
  <2>6. QED
    BY <2>1, <2>2, <2>3, <2>5
<1>5. CASE RunReturns
  <2>1. pc' = "ok" /\ UNCHANGED <<ids, start, request, todo, attempt, items, table>>
    BY <1>5 DEF RunReturns
  <2>2. TypeOK'
    BY <2>1 DEF TypeOK, table
  <2>3. QED
    BY <2>1, <2>2 DEF HistoryInv, ItemsInv, Sending, Running
<1>6. ASSUME NEW k \in Keys, Change(rows \cup {k}) \/ Change(rows \ {k})
      PROVE  GetInv'
  <2>1. rows \cup {k} \in SUBSET Keys /\ rows \ {k} \in SUBSET Keys
    BY DEF TypeOK
  <2>2. QED
    BY <1>6, <2>1, ChangeStep
<1>7. CASE UNCHANGED vars
  <2>1. Chunk' = Chunk /\ Counted' = Counted /\ Sending' = Sending
    BY <1>7 DEF vars, Chunk, Counted, Sending
  <2>2. \A k \in Keys : Wanted(k)' = Wanted(k)
    BY <1>7 DEF vars, Wanted
  <2>3. TypeOK' /\ HistoryInv'
    BY <1>7 DEF vars, TypeOK, HistoryInv
  <2>4. ItemsInv'
    BY <1>7, <2>1, <2>2 DEF vars, ItemsInv
  <2>5. QED
    BY <1>7, <2>1, <2>3, <2>4 DEF vars
<1>8. QED
  BY <1>1, <1>2, <1>3, <1>4, <1>5, <1>6, <1>7, ProcessStep, RespondStep DEF Next

\* The invariant of BatchGetBuilder.Run: types, chunks of at most the size the
\* service takes, and items that are those of the keys read so far.
THEOREM GetInvariance == Spec => []GetInv
  BY GetInit, GetStep, PTL DEF Spec

-----------------------------------------------------------------------------
(* The refinement. *)

LEMMA AskedType == TypeOK => Asked \in [Keys -> Nat]
<1> SUFFICES ASSUME TypeOK PROVE Asked \in [Keys -> Nat]
  OBVIOUS
<1>1. \A k \in Keys : Cardinality(Wanted(k)) \in Nat
  BY PositionsFinite DEF Wanted
<1>2. QED
  BY <1>1 DEF Asked

LEMMA StatusOf ==
    /\ pc \in Running => Status = "running" /\ Returned = Nothing
    /\ pc \in {"ok", "err"} => Status = pc /\ Returned = items
    /\ pc = "building" => Status = "idle" /\ Returned = items
  BY DEF Status, Returned, Running

LEMMA Refines ==
    ASSUME GetInv, GetInv', [Next]_vars
    PROVE  ReadAll!Next \/ UNCHANGED <<rows, Asked, always, ever, Status, Returned>>
<1>0. TypeOK /\ TypeOK' /\ Asked \in [Keys -> Nat] /\ Asked' \in [Keys -> Nat]
  <2>1. TypeOK /\ TypeOK'
    BY DEF GetInv
  <2>2. (Asked \in [Keys -> Nat])'
    BY <2>1, AskedType, PTL
  <2>3. QED
    BY <2>1, <2>2, AskedType
<1>1. ids' = ids => Asked' = Asked
  BY DEF Asked, Wanted
<1>2. ASSUME NEW k \in Keys, IDs(k) PROVE ReadAll!Build
  <2>1. /\ pc \in {"building", "ok", "err"} /\ pc' = pc
        /\ UNCHANGED <<items, rows, always, ever>>
    BY <1>0, <1>2 DEF IDs, table, TypeOK
  <2>2. Status' = Status /\ Returned' = Returned /\ Status # "running"
    BY <2>1 DEF Status, Returned, Running
  <2>3. QED
    BY <1>0, <2>1, <2>2 DEF ReadAll!Build, ReadAll!Bag, TypeOK
<1>3. CASE Run
  <2>1. /\ pc \in {"building", "ok", "err"} /\ pc' = "chunk"
        /\ always' = rows /\ ever' = rows /\ rows' = rows /\ ids' = ids
    BY <1>0, <1>3 DEF Run, TypeOK
  <2>2. Status # "running" /\ Status' = "running" /\ Returned' = Nothing
    BY <2>1 DEF Status, Returned, Running
  <2>3. QED
    BY <1>1, <2>1, <2>2 DEF ReadAll!Next, ReadAll!Begin, ReadAll!Nothing, Nothing
<1>4. ASSUME pc \in Running, pc' \in Running, UNCHANGED <<ids, rows, always, ever>>
      PROVE  UNCHANGED <<rows, Asked, always, ever, Status, Returned>>
  <2>1. Status' = Status /\ Returned' = Returned
    BY <1>4 DEF Status, Returned, Running, Nothing
  <2>2. QED
    BY <1>1, <1>4, <2>1
<1>5. CASE RunReturns
  <2>1. /\ pc = "chunk" /\ pc' = "ok" /\ start >= Len(ids)
        /\ UNCHANGED <<ids, items, rows, always, ever>>
    BY <1>5 DEF RunReturns, table
  <2>2. Status = "running" /\ Status' = "ok" /\ Returned' = items
    BY <2>1 DEF Status, Returned, Running
  <2>3. Counted = DOMAIN ids
    <3>1. \A i \in DOMAIN ids : i <= start
      BY <1>0, <2>1 DEF TypeOK
    <3>2. QED
      BY <3>1 DEF Counted
  <2>4. ASSUME NEW k \in Keys
        PROVE  /\ items[k] <= Asked[k]
               /\ k \in always => items[k] = Asked[k]
               /\ k \notin ever => items[k] = 0
    <3>1. Wanted(k) \cap Counted = Wanted(k)
      BY <2>3 DEF Wanted
    <3>2. Asked[k] = Cardinality(Wanted(k) \cap Counted)
      BY <3>1 DEF Asked
    <3>3. QED
      BY <2>1, <3>2 DEF GetInv, ItemsInv, Running
  <2>5. ReadAll!Promised(items)
    BY <2>4 DEF ReadAll!Promised
  <2>6. QED
    BY <1>0, <1>1, <2>1, <2>2, <2>5
       DEF ReadAll!Next, ReadAll!Return, ReadAll!Bag, TypeOK
<1>6. CASE CallFails \/ (Respond /\ GiveUp)
  <2>1. /\ pc' = "err" /\ items' = Nothing /\ UNCHANGED <<ids, rows, always, ever>>
    BY <1>6 DEF CallFails, Respond, GiveUp, table
  <2>2. Status' = "err" /\ Returned' = Nothing
    BY <2>1 DEF Status, Returned, Running
  <2>3. QED
    BY <1>1, <2>1, <2>2 DEF ReadAll!Next, ReadAll!Fail, ReadAll!Nothing, Nothing
<1>7. ASSUME NEW new \in SUBSET Keys, Change(new) PROVE ReadAll!Next
  <2>1. /\ rows' = new /\ always' = always \cap new /\ ever' = ever \cup new
        /\ UNCHANGED <<ids, pc, items>>
    BY <1>7 DEF Change
  <2>2. Status' = Status /\ Returned' = Returned
    BY <2>1 DEF Status, Returned
  <2>3. QED
    BY <1>1, <2>1, <2>2 DEF ReadAll!Next, ReadAll!Change
<1>8. CASE NextChunk \/ Resend \/ (Respond /\ (ChunkDone \/ Retry))
           \/ (\E i \in todo : Process(i))
  BY <1>4, <1>8 DEF NextChunk, Resend, Respond, ChunkDone, Retry, Process,
     table, Running
<1>9. CASE UNCHANGED vars
  BY <1>1, <1>9 DEF vars, Status, Returned
<1>10. ASSUME NEW k \in Keys, Change(rows \cup {k}) \/ Change(rows \ {k})
       PROVE  ReadAll!Next
  <2>1. rows \cup {k} \in SUBSET Keys /\ rows \ {k} \in SUBSET Keys
    BY <1>0 DEF TypeOK
  <2>2. QED
    BY <1>7, <1>10, <2>1
<1>11. QED
  BY <1>2, <1>3, <1>5, <1>6, <1>8, <1>9, <1>10 DEF Next, Respond, ReadAll!Next

\* Run returns every queued item that was there all the time as often as it
\* was queued, and nothing that never was, or it fails and returns nothing
\* (batch.go 70-178).
THEOREM GetReadsAll == Spec => ImplementsReadAll
<1>1. Init => ReadAll!Init
  <2> SUFFICES ASSUME Init PROVE ReadAll!Init
    OBVIOUS
  <2>1. TypeOK /\ Asked \in [Keys -> Nat]
    BY GetInit, AskedType DEF GetInv
  <2>2. Status = "idle" /\ Returned = Nothing
    BY DEF Init, Status, Returned, Running
  <2>3. Nothing \in [Keys -> Nat]
    BY DEF Nothing
  <2>4. QED
    BY <2>1, <2>2, <2>3 DEF ReadAll!Init, ReadAll!TypeOK, ReadAll!Bag,
       ReadAll!Nothing, TypeOK, Nothing
<1>2. GetInv /\ GetInv' /\ [Next]_vars => [ReadAll!Next]_(ReadAll!vars)
  BY Refines DEF ReadAll!vars
<1>3. QED
  BY <1>1, <1>2, GetInit, GetStep, PTL DEF Spec, ImplementsReadAll, ReadAll!Spec

-----------------------------------------------------------------------------
(* The safe half of RunEnds: each step of a Run leaves less to be done. *)

\* A chunk that was sent starts in the queue (batch.go 88-90).
SentInv == Sending => start < Len(ids)

\* Whether it runs; the ids to come; the retries that are left for the chunk,
\* none of which is used before it is sent; whether there is an answer to come,
\* and what the service has not read.
Left ==
    <<IF pc \in Running THEN 1 ELSE 0,
      IF start < Len(ids) THEN Len(ids) - start ELSE 0,
      IF pc = "chunk" THEN MaxRetries + 1 ELSE MaxRetries - attempt,
      IF pc = "waiting" THEN 1 ELSE 0,
      Cardinality(todo)>>

GoesOn ==
    pc \in Running =>
        \/ <<Left', Left>> \in Less(5)
        \/ Left' = Left /\ changes' = changes + 1

RunGoesOn == [][GoesOn]_vars

LEMMA Lower ==
    ASSUME NEW a1 \in Nat, NEW a2 \in Nat, NEW a3 \in Nat, NEW a4 \in Nat, NEW a5 \in Nat,
           NEW b1 \in Nat, NEW b2 \in Nat, NEW b3 \in Nat, NEW b4 \in Nat, NEW b5 \in Nat,
           \/ b1 < a1
           \/ b1 = a1 /\ b2 < a2
           \/ b1 = a1 /\ b2 = a2 /\ b3 < a3
           \/ b1 = a1 /\ b2 = a2 /\ b3 = a3 /\ b4 < a4
           \/ b1 = a1 /\ b2 = a2 /\ b3 = a3 /\ b4 = a4 /\ b5 < a5
    PROVE  <<<<b1, b2, b3, b4, b5>>, <<a1, a2, a3, a4, a5>>>> \in Less(5)
<1> DEFINE a == <<a1, a2, a3, a4, a5>>
           b == <<b1, b2, b3, b4, b5>>
<1>1. a \in [1..5 -> Nat] /\ b \in [1..5 -> Nat]
  OBVIOUS
<1>2. \E j \in 1..5 : /\ \A i \in 1..(j - 1) : b[i] = a[i]
                      /\ b[j] < a[j] /\ b[j] \in Nat /\ a[j] \in Nat
  <2>1. /\ \A i \in 1..(1 - 1) : FALSE
        /\ \A i \in 1..(2 - 1) : i = 1
        /\ \A i \in 1..(3 - 1) : i \in {1, 2}
        /\ \A i \in 1..(4 - 1) : i \in {1, 2, 3}
        /\ \A i \in 1..(5 - 1) : i \in {1, 2, 3, 4}
    OBVIOUS
  <2>2. QED
    BY <2>1
<1>3. QED
  BY <1>1, <1>2 DEF Less, LexProductOrdering, OpToRel

LEMMA LeftTypes ==
    TypeOK =>
        /\ Left[1] \in Nat /\ Left[2] \in Nat /\ Left[3] \in Nat /\ Left[4] \in Nat
        /\ Left[5] \in Nat /\ IsFiniteSet(todo)
<1> SUFFICES ASSUME TypeOK
             PROVE  /\ Left[1] \in Nat /\ Left[2] \in Nat /\ Left[3] \in Nat
                    /\ Left[4] \in Nat /\ Left[5] \in Nat /\ IsFiniteSet(todo)
  OBVIOUS
<1>1. IsFiniteSet(todo) /\ Cardinality(todo) \in Nat
  BY PositionsFinite DEF TypeOK
<1>2. start \in Nat /\ Len(ids) \in Nat /\ attempt \in 0..MaxRetries /\ MaxRetries \in Nat
  BY BatchGetAssumption DEF TypeOK
<1>3. QED
  BY <1>1, <1>2 DEF Left

\* To compare what is left, it is enough to do it number by number.
LEMMA LeftLower ==
    ASSUME TypeOK, TypeOK',
           \/ Left'[1] < Left[1]
           \/ Left'[1] = Left[1] /\ Left'[2] < Left[2]
           \/ Left'[1] = Left[1] /\ Left'[2] = Left[2] /\ Left'[3] < Left[3]
           \/ /\ Left'[1] = Left[1] /\ Left'[2] = Left[2] /\ Left'[3] = Left[3]
              /\ Left'[4] < Left[4]
           \/ /\ Left'[1] = Left[1] /\ Left'[2] = Left[2] /\ Left'[3] = Left[3]
              /\ Left'[4] = Left[4] /\ Left'[5] < Left[5]
    PROVE  <<Left', Left>> \in Less(5)
<1>1. /\ Left[1] \in Nat /\ Left[2] \in Nat /\ Left[3] \in Nat /\ Left[4] \in Nat
      /\ Left[5] \in Nat
  BY LeftTypes
<1>2. /\ Left'[1] \in Nat /\ Left'[2] \in Nat /\ Left'[3] \in Nat /\ Left'[4] \in Nat
      /\ Left'[5] \in Nat
  <2>1. (/\ Left[1] \in Nat /\ Left[2] \in Nat /\ Left[3] \in Nat /\ Left[4] \in Nat
         /\ Left[5] \in Nat /\ IsFiniteSet(todo))'
    BY LeftTypes, PTL
  <2>2. QED
    BY <2>1
<1>3. <<<<Left'[1], Left'[2], Left'[3], Left'[4], Left'[5]>>,
        <<Left[1], Left[2], Left[3], Left[4], Left[5]>>>> \in Less(5)
  BY <1>1, <1>2, Lower
<1>4. /\ Left = <<Left[1], Left[2], Left[3], Left[4], Left[5]>>
      /\ Left' = <<Left'[1], Left'[2], Left'[3], Left'[4], Left'[5]>>
  BY DEF Left
<1>5. QED
  BY <1>3, <1>4

LEMMA SentStep == GetInv /\ SentInv /\ [Next]_vars => SentInv'
<1> SUFFICES ASSUME GetInv, SentInv, [Next]_vars, Sending'
             PROVE  start' < Len(ids')
  BY DEF SentInv
<1>1. Sending \/ pc = "chunk" => start' = start /\ ids' = ids /\ start < Len(ids)
  BY DEF Next, vars, SentInv, Sending, Running, IDs, Run, NextChunk, Resend, RunReturns,
     Process, Respond, ChunkDone, Retry, GiveUp, CallFails, Change
<1>2. Sending \/ pc = "chunk"
  BY DEF Next, vars, Sending, Running, IDs, Run, NextChunk, Resend, RunReturns,
     Process, Respond, ChunkDone, Retry, GiveUp, CallFails, Change
<1>3. QED
  BY <1>1, <1>2

LEMMA RunDescends ==
    ASSUME GetInv, GetInv', SentInv, pc \in Running, Next
    PROVE  \/ <<Left', Left>> \in Less(5)
           \/ Left' = Left /\ changes' = changes + 1
<1>1. /\ TypeOK /\ TypeOK' /\ start \in Nat /\ Len(ids) \in Nat /\ ChunkSize \in Nat
      /\ ChunkSize > 0 /\ attempt \in 0..MaxRetries /\ MaxRetries \in Nat
  BY BatchGetAssumption DEF GetInv, TypeOK
<1> USE DEF Left, Running
<1>2. CASE RunReturns \/ CallFails
  BY <1>1, <1>2, LeftLower DEF RunReturns, CallFails
<1>3. CASE NextChunk
  BY <1>1, <1>3, LeftLower DEF NextChunk
<1>4. CASE Resend
  BY <1>1, <1>4, LeftLower DEF Resend, GetInv
<1>5. ASSUME NEW i \in todo, Process(i) PROVE <<Left', Left>> \in Less(5)
  <2>1. Cardinality(todo') < Cardinality(todo)
    <3>1. IsFiniteSet(todo)
      BY <1>1, LeftTypes
    <3>2. Cardinality(todo') = Cardinality(todo) - 1 /\ Cardinality(todo) \in Nat
      BY <1>5, <3>1, FS_RemoveElement, FS_CardinalityType DEF Process
    <3>3. QED
      BY <3>2
  <2>2. pc = "waiting" /\ UNCHANGED <<pc, ids, attempt, start>>
    BY <1>5 DEF Process
  <2>3. QED
    BY <1>1, <2>1, <2>2, LeftLower
<1>6. CASE Respond
  <2>1. /\ pc = "waiting" /\ ids' = ids /\ attempt' = attempt
        /\ ChunkDone \/ Retry \/ GiveUp
        /\ start < Len(ids)
    BY <1>6 DEF Respond, SentInv, Sending
  <2>2. CASE ChunkDone
    BY <1>1, <2>1, <2>2, LeftLower DEF ChunkDone
  <2>3. CASE Retry
    BY <1>1, <2>1, <2>3, LeftLower DEF Retry
  <2>4. CASE GiveUp
    BY <1>1, <2>1, <2>4, LeftLower DEF GiveUp
  <2>5. QED
    BY <2>1, <2>2, <2>3, <2>4
<1>7. ASSUME NEW new, Change(new) PROVE Left' = Left /\ changes' = changes + 1
  BY <1>7 DEF Change
<1>8. QED
  BY <1>2, <1>3, <1>4, <1>5, <1>6, <1>7 DEF Next, IDs, Run

\* Each step of a Run, of the service's too, leaves less to be done, in an order
\* in which every descent ends, and what others do to the table does not put it
\* back: a Run is never endless (batch.go 22-25, 88-154).
THEOREM RunNeverTurnsBack == Spec => RunGoesOn
<1>1. Init => SentInv
  BY DEF Init, SentInv, Sending
<1>2. GetInv /\ GetInv' /\ SentInv /\ [Next]_vars
      => [GoesOn]_vars
  BY RunDescends DEF GoesOn
<1>3. QED
  BY <1>1, <1>2, SentStep, GetInvariance, PTL DEF Spec, RunGoesOn
=============================================================================
