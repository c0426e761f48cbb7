-------------------------- MODULE BatchWriteProofs --------------------------
(***************************************************************************)
(* Proofs about BatchWrite, for queues, chunks and retries of any size.    *)
(***************************************************************************)
EXTENDS BatchWrite, Descent, FiniteSetTheorems, TLAPS

\* Stamping an item that has its ID keeps the ID (crud.go 119-164).
LEMMA StampTypes ==
    ASSUME NEW item \in Item, item.id \in Ids, NEW now \in Nat
    PROVE  /\ Stamp(item, now, NoId) \in Item
           /\ Stamp(item, now, NoId).id = item.id
           /\ Marshal(item, now, NoId) \in Row
           /\ Marshal(item, now, NoId).item = Stamp(item, now, NoId)
<1>1. /\ SetType(item) \in Item /\ SetType(item).id = item.id
  BY DEF SetType, Item
<1>2. /\ StampCreate(item, now, NoId) \in Item
      /\ StampCreate(item, now, NoId).id = item.id
  BY <1>1, NoIdAssumption DEF StampCreate, Item
<1>3. /\ StampUpdate(item, now) \in Item
      /\ StampUpdate(item, now).id = item.id
  <2>1. item.version + 1 \in Nat
    BY DEF Item
  <2>2. QED
    BY <2>1 DEF StampUpdate, Item
<1>4. Stamp(item, now, NoId) \in Item /\ Stamp(item, now, NoId).id = item.id
  BY <1>2, <1>3 DEF Stamp
<1>5. QED
  BY <1>4 DEF Marshal, Row, Unset

LEMMA NewTypes ==
    /\ Absent \in Row
    /\ \A id \in Ids : NewItem(id) \in Item /\ NewItem(id).id = id
<1>1. \A id \in Ids \cup {NoId} : NewItem(id) \in Item /\ NewItem(id).id = id
  BY DEF NewItem, Item, Unset
<1>2. Absent \in Row
  BY <1>1 DEF Absent, NoItem, Row, Unset
<1>3. QED
  BY <1>1, <1>2

LEMMA OldRowTypes ==
    ASSUME NEW id \in Ids
    PROVE  OldRow(id) \in Row /\ OldRow(id).item \in Item /\ OldRow(id).item.id = id
  BY StampTypes, NewTypes DEF OldRow

LEMMA BatchInit == Init => BatchInv
<1> SUFFICES ASSUME Init PROVE BatchInv
  OBVIOUS
<1>1. PICK old \in SUBSET Ids :
          /\ table = [id \in Ids |-> IF id \in old THEN OldRow(id) ELSE Absent]
          /\ mem \in [Ptrs -> {NewItem(id) : id \in Ids}
                              \cup {OldRow(id).item : id \in old}]
  BY DEF Init
<1>2. table \in [Ids -> Row]
  BY <1>1, OldRowTypes, NewTypes
<1>3. \A p \in Ptrs : mem[p] \in Item /\ mem[p].id \in Ids
  BY <1>1, OldRowTypes, NewTypes
<1>4. mem \in [Ptrs -> Item]
  BY <1>1, <1>3
<1>5. MaxClock \in Nat /\ MaxClock >= 1
  BY BatchAssumption DEF MaxClock
<1>6. TypeOK
  BY <1>2, <1>4, <1>5, BatchAssumption DEF Init, TypeOK
<1>7. QueueInv
  BY <1>3, BatchAssumption DEF Init, QueueInv
<1>8. ClockInv
  BY BatchAssumption DEF Init, ClockInv
<1>9. QED
  BY <1>6, <1>7, <1>8 DEF Init, BatchInv, ChunkInv, RowInv, InOrder, Sending

-----------------------------------------------------------------------------
(* Facts about products, and about the requests as a sequence. *)

LEMMA Product ==
    ASSUME NEW a \in Nat, NEW b \in Nat, NEW c \in Nat, b <= c
    PROVE  /\ a * b \in Nat /\ a * c \in Nat /\ a * b <= a * c
           /\ b > 0 => a * (b - 1) + a = a * b
           /\ a * ((b + 1) - 1) = a * b
  OBVIOUS

\* The clock bounds, from the number of operations and of runs.
LEMMA ClockBound ==
    ASSUME TypeOK
    PROVE  /\ MaxOps * runs \in Nat /\ MaxOps * runs <= MaxOps * MaxRuns
           /\ MaxOps * MaxRuns \in Nat
           /\ runs > 0 => /\ MaxOps * (runs - 1) + MaxOps = MaxOps * runs
                          /\ MaxOps * (runs - 1) \in Nat
<1>1. runs \in Nat /\ MaxRuns \in Nat /\ MaxOps \in Nat /\ runs <= MaxRuns
  BY BatchAssumption DEF TypeOK
<1>2. runs > 0 => runs - 1 \in Nat /\ runs - 1 <= runs
  BY <1>1
<1>3. QED
  BY <1>1, <1>2, Product

LEMMA AppendWrite ==
    ASSUME NEW w, w \in Write, writes \in Seq(Write), writes' = Append(writes, w)
    PROVE  /\ writes' \in Seq(Write) /\ Len(writes') = Len(writes) + 1
           /\ \A i \in 1..Len(writes) : writes'[i] = writes[i]
           /\ writes'[Len(writes) + 1] = w
           /\ Len(writes) \in Nat
  OBVIOUS

\* What was processed is in order.
LEMMA RowsInOrder ==
    pc \in {"chunk", "waiting", "sleeping", "ok"} /\ TypeOK /\ RowInv => InOrder
<1> SUFFICES ASSUME pc \in {"chunk", "waiting", "sleeping", "ok"},
                    TypeOK, RowInv, NEW k \in Ids, {i \in Keyed(k) : i <= start} # {}
             PROVE  \E i \in {i \in Keyed(k) : i <= start + ChunkSize} :
                        /\ \A j \in {j \in Keyed(k) : j <= start} : j <= i
                        /\ table[k] = writes[i].row
  BY DEF InOrder
<1>1. \A i \in Applied : i <= start + ChunkSize
  BY BatchAssumption DEF Applied, Chunk, TypeOK
<1>2. \A i \in Keyed(k) : i <= start => i \in Applied
  BY DEF Keyed, Applied
<1>3. PICK i \in Keyed(k) \cap Applied :
          IsLast(i, Keyed(k) \cap Applied) /\ table[k] = writes[i].row
  BY <1>2 DEF RowInv
<1>4. QED
  BY <1>1, <1>2, <1>3 DEF IsLast

-----------------------------------------------------------------------------
(* Building and stamping. *)

LEMMA QueueStep ==
    ASSUME BatchInv, NEW op \in Ops, Queue(op)
    PROVE  BatchInv'
<1> USE DEF BatchInv
<1>1. /\ ops' \in Seq(Ops) /\ Len(ops') = Len(ops) + 1 /\ Len(ops) \in Nat
      /\ writes' = <<>> /\ pc' = "building" /\ start' = 0 /\ request' = {} /\ todo' = {}
      /\ Len(ops) < MaxOps
      /\ UNCHANGED <<table, mem, clock, attempt, runs>>
  BY DEF Queue, TypeOK
<1>2. TypeOK'
  BY <1>1, BatchAssumption DEF TypeOK
<1>3. QueueInv'
  BY <1>1, BatchAssumption DEF QueueInv
<1>4. ClockInv' /\ ChunkInv' /\ RowInv' /\ InOrder'
  BY <1>1 DEF ClockInv, ChunkInv, RowInv, InOrder, Sending
<1>5. QED
  BY <1>2, <1>3, <1>4

LEMMA RunStep ==
    ASSUME BatchInv, Run
    PROVE  BatchInv'
<1> USE DEF BatchInv
<1>1. TypeOK'
  BY BatchAssumption DEF Run, TypeOK
<1>2. /\ writes' = <<>> /\ Len(writes') = 0 /\ Len(ops) \in Nat
      /\ ops = <<>> => Len(ops) = 0
  BY DEF Run, TypeOK
<1>3. QueueInv'
  BY <1>2 DEF Run, QueueInv
<1>4. ClockInv'
  <2>1. runs \in Nat /\ runs + 1 \in Nat /\ runs <= runs + 1
    BY BatchAssumption DEF TypeOK
  <2>2. MaxOps * runs <= MaxOps * (runs + 1) /\ MaxOps * ((runs + 1) - 1) = MaxOps * runs
        /\ MaxOps * runs \in Nat /\ MaxOps * (runs + 1) \in Nat
    BY <2>1, Product, BatchAssumption
  <2>3. runs' = runs + 1 /\ clock' = clock /\ clock \in Nat
    BY DEF Run, TypeOK
  <2>4. clock <= 1 + MaxOps * runs
    BY DEF ClockInv
  <2>5. QED
    BY <1>2, <2>1, <2>2, <2>3, <2>4 DEF ClockInv
<1>5. ChunkInv' /\ RowInv' /\ InOrder'
  <2>1. 1..Len(writes') = {}
    BY <1>2
  <2>2. \A k : Keyed(k)' = {}
    BY <2>1 DEF Keyed
  <2>3. QED
    BY <1>2, <2>2 DEF Run, ChunkInv, RowInv, InOrder, Sending
<1>6. QED
  BY <1>1, <1>3, <1>4, <1>5

\* The request for the next operation is appended.
LEMMA StampTypeStep ==
    ASSUME BatchInv, Stamping, NEW w \in Write, writes' = Append(writes, w),
           clock' \in {clock, clock + 1}, mem' \in [Ptrs -> Item],
           UNCHANGED <<table, ops, start, request, todo, attempt, pc, runs>>
    PROVE  TypeOK' /\ ClockInv' /\ ChunkInv' /\ RowInv' /\ InOrder'
<1> USE DEF BatchInv
<1>1. /\ writes' \in Seq(Write) /\ Len(writes') = Len(writes) + 1
      /\ Len(writes) \in Nat
  BY AppendWrite DEF TypeOK
<1>2. /\ clock \in Nat /\ runs \in Nat /\ MaxOps \in Nat /\ Len(ops) \in Nat
      /\ clock >= 1 /\ Len(writes) < Len(ops) /\ Len(ops) <= MaxOps
      /\ clock <= 1 + MaxOps * (runs - 1) + Len(writes) /\ runs > 0
      /\ pc = "stamping"
  BY BatchAssumption DEF TypeOK, Stamping, QueueInv, ClockInv
<1>3. MaxOps * (runs - 1) + MaxOps = MaxOps * runs /\ MaxOps * runs \in Nat
      /\ MaxOps * runs <= MaxOps * MaxRuns /\ MaxOps * MaxRuns \in Nat
  BY <1>2, ClockBound
<1>4. MaxOps * (runs - 1) \in Nat
  BY <1>2, ClockBound
<1>5. /\ clock' <= 1 + MaxOps * (runs - 1) + Len(writes')
      /\ clock' <= 1 + MaxOps * runs /\ clock' \in Nat /\ clock' >= 1
      /\ clock' <= MaxClock
  BY <1>1, <1>2, <1>3, <1>4 DEF MaxClock
<1>6. TypeOK'
  BY <1>1, <1>3, <1>5 DEF TypeOK, MaxClock
<1>7. ClockInv'
  BY <1>2, <1>5 DEF ClockInv
<1>8. ChunkInv' /\ RowInv' /\ InOrder'
  BY <1>2 DEF ChunkInv, RowInv, InOrder, Sending
<1>9. QED
  BY <1>6, <1>7, <1>8

\* The operation the request is made from.
LEMMA NextOpType ==
    ASSUME BatchInv, Stamping
    PROVE  /\ NextOp \in Ops /\ Len(writes) + 1 \in 1..Len(ops)
           /\ NextOp = ops[Len(writes) + 1] /\ NextOp.kind \in {"put", "delete"}
           /\ NextOp.kind = "put" => NextOp.ptr \in Ptrs
           /\ NextOp.kind = "delete" => NextOp.id \in Ids
<1>1. /\ Len(writes) + 1 \in 1..Len(ops) /\ ops \in Seq(Ops)
  BY DEF BatchInv, TypeOK, Stamping
<1>2. NextOp \in Ops
  BY <1>1 DEF NextOp
<1>3. QED
  BY <1>1, <1>2 DEF NextOp, Ops

LEMMA CopyDeleteStep ==
    ASSUME BatchInv, CopyDelete
    PROVE  BatchInv'
<1> USE DEF BatchInv
<1> DEFINE w == [key |-> NextOp.id, row |-> Absent]
<1>1. Stamping /\ writes' = Append(writes, w) /\ w \in Write
  BY NextOpType, NewTypes DEF CopyDelete, Write
<1>2. TypeOK' /\ ClockInv' /\ ChunkInv' /\ RowInv' /\ InOrder'
  BY <1>1, StampTypeStep DEF CopyDelete, TypeOK
<1>3. /\ writes' \in Seq(Write) /\ Len(writes') = Len(writes) + 1
      /\ \A i \in 1..Len(writes) : writes'[i] = writes[i]
      /\ Len(writes) \in Nat
  BY <1>1, AppendWrite DEF TypeOK
<1>4. ops[Len(writes) + 1].kind = "delete" /\ UNCHANGED <<ops, mem, pc, runs>>
  BY NextOpType DEF CopyDelete
<1>5. \A i \in 1..Len(writes') : i \in 1..Len(writes) \/ i = Len(writes) + 1
  BY <1>3
<1>6. 1..Len(writes) \subseteq 1..Len(writes')
  BY <1>3
<1>7. Len(writes') <= Len(ops) /\ pc = "stamping"
  BY <1>1, <1>3 DEF Stamping, TypeOK
<1>8. QueueInv'
  BY <1>3, <1>4, <1>5, <1>6, <1>7 DEF QueueInv
<1>9. QED
  BY <1>2, <1>8

LEMMA StampPutStep ==
    ASSUME BatchInv, StampPut
    PROVE  BatchInv'
<1> USE DEF BatchInv
<1> DEFINE p == NextOp.ptr
           new == Stamp(mem[p], clock', NoId)
           w == [key |-> mem[p].id, row |-> Marshal(mem[p], clock', NoId)]
<1>1. /\ Stamping /\ writes' = Append(writes, w) /\ p \in Ptrs
      /\ clock' = clock + 1 /\ clock' \in Nat
      /\ mem' = [mem EXCEPT ![p] = new]
  BY NextOpType DEF StampPut, TypeOK
<1>2. mem[p] \in Item /\ mem[p].id \in Ids
  BY <1>1 DEF TypeOK, QueueInv
<1>3. /\ new \in Item /\ new.id = mem[p].id
      /\ w.row \in Row /\ w.row.item = new /\ w \in Write /\ w.key = mem[p].id
  BY <1>1, <1>2, StampTypes DEF Write
<1>4. /\ mem' \in [Ptrs -> Item]
      /\ \A q \in Ptrs : mem'[q] = IF q = p THEN new ELSE mem[q]
  BY <1>1, <1>3 DEF TypeOK
<1>5. UNCHANGED <<table, ops, start, request, todo, attempt, pc, runs>>
  BY DEF StampPut
<1>6. ops[Len(writes) + 1].kind = "put" /\ ops[Len(writes) + 1].ptr = p
  BY NextOpType DEF StampPut
<1> HIDE DEF p, new, w
<1>7. TypeOK' /\ ClockInv' /\ ChunkInv' /\ RowInv' /\ InOrder'
  BY <1>1, <1>3, <1>4, <1>5, StampTypeStep
<1>8. /\ writes' \in Seq(Write) /\ Len(writes') = Len(writes) + 1
      /\ \A i \in 1..Len(writes) : writes'[i] = writes[i]
      /\ writes'[Len(writes) + 1] = w
      /\ Len(writes) \in Nat
  BY <1>1, <1>3, AppendWrite DEF TypeOK
<1>9. /\ \A i \in 1..Len(writes') : i \in 1..Len(writes) \/ i = Len(writes) + 1
      /\ 1..Len(writes) \subseteq 1..Len(writes')
      /\ Len(writes) + 1 \in 1..Len(writes')
      /\ \A i \in 1..Len(writes) : i < Len(writes) + 1
  BY <1>8
<1>10. Len(writes') <= Len(ops) /\ pc = "stamping" /\ Len(ops) <= MaxOps
  BY <1>1, <1>8 DEF Stamping, TypeOK, QueueInv
<1>11. \A q \in Ptrs : mem'[q].id \in Ids /\ mem'[q].id = mem[q].id
  BY <1>2, <1>3, <1>4 DEF QueueInv
<1>12. \A i \in 1..Len(writes) : ops[i].kind = "put" => ops[i].ptr \in Ptrs
  <2>1. \A i \in 1..Len(writes) : ops[i] \in Ops
    BY <1>8, <1>10 DEF TypeOK
  <2>2. QED
    BY <2>1 DEF Ops
<1>13. \A i \in 1..Len(writes') :
           ops[i].kind = "put" => writes'[i].key = mem'[ops[i].ptr].id
  BY <1>1, <1>3, <1>6, <1>8, <1>9, <1>11, <1>12 DEF QueueInv
<1>14. \A i \in 1..Len(writes') :
           ops[i].kind = "put" =>
               \/ writes'[i].row.item = mem'[ops[i].ptr]
               \/ \E j \in 1..Len(writes') :
                     i < j /\ ops[j].kind = "put" /\ ops[j].ptr = ops[i].ptr
  <2> SUFFICES ASSUME NEW i \in 1..Len(writes'), ops[i].kind = "put",
                      writes'[i].row.item # mem'[ops[i].ptr]
               PROVE  \E j \in 1..Len(writes') :
                          i < j /\ ops[j].kind = "put" /\ ops[j].ptr = ops[i].ptr
    OBVIOUS
  <2>1. i \in 1..Len(writes)
    BY <1>1, <1>3, <1>4, <1>6, <1>8, <1>9
  <2>2. CASE ops[i].ptr = p
    BY <1>6, <1>9, <2>1, <2>2
  <2>3. CASE ops[i].ptr # p
    <3>1. writes[i].row.item # mem[ops[i].ptr]
      BY <1>4, <1>8, <1>12, <2>1, <2>3
    <3>2. QED
      BY <1>9, <1>10, <2>1, <3>1 DEF QueueInv
  <2>4. QED
    BY <2>2, <2>3
<1>15. QueueInv'
  BY <1>5, <1>10, <1>11, <1>13, <1>14 DEF QueueInv
<1>16. QED
  BY <1>7, <1>15

LEMMA StampFailsStep ==
    ASSUME BatchInv, StampFails
    PROVE  BatchInv'
<1> USE DEF BatchInv
<1> DEFINE p == NextOp.ptr
           new == Stamp(mem[p], clock', NoId)
<1>1. /\ Stamping /\ p \in Ptrs /\ pc' = "err"
      /\ clock' = clock + 1 /\ clock' \in Nat
      /\ mem' = [mem EXCEPT ![p] = new]
  BY NextOpType DEF StampFails, TypeOK
<1>2. mem[p] \in Item /\ mem[p].id \in Ids
  BY <1>1 DEF TypeOK, QueueInv
<1>3. new \in Item /\ new.id = mem[p].id
  BY <1>1, <1>2, StampTypes
<1>4. /\ mem' \in [Ptrs -> Item]
      /\ \A q \in Ptrs : mem'[q] = IF q = p THEN new ELSE mem[q]
  BY <1>1, <1>3 DEF TypeOK
<1>5. UNCHANGED <<table, ops, writes, start, request, todo, attempt, runs>>
  BY DEF StampFails
<1> HIDE DEF p, new
<1>6. /\ clock \in Nat /\ runs \in Nat /\ MaxOps \in Nat /\ Len(ops) \in Nat
      /\ clock >= 1 /\ Len(writes) < Len(ops) /\ Len(ops) <= MaxOps
      /\ clock <= 1 + MaxOps * (runs - 1) + Len(writes) /\ runs > 0
      /\ Len(writes) \in Nat
  BY <1>1, BatchAssumption DEF TypeOK, Stamping, QueueInv, ClockInv
<1>7. /\ MaxOps * (runs - 1) + MaxOps = MaxOps * runs /\ MaxOps * runs \in Nat
      /\ MaxOps * runs <= MaxOps * MaxRuns /\ MaxOps * MaxRuns \in Nat
      /\ MaxOps * (runs - 1) \in Nat
  BY <1>6, ClockBound
<1>8. clock' <= 1 + MaxOps * runs /\ clock' >= 1 /\ clock' <= MaxClock
  BY <1>1, <1>6, <1>7 DEF MaxClock
<1>9. TypeOK' /\ ClockInv'
  BY <1>1, <1>4, <1>5, <1>7, <1>8 DEF TypeOK, ClockInv, MaxClock
<1>10. \A q \in Ptrs : mem'[q].id \in Ids /\ mem'[q].id = mem[q].id
  BY <1>2, <1>3, <1>4 DEF QueueInv
<1>11. \A i \in 1..Len(writes) : ops[i].kind = "put" => ops[i].ptr \in Ptrs
  <2>1. \A i \in 1..Len(writes) : ops[i] \in Ops
    BY <1>6 DEF TypeOK
  <2>2. QED
    BY <2>1 DEF Ops
<1>12. QueueInv'
  BY <1>1, <1>5, <1>10, <1>11 DEF QueueInv
<1>13. ChunkInv' /\ RowInv' /\ InOrder'
  <2>1. start = 0
    BY <1>1 DEF ChunkInv, Stamping
  <2>2. \A k : {i \in Keyed(k)' : i <= start'} = {}
    BY <1>5, <1>6, <2>1 DEF Keyed
  <2>3. QED
    BY <1>1, <2>2 DEF ChunkInv, RowInv, InOrder, Sending
<1>14. QED
  BY <1>9, <1>12, <1>13

-----------------------------------------------------------------------------
(* Sending. *)

\* What a step that leaves the operations and their requests alone keeps.
LEMMA QueueKept ==
    ASSUME BatchInv, UNCHANGED <<mem, clock, ops, writes, runs>>,
           pc' # "stamping", pc' # "building", pc # "err",
           pc \in {"chunk", "waiting", "sleeping"} \/ Len(writes) = Len(ops)
    PROVE  QueueInv' /\ ClockInv'
  BY DEF BatchInv, QueueInv, ClockInv

LEMMA StampedStep ==
    ASSUME BatchInv, Stamped
    PROVE  BatchInv'
<1> USE DEF BatchInv
<1>1. TypeOK'
  BY DEF Stamped, TypeOK
<1>2. QueueInv' /\ ClockInv'
  BY QueueKept DEF Stamped
<1>3. start = 0 /\ pc' = "chunk"
  BY DEF Stamped, ChunkInv
<1>4. ChunkInv'
  BY <1>3 DEF ChunkInv, Sending
<1>5. Applied' = {}
  BY <1>3 DEF Stamped, Applied, Sending, TypeOK
<1>6. RowInv'
  BY <1>5 DEF RowInv
<1>7. (pc \in {"chunk", "waiting", "sleeping", "ok"})'
  BY <1>3
<1>8. InOrder'
  BY <1>1, <1>6, <1>7, RowsInOrder, PTL
<1>9. QED
  BY <1>1, <1>2, <1>4, <1>6, <1>8

LEMMA NextChunkStep ==
    ASSUME BatchInv, NextChunk
    PROVE  BatchInv'
<1> USE DEF BatchInv
<1>1. /\ pc = "chunk" /\ pc' = "waiting" /\ start < Len(writes)
      /\ request' = Chunk(start) /\ todo' = Chunk(start)
      /\ UNCHANGED <<table, mem, clock, ops, writes, start, runs>>
      /\ attempt' = 0
  BY DEF NextChunk
<1>2. Len(writes) \in Nat /\ Len(writes) <= MaxOps
  BY BatchAssumption DEF TypeOK, QueueInv
<1>3. Chunk(start) \subseteq 1..MaxOps
  BY <1>2, BatchAssumption DEF Chunk
<1>4. TypeOK'
  BY <1>1, <1>3, BatchAssumption DEF TypeOK
<1>5. QueueInv' /\ ClockInv'
  BY <1>1, QueueKept
<1>6. Chunk(start)' = Chunk(start)
  BY <1>1 DEF Chunk
<1>7. ChunkInv'
  BY <1>1, <1>6 DEF ChunkInv, Sending
<1>8. Applied' = Applied
  BY <1>1, <1>6 DEF Applied, Sending
<1>9. RowInv'
  BY <1>1, <1>8 DEF RowInv, Keyed
<1>10. (pc \in {"chunk", "waiting", "sleeping", "ok"})'
  BY <1>1
<1>11. InOrder'
  BY <1>1, <1>4, <1>5, <1>7, <1>9, <1>10, RowsInOrder, PTL
<1>12. QED
  BY <1>1, <1>4, <1>5, <1>7, <1>9, <1>11

LEMMA RunReturnsStep ==
    ASSUME BatchInv, RunReturns
    PROVE  BatchInv'
<1> USE DEF BatchInv
<1>1. /\ pc = "chunk" /\ pc' = "ok" /\ start >= Len(writes)
      /\ UNCHANGED <<table, mem, clock, ops, writes, start, request, todo, attempt, runs>>
  BY DEF RunReturns
<1>2. TypeOK'
  BY <1>1 DEF TypeOK
<1>3. QueueInv' /\ ClockInv'
  BY <1>1, QueueKept
<1>4. ChunkInv'
  BY <1>1 DEF ChunkInv, Sending
<1>5. Applied' = Applied
  BY <1>1 DEF Applied, Sending
<1>6. RowInv'
  BY <1>1, <1>5 DEF RowInv, Keyed
<1>7. (pc \in {"chunk", "waiting", "sleeping", "ok"})'
  BY <1>1
<1>8. InOrder'
  BY <1>1, <1>2, <1>3, <1>4, <1>6, <1>7, RowsInOrder, PTL
<1>9. QED
  BY <1>1, <1>2, <1>3, <1>4, <1>6, <1>8

\* The service processes a request: it is the last one of its key so far,
\* because the call named no key twice.
LEMMA ProcessStep ==
    ASSUME BatchInv, NEW i \in todo, Process(i)
    PROVE  BatchInv'
<1> USE DEF BatchInv
<1>1. /\ pc = "waiting" /\ Valid /\ todo' = todo \ {i}
      /\ table' = [table EXCEPT ![writes[i].key] = writes[i].row]
      /\ UNCHANGED <<mem, clock, ops, writes, start, request, attempt, pc, runs>>
  BY DEF Process
<1>2. /\ i \in Chunk(start) /\ todo \subseteq Chunk(start)
      /\ i \in 1..Len(writes) /\ start \in Nat /\ start < i
      /\ i <= start + ChunkSize
  BY <1>1, BatchAssumption DEF ChunkInv, Sending, Chunk, TypeOK
<1>3. writes[i] \in Write /\ writes[i].key \in Ids /\ writes[i].row \in Row
  <2>1. writes[i] \in Write
    BY <1>2 DEF TypeOK
  <2>2. QED
    BY <2>1 DEF Write
<1>4. TypeOK'
  BY <1>1, <1>3 DEF TypeOK
<1>5. QueueInv' /\ ClockInv'
  BY <1>1, QueueKept
<1>6. \A m, n \in Chunk(start) : writes[m].key = writes[n].key => m = n
  BY <1>1 DEF ChunkInv, Sending, Valid
<1>7. Chunk(start)' = Chunk(start)
  BY <1>1 DEF Chunk
<1>8. ChunkInv'
  BY <1>1, <1>6, <1>7 DEF ChunkInv, Sending
<1>9. Applied' = Applied \cup {i}
  BY <1>1, <1>2, <1>7 DEF Applied, Sending
<1>10. \A j \in Applied : j \in Nat /\ (writes[j].key = writes[i].key => j < i)
  <2>1. SUFFICES ASSUME NEW j \in Applied, writes[j].key = writes[i].key, ~(j <= start)
                 PROVE  FALSE
    BY <1>2 DEF Applied
  <2>2. j \in Chunk(start) /\ j \notin todo
    BY <2>1 DEF Applied
  <2>3. QED
    BY <1>2, <1>6, <2>1, <2>2
<1>11. RowInv'
  <2> SUFFICES ASSUME NEW k \in Ids
               PROVE  LET S == Keyed(k)' \cap Applied'
                      IN  S = {} \/ \E j \in S : IsLast(j, S) /\ table'[k] = writes'[j].row
    BY DEF RowInv
  <2>1. Keyed(k)' = Keyed(k)
    BY <1>1 DEF Keyed
  <2>2. CASE k = writes[i].key
    <3>1. i \in Keyed(k) /\ i \in Nat
      BY <1>2, <2>2 DEF Keyed
    <3>2. \A j \in Keyed(k) \cap Applied : j <= i
      BY <1>2, <1>10, <2>2 DEF Keyed
    <3>3. IsLast(i, Keyed(k) \cap (Applied \cup {i}))
      BY <3>1, <3>2 DEF IsLast
    <3>4. table'[k] = writes[i].row
      BY <1>1, <2>2 DEF TypeOK
    <3>5. QED
      BY <1>1, <1>9, <2>1, <3>1, <3>3, <3>4
  <2>3. CASE k # writes[i].key
    <3>1. Keyed(k) \cap Applied' = Keyed(k) \cap Applied
      BY <1>9, <2>3 DEF Keyed
    <3>2. table'[k] = table[k] /\ writes' = writes
      BY <1>1, <2>3 DEF TypeOK
    <3>3. QED
      BY <1>1, <2>1, <3>1, <3>2 DEF RowInv
  <2>4. QED
    BY <2>2, <2>3
<1>12. (pc \in {"chunk", "waiting", "sleeping", "ok"})'
  BY <1>1
<1>13. InOrder'
  BY <1>1, <1>4, <1>5, <1>8, <1>11, <1>12, RowsInOrder, PTL
<1>14. QED
  BY <1>1, <1>4, <1>5, <1>8, <1>11, <1>13

\* The response, and the end of a call without one.
LEMMA RespondStep ==
    ASSUME BatchInv, Respond \/ CallFails
    PROVE  BatchInv'
<1> USE DEF BatchInv
<1>1. /\ pc = "waiting" /\ start < Len(writes) /\ Len(writes) \in Nat
      /\ Len(writes) <= MaxOps /\ start \in Nat
      /\ UNCHANGED <<table, mem, clock, ops, writes, todo, runs>>
      /\ request \subseteq Chunk(start)
  BY BatchAssumption DEF Respond, CallFails, ChunkInv, Sending, TypeOK, QueueInv
<1>2. CASE Respond /\ ChunkDone
  <2>1. /\ todo = {} /\ start' = start + ChunkSize /\ pc' = "chunk"
        /\ UNCHANGED <<request, attempt>>
    BY <1>2 DEF ChunkDone
  <2>2. TypeOK'
    BY <1>1, <2>1, BatchAssumption DEF TypeOK
  <2>3. QueueInv' /\ ClockInv'
    BY <1>1, <2>1, QueueKept
  <2>4. ChunkInv'
    BY <2>1 DEF ChunkInv, Sending
  <2>5. Applied' = Applied
    BY <1>1, <2>1, BatchAssumption DEF Applied, Sending, Chunk
  <2>6. RowInv'
    BY <1>1, <2>5 DEF RowInv, Keyed
  <2>7. (pc \in {"chunk", "waiting", "sleeping", "ok"})'
    BY <2>1
  <2>8. InOrder'
    BY <2>1, <2>2, <2>3, <2>4, <2>6, <2>7, RowsInOrder, PTL
  <2>9. QED
    BY <2>1, <2>2, <2>3, <2>4, <2>6, <2>8
<1>3. CASE Respond /\ Retry
  <2>1. /\ attempt < MaxRetries /\ pc' = "sleeping" /\ request' = todo
        /\ UNCHANGED <<start, attempt>> /\ Valid
    BY <1>3 DEF Retry, Respond
  <2>2. TypeOK'
    BY <1>1, <2>1 DEF TypeOK
  <2>3. QueueInv' /\ ClockInv'
    BY <1>1, <2>1, QueueKept
  <2>4. Chunk(start)' = Chunk(start)
    BY <1>1, <2>1 DEF Chunk
  <2>5. \A m, n \in Chunk(start) : writes[m].key = writes[n].key => m = n
    BY <1>1, <2>1 DEF ChunkInv, Sending, Valid
  <2>6. ChunkInv'
    BY <1>1, <2>1, <2>4, <2>5 DEF ChunkInv, Sending, TypeOK
  <2>7. Applied' = Applied
    BY <1>1, <2>1, <2>4 DEF Applied, Sending
  <2>8. RowInv'
    BY <1>1, <2>7 DEF RowInv, Keyed
  <2>9. (pc \in {"chunk", "waiting", "sleeping", "ok"})'
    BY <2>1
  <2>10. InOrder'
    BY <2>1, <2>2, <2>3, <2>6, <2>8, <2>9, RowsInOrder, PTL
  <2>11. QED
    BY <2>1, <2>2, <2>3, <2>6, <2>8, <2>10
<1>4. CASE (Respond /\ GiveUp) \/ CallFails
  <2>1. pc' = "err" /\ UNCHANGED <<start, request, attempt>>
    BY <1>4 DEF GiveUp, CallFails
  <2>2. TypeOK'
    BY <1>1, <2>1 DEF TypeOK
  <2>3. QueueInv' /\ ClockInv'
    BY <1>1, <2>1, QueueKept
  <2>4. ChunkInv' /\ RowInv'
    BY <2>1 DEF ChunkInv, RowInv, Sending
  <2>5. InOrder'
    BY <1>1, <2>1 DEF InOrder, Keyed
  <2>6. QED
    BY <2>2, <2>3, <2>4, <2>5
<1>5. QED
  BY <1>2, <1>3, <1>4 DEF Respond

LEMMA ResendStep ==
    ASSUME BatchInv, Resend
    PROVE  BatchInv'
<1> USE DEF BatchInv
<1>1. /\ pc = "sleeping" /\ pc' = "waiting" /\ attempt' = attempt + 1
      /\ attempt < MaxRetries
      /\ UNCHANGED <<table, mem, clock, ops, writes, start, request, todo, runs>>
  BY DEF Resend, ChunkInv
<1>2. TypeOK'
  BY <1>1, BatchAssumption DEF TypeOK
<1>3. QueueInv' /\ ClockInv'
  BY <1>1, QueueKept
<1>4. Chunk(start)' = Chunk(start)
  BY <1>1 DEF Chunk
<1>5. ChunkInv'
  BY <1>1, <1>4 DEF ChunkInv, Sending
<1>6. Applied' = Applied
  BY <1>1, <1>4 DEF Applied, Sending
<1>7. RowInv'
  BY <1>1, <1>6 DEF RowInv, Keyed
<1>8. (pc \in {"chunk", "waiting", "sleeping", "ok"})'
  BY <1>1
<1>9. InOrder'
  BY <1>1, <1>2, <1>3, <1>5, <1>7, <1>8, RowsInOrder, PTL
<1>10. QED
  BY <1>1, <1>2, <1>3, <1>5, <1>7, <1>9

-----------------------------------------------------------------------------
(* The theorems. *)

LEMMA BatchStep == BatchInv /\ [Next]_vars => BatchInv'
<1> SUFFICES ASSUME BatchInv, [Next]_vars PROVE BatchInv'
  OBVIOUS
<1>1. ASSUME NEW p \in Ptrs, Put(p) PROVE BatchInv'
  BY <1>1, QueueStep DEF Put, Ops
<1>2. ASSUME NEW id \in Ids, Delete(id) PROVE BatchInv'
  BY <1>2, QueueStep DEF Delete, Ops
<1>3. CASE Step
  BY <1>3, CopyDeleteStep, StampPutStep, StampFailsStep, StampedStep,
     NextChunkStep, ResendStep, RunReturnsStep DEF Step
<1>4. CASE UNCHANGED vars
  <2>1. Chunk(start)' = Chunk(start) /\ Applied' = Applied
    BY <1>4 DEF vars, Chunk, Applied, Sending
  <2>2. \A k \in Ids : Keyed(k)' = Keyed(k)
    BY <1>4 DEF vars, Keyed
  <2>3. TypeOK' /\ QueueInv' /\ ClockInv'
    BY <1>4 DEF BatchInv, TypeOK, QueueInv, ClockInv, vars
  <2>4. ChunkInv' /\ RowInv' /\ InOrder'
    BY <1>4, <2>1, <2>2 DEF BatchInv, ChunkInv, RowInv, InOrder, Sending, vars
  <2>5. QED
    BY <2>3, <2>4 DEF BatchInv
<1>5. QED
  BY <1>1, <1>2, <1>3, <1>4, RunStep, ProcessStep, RespondStep DEF Next

\* The invariant of BatchWriteBuilder.Run, its types included.
THEOREM BatchInvariance == Spec => []BatchInv
  BY BatchInit, BatchStep, PTL DEF Spec

\* Run returns nil only if every key shows what the last operation on it in
\* the queue leaves (batch.go 244-253).
THEOREM EverythingApplied == Spec => []AllApplied
<1>1. BatchInv => AllApplied
  <2> SUFFICES ASSUME BatchInv, pc = "ok", NEW k \in Ids, NEW i \in Keyed(k),
                      IsLast(i, Keyed(k))
               PROVE  table[k] = writes[i].row
    BY DEF AllApplied
  <2>1. Keyed(k) \cap Applied = Keyed(k)
    BY DEF BatchInv, ChunkInv, Applied, Keyed, TypeOK
  <2>2. PICK j \in Keyed(k) : IsLast(j, Keyed(k)) /\ table[k] = writes[j].row
    BY <2>1 DEF BatchInv, RowInv
  <2>3. i <= j /\ j <= i /\ i \in Nat /\ j \in Nat
    BY <2>2 DEF IsLast, Keyed
  <2>4. QED
    BY <2>2, <2>3
<1>2. QED
  BY <1>1, BatchInvariance, PTL

\* Also in the middle of a Run and after one that failed, the rows follow the
\* queue chunk by chunk (batch.go 244-290).
THEOREM AppliedInOrder == Spec => []InOrder
<1>1. BatchInv => InOrder
  BY DEF BatchInv
<1>2. QED
  BY <1>1, BatchInvariance, PTL

\* After a successful Run the application's items are the rows
\* (batch.go 184-192).
THEOREM ItemsMatchRows == Spec => []RowsMatchItems
<1>1. BatchInv /\ AllApplied => RowsMatchItems
  <2> SUFFICES ASSUME BatchInv, AllApplied, pc = "ok",
                      NEW k \in Ids, NEW i \in Keyed(k), IsLast(i, Keyed(k)),
                      ops[i].kind = "put"
               PROVE  table[k].item = mem[ops[i].ptr]
    BY DEF RowsMatchItems
  <2>1. i \in 1..Len(writes) /\ writes[i].key = k
    BY DEF Keyed
  <2>2. ASSUME NEW j \in 1..Len(writes), i < j, ops[j].kind = "put",
               ops[j].ptr = ops[i].ptr
        PROVE  FALSE
    <3>1. writes[j].key = k
      BY <2>1, <2>2 DEF BatchInv, QueueInv
    <3>2. j <= i
      BY <3>1 DEF Keyed, IsLast
    <3>3. QED
      BY <2>1, <2>2, <3>2
  <2>3. writes[i].row.item = mem[ops[i].ptr]
    BY <2>1, <2>2 DEF BatchInv, QueueInv
  <2>4. QED
    BY <2>3 DEF AllApplied
<1>2. QED
  BY <1>1, BatchInvariance, EverythingApplied, PTL

-----------------------------------------------------------------------------
(* The safe half of RunEnds: each step of a Run leaves less to be done. *)

InRun == pc \in {"stamping", "chunk", "waiting", "sleeping"}

\* The phase; the operations to stamp, or the writes to come; the retries that
\* are left for the chunk, none of which is used before it is sent; whether there
\* is an answer to come, and what the service has not processed.
Left ==
    <<IF pc = "stamping" THEN 2 ELSE IF InRun THEN 1 ELSE 0,
      IF pc = "stamping" THEN Len(ops) - Len(writes) ELSE MaxOps + ChunkSize - start,
      IF pc = "chunk" THEN MaxRetries + 1 ELSE MaxRetries - attempt,
      IF pc = "waiting" THEN 1 ELSE 0,
      Cardinality(todo)>>

GoesOn == InRun => <<Left', Left>> \in Less(5)

RunGoesOn == [][GoesOn]_vars

\* There is no endless descent.
LEMMA DescentEnds == \A n \in Nat : IsWellFoundedOn(Less(n), [1..n -> Nat])
  BY NatLessThanWellFounded, WFLexProductOrdering, Zenon DEF Less

LEMMA Lower ==
    ASSUME NEW a1 \in Nat, NEW a2 \in Nat, NEW a3 \in Nat, NEW a4 \in Nat, NEW a5 \in Nat,
           NEW b1 \in Nat, NEW b2 \in Nat, NEW b3 \in Nat, NEW b4 \in Nat, NEW b5 \in Nat,
           \/ b1 < a1
           \/ b1 = a1 /\ b2 < a2
           \/ b1 = a1 /\ b2 = a2 /\ b3 < a3
           \/ b1 = a1 /\ b2 = a2 /\ b3 = a3 /\ b4 < a4
           \/ b1 = a1 /\ b2 = a2 /\ b3 = a3 /\ b4 = a4 /\ b5 < a5
    PROVE  <<<<b1, b2, b3, b4, b5>>, <<a1, a2, a3, a4, a5>>>> \in Less(5)
<1> DEFINE a == <<a1, a2, a3, a4, a5>>
           b == <<b1, b2, b3, b4, b5>>
<1>1. a \in [1..5 -> Nat] /\ b \in [1..5 -> Nat]
  OBVIOUS
<1>2. \E j \in 1..5 : /\ \A i \in 1..(j - 1) : b[i] = a[i]
                      /\ b[j] < a[j] /\ b[j] \in Nat /\ a[j] \in Nat
  <2>1. /\ \A i \in 1..(1 - 1) : FALSE
        /\ \A i \in 1..(2 - 1) : i = 1
        /\ \A i \in 1..(3 - 1) : i \in {1, 2}
        /\ \A i \in 1..(4 - 1) : i \in {1, 2, 3}
        /\ \A i \in 1..(5 - 1) : i \in {1, 2, 3, 4}
    OBVIOUS
  <2>2. QED
    BY <2>1
<1>3. QED
  BY <1>1, <1>2 DEF Less, LexProductOrdering, OpToRel

LEMMA LeftTypes ==
    TypeOK /\ QueueInv =>
        /\ Left[1] \in Nat /\ Left[2] \in Nat /\ Left[3] \in Nat /\ Left[4] \in Nat
        /\ Left[5] \in Nat /\ IsFiniteSet(todo)
<1> SUFFICES ASSUME TypeOK, QueueInv
             PROVE  /\ Left[1] \in Nat /\ Left[2] \in Nat /\ Left[3] \in Nat
                    /\ Left[4] \in Nat /\ Left[5] \in Nat /\ IsFiniteSet(todo)
  OBVIOUS
<1>1. IsFiniteSet(1..MaxOps)
  BY FS_Interval, BatchAssumption
<1>2. IsFiniteSet(todo)
  BY <1>1, FS_Subset DEF TypeOK
<1>3. Cardinality(todo) \in Nat
  BY <1>2, FS_CardinalityType
<1>4. Len(ops) - Len(writes) \in Nat
  BY DEF TypeOK, QueueInv
<1>5. MaxOps + ChunkSize - start \in Nat /\ MaxRetries - attempt \in Nat
  BY BatchAssumption DEF TypeOK
<1>6. QED
  BY <1>2, <1>3, <1>4, <1>5, BatchAssumption DEF Left

\* To compare what is left, it is enough to do it number by number.
LEMMA LeftLower ==
    ASSUME TypeOK, QueueInv, TypeOK', QueueInv',
           \/ Left'[1] < Left[1]
           \/ Left'[1] = Left[1] /\ Left'[2] < Left[2]
           \/ Left'[1] = Left[1] /\ Left'[2] = Left[2] /\ Left'[3] < Left[3]
           \/ /\ Left'[1] = Left[1] /\ Left'[2] = Left[2] /\ Left'[3] = Left[3]
              /\ Left'[4] < Left[4]
           \/ /\ Left'[1] = Left[1] /\ Left'[2] = Left[2] /\ Left'[3] = Left[3]
              /\ Left'[4] = Left[4] /\ Left'[5] < Left[5]
    PROVE  <<Left', Left>> \in Less(5)
<1>1. /\ Left[1] \in Nat /\ Left[2] \in Nat /\ Left[3] \in Nat /\ Left[4] \in Nat
      /\ Left[5] \in Nat
  BY LeftTypes
<1>2. /\ Left'[1] \in Nat /\ Left'[2] \in Nat /\ Left'[3] \in Nat /\ Left'[4] \in Nat
      /\ Left'[5] \in Nat
  <2>1. (/\ Left[1] \in Nat /\ Left[2] \in Nat /\ Left[3] \in Nat /\ Left[4] \in Nat
         /\ Left[5] \in Nat /\ IsFiniteSet(todo))'
    BY LeftTypes, PTL
  <2>2. QED
    BY <2>1
<1>3. <<<<Left'[1], Left'[2], Left'[3], Left'[4], Left'[5]>>,
        <<Left[1], Left[2], Left[3], Left[4], Left[5]>>>> \in Less(5)
  BY <1>1, <1>2, Lower
<1>4. /\ Left = <<Left[1], Left[2], Left[3], Left[4], Left[5]>>
      /\ Left' = <<Left'[1], Left'[2], Left'[3], Left'[4], Left'[5]>>
  BY DEF Left
<1>5. QED
  BY <1>3, <1>4

LEMMA RunDescends ==
    ASSUME BatchInv, BatchInv', InRun, Next
    PROVE  <<Left', Left>> \in Less(5)
<1>1. TypeOK /\ QueueInv /\ TypeOK' /\ QueueInv'
  BY DEF BatchInv
<1>2. pc \notin {"building", "ok", "err"}
  BY DEF InRun
<1> USE DEF Left, InRun
<1>3. CASE CopyDelete \/ StampPut
  <2>1. Len(writes') = Len(writes) + 1 /\ Len(writes) \in Nat /\ Len(ops) \in Nat
    BY <1>1, <1>3 DEF CopyDelete, StampPut, TypeOK
  <2>2. pc = "stamping" /\ pc' = pc /\ ops' = ops
    BY <1>3 DEF CopyDelete, StampPut, Stamping
  <2>3. QED
    BY <1>1, <2>1, <2>2, LeftLower
<1>4. CASE StampFails \/ Stamped
  BY <1>1, <1>4, LeftLower DEF StampFails, Stamped, Stamping
<1>5. CASE RunReturns \/ CallFails
  BY <1>1, <1>5, LeftLower DEF RunReturns, CallFails
<1>6. CASE NextChunk
  BY <1>1, <1>6, LeftLower, BatchAssumption DEF NextChunk
<1>7. CASE Resend
  BY <1>1, <1>7, LeftLower, BatchAssumption DEF Resend, TypeOK
<1>8. ASSUME NEW i \in todo, Process(i) PROVE <<Left', Left>> \in Less(5)
  <2>1. Cardinality(todo') < Cardinality(todo)
    <3>1. IsFiniteSet(todo)
      BY <1>1, LeftTypes
    <3>2. Cardinality(todo') = Cardinality(todo) - 1 /\ Cardinality(todo) \in Nat
      BY <1>8, <3>1, FS_RemoveElement, FS_CardinalityType DEF Process
    <3>3. QED
      BY <3>2
  <2>2. /\ pc = "waiting" /\ pc' = pc /\ attempt' = attempt /\ start' = start
    BY <1>8 DEF Process
  <2>3. QED
    BY <1>1, <2>1, <2>2, LeftLower
<1>9. CASE Respond
  <2>1. pc = "waiting" /\ todo' = todo /\ (ChunkDone \/ Retry \/ GiveUp)
    BY <1>9 DEF Respond
  <2>2. CASE ChunkDone
    BY <1>1, <2>1, <2>2, LeftLower, BatchAssumption DEF ChunkDone, TypeOK
  <2>3. CASE Retry
    BY <1>1, <2>1, <2>3, LeftLower DEF Retry
  <2>4. CASE GiveUp
    BY <1>1, <2>1, <2>4, LeftLower DEF GiveUp
  <2>5. QED
    BY <2>1, <2>2, <2>3, <2>4
<1>10. QED
  BY <1>2, <1>3, <1>4, <1>5, <1>6, <1>7, <1>8, <1>9
     DEF Next, Step, Put, Delete, Queue, Run

\* Each step of a Run, of the service's too, leaves less to be done, in an order
\* in which every descent ends: a Run is never endless (batch.go 22-25, 281-318).
THEOREM RunNeverTurnsBack == Spec => RunGoesOn
<1>1. BatchInv /\ BatchInv' /\ [Next]_vars => [GoesOn]_vars
  BY RunDescends DEF GoesOn
<1>2. QED
  BY <1>1, BatchInvariance, PTL DEF Spec, RunGoesOn
=============================================================================
