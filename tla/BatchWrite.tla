----------------------------- MODULE BatchWrite -----------------------------
(***************************************************************************)
(* BatchWriteBuilder of batch.go: puts and deletes are queued, Run stamps  *)
(* the puts, cuts the list into chunks and sends each chunk until the      *)
(* table has no unprocessed item left or the retries are used up.  A       *)
(* builder can be run again.                                               *)
(*                                                                         *)
(* The service (external) processes the requests of one call one by one,   *)
(* in any order, and hands back those it has not processed; it refuses a   *)
(* call that names a key twice.  A call may also fail with any part of its *)
(* requests processed, when the response is lost.                          *)
(***************************************************************************)
EXTENDS Table, Sequences

CONSTANTS
    Ptrs,          \* the *T the application queues
    ChunkSize,     \* batchWriteMaxRequests
    MaxRetries,    \* batchMaxRetries
    MaxOps,        \* bound: the length of the queue
    MaxRuns        \* bound: how often the builder is run

ASSUME BatchAssumption ==
    /\ ChunkSize \in Nat \ {0}
    /\ MaxRetries \in Nat
    /\ MaxOps \in Nat
    /\ MaxRuns \in Nat

VARIABLES
    table,     \* the rows, by key
    mem,       \* the item at each pointer
    clock,     \* the last reading of db.clock
    ops,       \* b.ops
    writes,    \* the WriteRequests made from ops
    start,     \* where the current chunk starts, counted from 0
    request,   \* what runChunk sends: positions in writes
    todo,      \* the part of request the service has not processed
    attempt,   \* runChunk's loop counter
    pc,        \* where Run is
    runs       \* how often Run was called

vars == <<table, mem, clock, ops, writes, start, request, todo, attempt, pc, runs>>

Ops ==
    [kind : {"put"}, ptr : Ptrs] \cup [kind : {"delete"}, id : Ids]

\* A PutRequest, or a DeleteRequest, whose row is Absent.
Write == [key : Ids, row : Row]

MaxClock == MaxOps * MaxRuns + 1

TypeOK ==
    /\ table   \in [Ids -> Row]
    /\ mem     \in [Ptrs -> Item]
    /\ clock   \in 1..MaxClock
    /\ ops     \in Seq(Ops)
    /\ writes  \in Seq(Write)
    /\ start   \in 0..(MaxOps + ChunkSize)
    /\ request \subseteq 1..MaxOps
    /\ todo    \subseteq request
    /\ attempt \in 0..MaxRetries
    /\ pc      \in {"building", "stamping", "chunk", "waiting", "sleeping",
                   "ok", "err"}
    /\ runs    \in 0..MaxRuns

\* The row an earlier create left behind, and the copy a Get returns.
OldRow(id) == Marshal(NewItem(id), 1, NoId)

\* Some rows exist; the pointers hold new items, or copies of these rows.
\* Every item has its ID here: generating one is modelled in Crud.
Init ==
    /\ \E old \in SUBSET Ids :
          /\ table = [id \in Ids |-> IF id \in old THEN OldRow(id) ELSE Absent]
          /\ mem \in [Ptrs -> {NewItem(id) : id \in Ids}
                              \cup {OldRow(id).item : id \in old}]
    /\ clock = 1
    /\ ops = <<>>
    /\ writes = <<>>
    /\ start = 0
    /\ request = {}
    /\ todo = {}
    /\ attempt = 0
    /\ pc = "building"
    /\ runs = 0

-----------------------------------------------------------------------------
(* Building. *)

\* Before the first Run, and between two: what the last Run made of the queue
\* was local to it.
Queue(op) ==
    /\ pc \in {"building", "ok", "err"}
    /\ Len(ops) < MaxOps
    /\ ops' = Append(ops, op)
    /\ pc' = "building"
    /\ writes' = <<>>
    /\ start' = 0
    /\ request' = {}
    /\ todo' = {}
    /\ UNCHANGED <<table, mem, clock, attempt, runs>>

Put(p) == Queue([kind |-> "put", ptr |-> p])

Delete(id) == Queue([kind |-> "delete", id |-> id])

-----------------------------------------------------------------------------
(* Run: first every queued put is stamped and marshaled, in order. *)

Run ==
    /\ pc \in {"building", "ok", "err"}
    /\ runs < MaxRuns
    /\ runs' = runs + 1
    /\ pc' = IF ops = <<>> THEN "ok" ELSE "stamping"
    /\ writes' = <<>>
    /\ start' = 0
    /\ request' = {}
    /\ todo' = {}
    /\ UNCHANGED <<table, mem, clock, ops, attempt>>

NextOp == ops[Len(writes) + 1]

Stamping == pc = "stamping" /\ Len(writes) < Len(ops)

CopyDelete ==
    /\ Stamping
    /\ NextOp.kind = "delete"
    /\ writes' = Append(writes, [key |-> NextOp.id, row |-> Absent])
    /\ UNCHANGED <<table, mem, clock, ops, start, request, todo, attempt, pc, runs>>

\* A mutant of StampPut: the item is marshaled before it is stamped.
StampPutLate ==
    /\ Stamping
    /\ NextOp.kind = "put"
    /\ clock' = clock + 1
    /\ LET item == mem[NextOp.ptr]
       IN  /\ mem' = [mem EXCEPT ![NextOp.ptr] = Stamp(item, clock', NoId)]
           /\ writes' = Append(writes, [key |-> item.id,
                                        row |-> [item |-> item, gsi1pk |-> TypeName]])
    /\ UNCHANGED <<table, ops, start, request, todo, attempt, pc, runs>>

\* The condition stampAndMarshal returns is dropped.
StampPut ==
    /\ Stamping
    /\ NextOp.kind = "put"
    /\ clock' = clock + 1
    /\ LET item == mem[NextOp.ptr]
       IN  /\ mem' = [mem EXCEPT ![NextOp.ptr] = Stamp(item, clock', NoId)]
           /\ writes' = Append(writes, [key |-> item.id,
                                        row |-> Marshal(item, clock', NoId)])
    /\ UNCHANGED <<table, ops, start, request, todo, attempt, pc, runs>>

\* marshalItem fails: the items up to this one stay stamped, nothing is sent.
StampFails ==
    /\ Stamping
    /\ NextOp.kind = "put"
    /\ clock' = clock + 1
    /\ mem' = [mem EXCEPT ![NextOp.ptr] = Stamp(@, clock', NoId)]
    /\ pc' = "err"
    /\ UNCHANGED <<table, ops, writes, start, request, todo, attempt, runs>>

Stamped ==
    /\ pc = "stamping"
    /\ Len(writes) = Len(ops)
    /\ pc' = "chunk"
    /\ UNCHANGED <<table, mem, clock, ops, writes, start, request, todo, attempt, runs>>

-----------------------------------------------------------------------------
(* Then chunk after chunk is sent, and sent again. *)

\* A mutant of Chunk: the last request of a full chunk is left out.
ChunkTooShort(from) ==
    {i \in 1..Len(writes) : from < i /\ i <= from + ChunkSize - 1}

Chunk(from) == {i \in 1..Len(writes) : from < i /\ i <= from + ChunkSize}

NextChunk ==
    /\ pc = "chunk"
    /\ start < Len(writes)
    /\ request' = Chunk(start)
    /\ todo' = Chunk(start)
    /\ attempt' = 0
    /\ pc' = "waiting"
    /\ UNCHANGED <<table, mem, clock, ops, writes, start, runs>>

RunReturns ==
    /\ pc = "chunk"
    /\ start >= Len(writes)
    /\ pc' = "ok"
    /\ UNCHANGED <<table, mem, clock, ops, writes, start, request, todo, attempt, runs>>

\* The service refuses a call that names a key twice (external).
Valid == \A i, j \in request : writes[i].key = writes[j].key => i = j

\* The service processes one request of the call (external).
Process(i) ==
    /\ pc = "waiting"
    /\ Valid
    /\ table' = [table EXCEPT ![writes[i].key] = writes[i].row]
    /\ todo' = todo \ {i}
    /\ UNCHANGED <<mem, clock, ops, writes, start, request, attempt, pc, runs>>

\* The response: nothing unprocessed ends the chunk, otherwise the rest is
\* sent again, or Run gives up.
ChunkDone ==
    /\ todo = {}
    /\ start' = start + ChunkSize
    /\ pc' = "chunk"
    /\ UNCHANGED <<request, attempt>>

\* A mutant of Retry: one retry too many.
RetryOnceMore ==
    /\ todo # {}
    /\ attempt <= MaxRetries
    /\ request' = todo
    /\ pc' = "sleeping"
    /\ UNCHANGED <<start, attempt>>

Retry ==
    /\ todo # {}
    /\ attempt < MaxRetries
    /\ request' = todo
    /\ pc' = "sleeping"
    /\ UNCHANGED <<start, attempt>>

\* A mutant of GiveUp: the unprocessed rest is dropped, the chunk counts as done.
GiveUpChunkOnly ==
    /\ todo # {}
    /\ attempt >= MaxRetries
    /\ start' = start + ChunkSize
    /\ pc' = "chunk"
    /\ UNCHANGED <<request, attempt>>

GiveUp ==
    /\ todo # {}
    /\ attempt >= MaxRetries
    /\ pc' = "err"
    /\ UNCHANGED <<start, request, attempt>>

Respond ==
    /\ pc = "waiting"
    /\ Valid
    /\ ChunkDone \/ Retry \/ GiveUp
    /\ UNCHANGED <<table, mem, clock, ops, writes, todo, runs>>

\* A mutant of Resend: retries are not counted.
ResendUncounted ==
    /\ pc = "sleeping"
    /\ pc' = "waiting"
    /\ UNCHANGED <<table, mem, clock, ops, writes, start, request, todo, attempt, runs>>

\* The end of batchBackoff's sleep.
Resend ==
    /\ pc = "sleeping"
    /\ attempt' = attempt + 1
    /\ pc' = "waiting"
    /\ UNCHANGED <<table, mem, clock, ops, writes, start, request, todo, runs>>

\* Any other error of the call ends Run.
CallFails ==
    /\ pc = "waiting"
    /\ pc' = "err"
    /\ UNCHANGED <<table, mem, clock, ops, writes, start, request, todo, attempt, runs>>

-----------------------------------------------------------------------------
Step ==
    \/ CopyDelete \/ StampPut \/ StampFails \/ Stamped
    \/ NextChunk \/ Resend \/ RunReturns

Next ==
    \/ \E p \in Ptrs : Put(p)
    \/ \E id \in Ids : Delete(id)
    \/ Run
    \/ Step
    \/ \E i \in todo : Process(i)
    \/ Respond
    \/ CallFails

\* Run's own steps are taken, and each call of the service returns.
Spec ==
    /\ Init /\ [][Next]_vars
    /\ WF_vars(Step)
    /\ WF_vars(Respond \/ CallFails)

-----------------------------------------------------------------------------
Keyed(k) == {i \in 1..Len(writes) : writes[i].key = k}

IsLast(i, S) == i \in S /\ \A j \in S : j <= i

\* Run returns nil only if the rows are what the queued operations leave when
\* they are applied one by one in queue order, however the requests were cut
\* into chunks, reordered by the service and retried (batch.go 244-253).
AllApplied ==
    pc = "ok" =>
        \A k \in Ids : \A i \in Keyed(k) :
            IsLast(i, Keyed(k)) => table[k] = writes[i].row

\* Also in the middle of a Run, and after one that failed: a row never falls
\* behind the chunks that are done, and shows nothing of the chunks to come.
\* A delete and a later put of the same item are not swapped by a retry.
InOrder ==
    pc \in {"chunk", "waiting", "sleeping", "ok", "err"} =>
        \A k \in Ids :
            LET done == {i \in Keyed(k) : i <= start}
                sent == {i \in Keyed(k) : i <= start + ChunkSize}
            IN  done # {} => \E i \in sent : /\ \A j \in done : j <= i
                                             /\ table[k] = writes[i].row

\* After a successful Run the caller's items are what is stored, so that
\* their versions can be used for a Put (batch.go 184-192).
RowsMatchItems ==
    pc = "ok" =>
        \A k \in Ids : \A i \in Keyed(k) :
            IsLast(i, Keyed(k)) /\ ops[i].kind = "put"
                => table[k].item = mem[ops[i].ptr]

\* Run returns, however often the service leaves requests unprocessed
\* (batch.go 22-25).
RunEnds == pc = "stamping" ~> pc \in {"ok", "err"}

-----------------------------------------------------------------------------
(* Why they hold. *)

Sending == pc \in {"waiting", "sleeping"}

\* The requests are made from the queued operations, one by one; the item at
\* a pointer is the one its last request carries, unless a Run stopped while
\* stamping.
QueueInv ==
    /\ Len(ops) <= MaxOps /\ Len(writes) <= Len(ops)
    /\ \A p \in Ptrs : mem[p].id \in Ids
    /\ pc = "building" => writes = <<>>
    /\ pc \in {"chunk", "waiting", "sleeping", "ok"} => Len(writes) = Len(ops)
    /\ \A i \in 1..Len(writes) :
          ops[i].kind = "put" => writes[i].key = mem[ops[i].ptr].id
    /\ pc # "err" =>
          \A i \in 1..Len(writes) :
              ops[i].kind = "put" =>
                  \/ writes[i].row.item = mem[ops[i].ptr]
                  \/ \E j \in 1..Len(writes) :
                        i < j /\ ops[j].kind = "put" /\ ops[j].ptr = ops[i].ptr

\* Every reading of the clock belongs to an operation of a Run.
ClockInv ==
    /\ clock <= 1 + MaxOps * runs
    /\ pc = "stamping" => /\ runs > 0
                          /\ clock <= 1 + MaxOps * (runs - 1) + Len(writes)

\* While a chunk is sent; a call that was answered named no key twice.
ChunkInv ==
    /\ pc = "stamping" => start = 0
    /\ pc = "ok" => start >= Len(writes)
    /\ pc = "sleeping" => attempt < MaxRetries
    /\ Sending => /\ start < Len(writes)
                  /\ request \subseteq Chunk(start)
                  /\ request = Chunk(start)
                     \/ \A i, j \in Chunk(start) : writes[i].key = writes[j].key => i = j

\* The requests that were processed, and the rows they leave.
Applied ==
    {i \in 1..Len(writes) :
        i <= start \/ (Sending /\ i \in Chunk(start) /\ i \notin todo)}

RowInv ==
    pc \in {"chunk", "waiting", "sleeping", "ok"} =>
        \A k \in Ids :
            LET S == Keyed(k) \cap Applied
            IN  S = {} \/ \E i \in S : IsLast(i, S) /\ table[k] = writes[i].row

\* The inductive invariant of BatchWriteBuilder.Run: what was processed so far
\* is a prefix of the queue and a part of one chunk, and the rows show it.
BatchInv == TypeOK /\ QueueInv /\ ClockInv /\ ChunkInv /\ RowInv /\ InOrder
=============================================================================
