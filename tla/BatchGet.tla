------------------------------ MODULE BatchGet ------------------------------
(***************************************************************************)
(* BatchGetBuilder of batch.go: the queued ids are cut into chunks, and    *)
(* each chunk is asked for until the service has no unprocessed key left   *)
(* or the retries are used up.  T has the default key, so that an id is a  *)
(* key.  Other programs put and delete rows meanwhile.                     *)
(*                                                                         *)
(* The service (external) reads the keys of one call one by one, in any    *)
(* order, leaves out those without a row and hands back those it has not   *)
(* read; it refuses a call that names a key twice.                         *)
(***************************************************************************)
EXTENDS FiniteSets, Naturals, Sequences

CONSTANTS
    Keys,          \* the ids
    ChunkSize,     \* batchGetMaxKeys
    MaxRetries,    \* batchMaxRetries
    MaxIds,        \* bound: how many ids are queued
    MaxChanges     \* bound: how often others put or delete a row

ASSUME BatchGetAssumption ==
    /\ ChunkSize \in Nat \ {0}
    /\ MaxRetries \in Nat /\ MaxIds \in Nat /\ MaxChanges \in Nat

VARIABLES
    rows,      \* the keys that have a row
    ids,       \* b.ids
    pc,        \* where Run is
    start,     \* where the current chunk starts, counted from 0
    request,   \* what runChunk asks for: positions in ids
    todo,      \* the part of request the service has not read
    attempt,   \* runChunk's loop counter
    items,     \* the items read: how often each key is among them
    always,    \* history: the keys that had a row ever since Run was called
    ever,      \* history: the keys that had a row at some time since
    changes    \* how often others put or deleted a row

vars == <<rows, ids, pc, start, request, todo, attempt, items, always, ever, changes>>
table == <<rows, always, ever, changes>>

Nothing == [k \in Keys |-> 0]
Running == {"chunk", "waiting", "sleeping"}

TypeOK ==
    /\ rows    \subseteq Keys
    /\ ids     \in Seq(Keys) /\ Len(ids) <= MaxIds
    /\ pc      \in Running \cup {"building", "ok", "err"}
    /\ start   \in Nat
    /\ request \subseteq DOMAIN ids /\ Cardinality(request) <= ChunkSize
    /\ todo    \subseteq request
    /\ attempt \in 0..MaxRetries
    /\ items   \in [Keys -> Nat]
    /\ always  \subseteq Keys /\ ever \subseteq Keys
    /\ changes \in 0..MaxChanges

Init ==
    /\ rows \in SUBSET Keys
    /\ ids = <<>>
    /\ pc = "building"
    /\ start = 0 /\ request = {} /\ todo = {} /\ attempt = 0
    /\ items = Nothing
    /\ always = {} /\ ever = {}
    /\ changes = 0

-----------------------------------------------------------------------------
IDs(k) ==
    /\ pc \notin Running
    /\ Len(ids) < MaxIds
    /\ ids' = Append(ids, k)
    /\ UNCHANGED <<pc, start, request, todo, attempt, items, table>>

Run ==
    /\ pc \notin Running
    /\ pc' = "chunk"
    /\ start' = 0 /\ request' = {} /\ todo' = {} /\ attempt' = 0
    /\ items' = Nothing
    /\ always' = rows /\ ever' = rows
    /\ UNCHANGED <<rows, ids, changes>>

\* A mutant of Chunk: chunks of one more than the service takes.
ChunkTooLong == {i \in DOMAIN ids : start < i /\ i <= start + ChunkSize + 1}

Chunk == {i \in DOMAIN ids : start < i /\ i <= start + ChunkSize}

NextChunk ==
    /\ pc = "chunk"
    /\ start < Len(ids)
    /\ request' = Chunk /\ todo' = Chunk
    /\ attempt' = 0
    /\ pc' = "waiting"
    /\ UNCHANGED <<ids, start, items, table>>

\* All chunks are done, or no id was queued.
RunReturns ==
    /\ pc = "chunk"
    /\ start >= Len(ids)
    /\ pc' = "ok"
    /\ UNCHANGED <<ids, start, request, todo, attempt, items, table>>

\* The service refuses a call that names a key twice (external).
Valid == \A i, j \in request : ids[i] = ids[j] => i = j

\* The service reads one key of the call (external).
Process(i) ==
    /\ pc = "waiting"
    /\ Valid
    /\ items' = IF ids[i] \in rows THEN [items EXCEPT ![ids[i]] = @ + 1] ELSE items
    /\ todo' = todo \ {i}
    /\ UNCHANGED <<ids, pc, start, request, attempt, table>>

\* The response: nothing unprocessed ends the chunk, otherwise the rest is
\* asked for again, or Run gives up.
ChunkDone ==
    /\ todo = {}
    /\ start' = start + ChunkSize
    /\ pc' = "chunk"
    /\ UNCHANGED <<request, todo, items>>

\* A mutant of Retry: the whole request is sent again.
RetryAll ==
    /\ todo # {}
    /\ attempt < MaxRetries
    /\ todo' = request
    /\ pc' = "sleeping"
    /\ UNCHANGED <<start, request, items>>

Retry ==
    /\ todo # {}
    /\ attempt < MaxRetries
    /\ request' = todo
    /\ pc' = "sleeping"
    /\ UNCHANGED <<start, todo, items>>

GiveUp ==
    /\ todo # {}
    /\ attempt >= MaxRetries
    /\ pc' = "err"
    /\ items' = Nothing
    /\ UNCHANGED <<start, request, todo>>

Respond ==
    /\ pc = "waiting"
    /\ Valid
    /\ ChunkDone \/ Retry \/ GiveUp
    /\ UNCHANGED <<ids, attempt, table>>

\* A mutant of Resend: retries are not counted.
ResendUncounted ==
    /\ pc = "sleeping"
    /\ pc' = "waiting"
    /\ UNCHANGED <<ids, start, request, todo, attempt, items, table>>

\* The end of batchBackoff's sleep.
Resend ==
    /\ pc = "sleeping"
    /\ attempt' = attempt + 1
    /\ pc' = "waiting"
    /\ UNCHANGED <<ids, start, request, todo, items, table>>

\* The call, or the unmarshaling of an item, fails.
CallFails ==
    /\ pc = "waiting"
    /\ pc' = "err"
    /\ items' = Nothing
    /\ UNCHANGED <<ids, start, request, todo, attempt, table>>

\* Another program puts or deletes a row.
Change(new) ==
    /\ changes < MaxChanges
    /\ new # rows
    /\ rows' = new
    /\ always' = always \cap new
    /\ ever' = ever \cup new
    /\ changes' = changes + 1
    /\ UNCHANGED <<ids, pc, start, request, todo, attempt, items>>

-----------------------------------------------------------------------------
Next ==
    \/ \E k \in Keys : IDs(k)
    \/ Run \/ NextChunk \/ Resend \/ RunReturns
    \/ \E i \in todo : Process(i)
    \/ Respond
    \/ CallFails
    \/ \E k \in Keys : Change(rows \cup {k}) \/ Change(rows \ {k})

\* Run's own steps are taken, and each call of the service returns.
Spec ==
    /\ Init /\ [][Next]_vars
    /\ WF_vars(NextChunk \/ Resend \/ RunReturns)
    /\ WF_vars(Respond \/ CallFails)

-----------------------------------------------------------------------------
Wanted(k) == {i \in DOMAIN ids : ids[i] = k}

\* What the caller sees.
Asked == [k \in Keys |-> Cardinality(Wanted(k))]
Returned == IF pc \in Running THEN Nothing ELSE items
Status == CASE pc = "building" -> "idle" [] pc \in Running -> "running" [] OTHER -> pc

ReadAll == INSTANCE ReadAll WITH
    asked <- Asked, items <- Returned, status <- Status

\* Run returns every queued item that was there all the time as often as it was
\* queued, and a key that is missing from the result had no row at some time: a
\* key the service did not get to is never taken for a missing one, and a retry
\* never returns an item again (batch.go 70-85).
ImplementsReadAll == ReadAll!Spec

\* Run returns, however often the service leaves keys unprocessed (batch.go
\* 22-25).
RunEnds == pc \in Running ~> pc \in {"ok", "err"}

-----------------------------------------------------------------------------
(* Why the items are right. *)

Sending == pc \in {"waiting", "sleeping"}

\* The positions whose key was read.
Counted ==
    {i \in DOMAIN ids : i <= start \/ (Sending /\ i \in Chunk /\ i \notin todo)}

HistoryInv == pc \in Running => always \subseteq rows /\ rows \subseteq ever

\* The items are those of the positions whose key was read.
ItemsInv ==
    pc \in Running =>
        \A k \in Keys :
            LET n == Cardinality(Wanted(k) \cap Counted)
            IN  /\ items[k] <= n
                /\ k \in always => items[k] = n
                /\ k \notin ever => items[k] = 0

\* The inductive invariant of BatchGetBuilder.Run.
GetInv ==
    /\ TypeOK
    /\ pc = "sleeping" => attempt < MaxRetries
    /\ Sending => request \subseteq Chunk
    /\ HistoryInv
    /\ ItemsInv
=============================================================================
