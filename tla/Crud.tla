-------------------------------- MODULE Crud --------------------------------
(***************************************************************************)
(* The single-item operations of crud.go (Put, Get, Delete and             *)
(* UpdateBuilder.Run) called concurrently by several goroutines or         *)
(* processes on one table.                                                 *)
(*                                                                         *)
(* A call is cut where the code waits for the network: the action that     *)
(* computes and sends the request, the table serving it, and the action    *)
(* that turns the response into the result.  The AWS client in between     *)
(* (external) resends a request it has no response to and may give up;     *)
(* requests and responses are lost, delayed and reordered, so that a       *)
(* request can be served after its call has returned.                      *)
(***************************************************************************)
EXTENDS Table

CONSTANTS
    Callers,           \* concurrent users of the package
    Ops,               \* the operations they use
    MaxSends,          \* attempts of the AWS client for one call
    MaxClock,          \* bound: number of writing calls
    ReuseAfterError    \* do callers Put an item again after a failed Put?

ASSUME CrudAssumption ==
    /\ Ops \subseteq {"new", "newId", "put", "get", "delete", "update", "updateIf"}
    /\ MaxSends \in Nat \ {0}
    /\ MaxClock \in Nat
    /\ ReuseAfterError \in BOOLEAN

VARIABLES
    table,      \* the rows, by key
    replica,    \* a replica of the table that lags behind (external)
    net,        \* the attempts that are on their way to the table
    clock,      \* the last reading of db.clock
    held,       \* the *T each caller holds
    status,     \* the result of its last call, or "pending"
    req,        \* the request of that call
    tries,      \* how often the AWS client has sent it
    answer      \* the response that is on its way back

callVars == <<held, status, req, tries, answer>>
vars == <<table, replica, net, clock, callVars>>

Key == Ids \cup {NoId}

Request ==
    [op : {"none", "PutItem", "GetItem", "DeleteItem", "UpdateItem"},
     from : Callers, at : Nat, key : Key, row : Row, cond : Conditions]

Message == [req : Request, try : 1..MaxSends]

Answers == [code : {"none", "ok", "condfail"}, row : Row]
NoAnswer == [code |-> "none", row |-> Absent]

Results == {"ok", "lock", "notFound", "err"}

NoRequest(c) ==
    [op |-> "none", from |-> c, at |-> 0, key |-> NoId, row |-> Absent,
     cond |-> NoCondition]

TypeOK ==
    /\ table   \in [Key -> Row]
    /\ replica \in [Key -> Row]
    /\ net     \subseteq Message
    /\ clock   \in 0..MaxClock
    /\ held    \in [Callers -> Item]
    /\ status  \in [Callers -> Results \cup {"pending"}]
    /\ req     \in [Callers -> Request]
    /\ tries   \in [Callers -> 1..MaxSends]
    /\ answer  \in [Callers -> Answers]

Init ==
    /\ table   = [k \in Key |-> Absent]
    /\ replica = [k \in Key |-> Absent]
    /\ net     = {}
    /\ clock   = 0
    /\ held    = [c \in Callers |-> NoItem]
    /\ status  = [c \in Callers |-> "ok"]
    /\ req     = [c \in Callers |-> NoRequest(c)]
    /\ tries   = [c \in Callers |-> 1]
    /\ answer  = [c \in Callers |-> NoAnswer]

Idle(c) == status[c] # "pending"
Pending(c) == status[c] = "pending"

-----------------------------------------------------------------------------
(* Sending a request, and the end of a call. *)

Attempt(r, n) == [req |-> r, try |-> n]

Send(c, r) ==
    /\ req'    = [req EXCEPT ![c] = r]
    /\ tries'  = [tries EXCEPT ![c] = 1]
    /\ answer' = [answer EXCEPT ![c] = NoAnswer]
    /\ status' = [status EXCEPT ![c] = "pending"]
    /\ net'    = net \cup {Attempt(r, 1)}
    /\ UNCHANGED <<table, replica>>

\* A read that is served when nobody waits for it any more changes nothing.
\* The request is kept as long as its result says something about it.
Finish(c, result) ==
    /\ status' = [status EXCEPT ![c] = result]
    /\ answer' = [answer EXCEPT ![c] = NoAnswer]
    /\ net'    = {m \in net : ~(m.req.from = c /\ m.req.op = "GetItem")}
    /\ IF result \in {"ok", "lock"} /\ req[c].op # "GetItem"
       THEN UNCHANGED <<req, tries>>
       ELSE /\ req'   = [req EXCEPT ![c] = NoRequest(c)]
            /\ tries' = [tries EXCEPT ![c] = 1]
    /\ UNCHANGED <<table, replica, clock>>

\* db.clock()
Tick == clock < MaxClock /\ clock' = clock + 1

\* uuid.New(): an ID nobody uses.
FreshIds ==
    {i \in Ids : /\ ~Exists(table[i]) /\ ~Exists(replica[i])
                 /\ \A c \in Callers : i \notin {held[c].id, answer[c].row.item.id}
                 /\ \A m \in net : m.req.key # i}

Uuids(item) == IF item.id = NoId THEN FreshIds ELSE {NoId}

\* What is left of the item after its Put failed: the pointer holds the
\* stamped values, and the caller uses it again or reads afresh.
AfterFailedPut(item) == IF ReuseAfterError THEN item ELSE NoItem

-----------------------------------------------------------------------------
(* Put: stampAndMarshal mutates the item, then PutItem is called. *)

PutRequest(c, item, now, uuid) ==
    [op   |-> "PutItem",
     from |-> c,
     at   |-> now,
     key  |-> Stamp(item, now, uuid).id,
     row  |-> Marshal(item, now, uuid),
     cond |-> Condition(item)]

Put(c, item) ==
    \E uuid \in Uuids(item) :
        /\ Tick
        /\ held' = [held EXCEPT ![c] = Stamp(item, clock', uuid)]
        /\ Send(c, PutRequest(c, item, clock', uuid))

\* marshalItem fails: nothing is sent, but the item is already stamped.
PutUnmarshalable(c, item) ==
    \E uuid \in Uuids(item) :
        /\ Tick
        /\ held' = [held EXCEPT ![c] = AfterFailedPut(Stamp(item, clock', uuid))]
        /\ status' = [status EXCEPT ![c] = "err"]
        /\ req'   = [req EXCEPT ![c] = NoRequest(c)]
        /\ tries' = [tries EXCEPT ![c] = 1]
        /\ UNCHANGED <<table, replica, net, answer>>

\* What callers set Model.ID to before the first Put: nothing, or an ID of
\* their own, which may have been used before.
NewIds == {id \in Key : IF id = NoId THEN "new" \in Ops ELSE "newId" \in Ops}

\* The item is edited in the caller's memory before the call; nobody else
\* sees it there, so the edit is part of the call.
PutNew(c) ==
    /\ Idle(c)
    /\ \E id \in NewIds :
          LET item == Edit(NewItem(id), clock + 1)
          IN  Put(c, item) \/ PutUnmarshalable(c, item)

PutHeld(c) ==
    /\ "put" \in Ops
    /\ Idle(c)
    /\ held[c] # NoItem
    /\ LET item == Edit(held[c], clock + 1)
       IN  Put(c, item) \/ PutUnmarshalable(c, item)

-----------------------------------------------------------------------------
(* Get, Delete, Update. *)

Get(c, id) ==
    /\ "get" \in Ops
    /\ Idle(c)
    /\ Send(c, [op |-> "GetItem", from |-> c, at |-> 0, key |-> id,
                row |-> Absent, cond |-> NoCondition])
    /\ UNCHANGED <<clock, held>>

\* Delete has no condition and reads no clock: the tick numbers the request.
Delete(c, id) ==
    /\ "delete" \in Ops
    /\ Idle(c)
    /\ Tick
    /\ Send(c, [op |-> "DeleteItem", from |-> c, at |-> clock', key |-> id,
                row |-> Absent, cond |-> NoCondition])
    /\ UNCHANGED held

\* UpdateBuilder.Run; the condition is there only after IfVersion.
Run(c, id, cond) ==
    /\ Idle(c)
    /\ Tick
    /\ Send(c, [op |-> "UpdateItem", from |-> c, at |-> clock', key |-> id,
                row |-> Absent, cond |-> cond])
    /\ UNCHANGED held

Update(c, id) ==
    /\ "update" \in Ops
    /\ Run(c, id, NoCondition)

\* The expression does not build: nothing is sent.
UpdateUnbuildable(c) ==
    /\ {"update", "updateIf"} \cap Ops # {}
    /\ Idle(c)
    /\ Tick
    /\ status' = [status EXCEPT ![c] = "err"]
    /\ req'   = [req EXCEPT ![c] = NoRequest(c)]
    /\ tries' = [tries EXCEPT ![c] = 1]
    /\ UNCHANGED <<table, replica, net, held, answer>>

\* Update(db, item.ID).IfVersion(item.Version) with the copy at hand.
IfVersion(item) == [kind |-> "version", version |-> item.version]

UpdateIfVersion(c) ==
    /\ "updateIf" \in Ops
    /\ held[c] # NoItem
    /\ Run(c, held[c].id, IfVersion(held[c]))

-----------------------------------------------------------------------------
(* The table and the AWS client (external). *)

Awaited(m) ==
    LET c == m.req.from
    IN  Pending(c) /\ req[c] = m.req /\ tries[c] = m.try

Respond(m, code, row) ==
    answer' = IF Awaited(m)
              THEN [answer EXCEPT ![m.req.from] = [code |-> code, row |-> row]]
              ELSE answer

ServeWrite(m) ==
    LET r == m.req
    IN  /\ r.op # "GetItem"
        /\ net' = net \ {m}
        /\ IF Holds(r.cond, table[r.key])
           THEN /\ table' = [table EXCEPT ![r.key] = Apply(r, @)]
                /\ Respond(m, "ok", Apply(r, table[r.key]))
           ELSE /\ UNCHANGED table
                /\ Respond(m, "condfail", Absent)
        /\ UNCHANGED <<replica, clock, held, status, req, tries>>

\* GetItem without ConsistentRead may be served by any replica.
ServeRead(m) ==
    LET r == m.req
    IN  /\ r.op = "GetItem"
        /\ net' = net \ {m}
        /\ \E seen \in {table[r.key], replica[r.key]} : Respond(m, "ok", seen)
        /\ UNCHANGED <<table, replica, clock, held, status, req, tries>>

Replicate(k) ==
    /\ replica' = [replica EXCEPT ![k] = table[k]]
    /\ UNCHANGED <<table, net, clock, callVars>>

\* No response in time: the same request is sent again.  For a read that is
\* the same as serving it later.
Resend(c) ==
    /\ Pending(c)
    /\ req[c].op # "GetItem"
    /\ tries[c] < MaxSends
    /\ tries'  = [tries EXCEPT ![c] = @ + 1]
    /\ answer' = [answer EXCEPT ![c] = NoAnswer]
    /\ net'    = net \cup {Attempt(req[c], tries[c] + 1)}
    /\ UNCHANGED <<table, replica, clock, held, status, req>>

-----------------------------------------------------------------------------
(* The end of the call: the response, or the client's error. *)

Responded(c, op, code) ==
    Pending(c) /\ req[c].op = op /\ answer[c].code = code

PutReturns(c) ==
    \/ /\ Responded(c, "PutItem", "ok")
       /\ Finish(c, "ok")
       /\ UNCHANGED held
    \/ /\ Responded(c, "PutItem", "condfail")
       /\ Finish(c, "lock")
       /\ held' = [held EXCEPT ![c] = AfterFailedPut(@)]

\* The second disjunct of each: unmarshalItemInto fails.
GetReturns(c) ==
    /\ Responded(c, "GetItem", "ok")
    /\ IF Exists(answer[c].row)
       THEN \/ Finish(c, "ok") /\ held' = [held EXCEPT ![c] = answer[c].row.item]
            \/ Finish(c, "err") /\ UNCHANGED held
       ELSE Finish(c, "notFound") /\ UNCHANGED held

\* A mutant of RunReturns: an answer that cannot be unmarshaled is taken for a
\* failed condition.
RunReturnsAsLock(c) ==
    \/ /\ Responded(c, "UpdateItem", "ok")
       /\ \E result \in {"ok", "lock"} : Finish(c, result)
       /\ UNCHANGED held
    \/ /\ Responded(c, "UpdateItem", "condfail")
       /\ Finish(c, "lock")
       /\ UNCHANGED held

\* The caller goes on with the returned item or with the copy it had.
RunReturns(c) ==
    \/ /\ Responded(c, "UpdateItem", "ok")
       /\ \/ /\ Finish(c, "ok")
             /\ \E item \in {held[c], answer[c].row.item} :
                    held' = [held EXCEPT ![c] = item]
          \/ Finish(c, "err") /\ UNCHANGED held
    \/ /\ Responded(c, "UpdateItem", "condfail")
       /\ Finish(c, "lock")
       /\ UNCHANGED held

DeleteReturns(c) ==
    /\ Responded(c, "DeleteItem", "ok")
    /\ Finish(c, "ok")
    /\ UNCHANGED held

\* A mutant of GiveUp: every error of a call is taken for a failed condition.
GiveUpAsLock(c) ==
    /\ Pending(c)
    /\ Finish(c, "lock")
    /\ UNCHANGED held

\* The attempts are used up, or the context ends: any other error.
GiveUp(c) ==
    /\ Pending(c)
    /\ Finish(c, "err")
    /\ held' = IF req[c].op = "PutItem"
               THEN [held EXCEPT ![c] = AfterFailedPut(@)] ELSE held

Call(c) ==
    \/ PutNew(c) \/ PutHeld(c) \/ UpdateIfVersion(c) \/ UpdateUnbuildable(c)
    \/ \E id \in Ids : Get(c, id) \/ Delete(c, id) \/ Update(c, id)

Returns(c) ==
    PutReturns(c) \/ GetReturns(c) \/ RunReturns(c) \/ DeleteReturns(c) \/ GiveUp(c)

Next ==
    \/ \E c \in Callers : Call(c) \/ Resend(c) \/ Returns(c)
    \/ \E m \in net : ServeWrite(m) \/ ServeRead(m)
    \/ \E k \in Ids : Replicate(k)

Spec == Init /\ [][Next]_vars
=============================================================================
