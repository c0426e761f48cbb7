----------------------------- MODULE CrudProofs -----------------------------
(***************************************************************************)
(* Proofs about Crud, for any number of callers and items and any bounds.  *)
(***************************************************************************)
EXTENDS CrudProps, TLAPS

-----------------------------------------------------------------------------
(* Type correctness. *)

\* Stamping and marshaling an item yields an item and a row (crud.go 119-164).
LEMMA StampTypes ==
    ASSUME NEW item \in Item, NEW now \in Nat, NEW uuid \in Key
    PROVE  /\ Stamp(item, now, uuid) \in Item
           /\ Marshal(item, now, uuid) \in Row
           /\ Condition(item) \in Conditions
<1>1. Stamp(item, now, uuid) \in Item
  <2>1. SetType(item) \in Item
    BY DEF SetType, Item
  <2>2. StampCreate(item, now, uuid) \in Item
    BY <2>1 DEF StampCreate, Item, Key
  <2>3. StampUpdate(item, now) \in Item
    <3>1. item.version + 1 \in Nat
      BY DEF Item
    <3>2. QED
      BY <3>1 DEF StampUpdate, Item
  <2>4. QED
    BY <2>2, <2>3 DEF Stamp
<1>2. Marshal(item, now, uuid) \in Row
  BY <1>1 DEF Marshal, Row
<1>3. Condition(item) \in Conditions
  BY DEF Condition, Conditions, Item
<1>4. QED
  BY <1>1, <1>2, <1>3

\* The constants of the model have their types.
LEMMA ConstantTypes ==
    /\ \A id \in Key : NewItem(id) \in Item
    /\ NoItem \in Item
    /\ Absent \in Row
    /\ NoCondition \in Conditions
    /\ NoAnswer \in Answers
    /\ 1 \in 1..MaxSends
<1>1. \A id \in Key : NewItem(id) \in Item
  BY DEF NewItem, Item, Key, Unset
<1>2. NoItem \in Item
  BY <1>1 DEF NoItem, Key
<1>3. Absent \in Row
  BY <1>2 DEF Absent, Row, Unset
<1>4. NoCondition \in Conditions
  BY DEF NoCondition, Conditions
<1>5. NoAnswer \in Answers
  BY <1>3 DEF NoAnswer, Answers
<1>6. 1 \in 1..MaxSends
  BY CrudAssumption
<1>7. QED
  BY <1>1, <1>2, <1>3, <1>4, <1>5, <1>6

\* A request applied to a row yields a row.
LEMMA ApplyType ==
    ASSUME NEW r \in Request, NEW row \in Row
    PROVE  Apply(r, row) \in Row
<1>1. r.at \in Nat /\ r.row \in Row
  BY DEF Request
<1>2. Updated(row, r.at) \in Row
  <2>1. row.item \in Item /\ row.gsi1pk \in {TypeName, Unset}
    BY DEF Row
  <2>2. row.item.version + 1 \in Nat /\ row.item.edits \cup {r.at} \in SUBSET Nat
    BY <1>1, <2>1 DEF Item
  <2> DEFINE new == [row.item EXCEPT !.updated = r.at,
                                     !.version = row.item.version + 1,
                                     !.edits   = row.item.edits \cup {r.at}]
  <2>3. new \in Item
    BY <1>1, <2>1, <2>2 DEF Item
  <2>4. Updated(row, r.at) = [row EXCEPT !.item = new]
    BY DEF Updated, Row, Item
  <2>5. QED
    BY <2>1, <2>3, <2>4 DEF Row
<1>3. QED
  BY <1>1, <1>2, ConstantTypes DEF Apply

LEMMA NoRequestType == \A c \in Callers : NoRequest(c) \in Request
  BY ConstantTypes DEF NoRequest, Request, Key

\* Editing a copy and aborting a Put keep the copy's type.
LEMMA EditType ==
    ASSUME NEW item \in Item, NEW change \in Nat
    PROVE  Edit(item, change) \in Item
  BY DEF Edit, Item

LEMMA AfterFailedPutType ==
    ASSUME NEW item \in Item
    PROVE  AfterFailedPut(item) \in Item
  BY ConstantTypes DEF AfterFailedPut

\* A reading of the clock.
LEMMA TickType ==
    ASSUME TypeOK, Tick
    PROVE  /\ clock' \in 0..MaxClock
           /\ clock' = clock + 1
           /\ clock' \in Nat
           /\ clock \in Nat
  BY CrudAssumption DEF TypeOK, Tick

\* Sending a well-formed request keeps the type invariant.
LEMMA SendType ==
    ASSUME TypeOK, NEW c \in Callers, NEW r \in Request, Send(c, r),
           clock' \in 0..MaxClock, held' \in [Callers -> Item]
    PROVE  TypeOK'
<1>1. Attempt(r, 1) \in Message
  BY ConstantTypes DEF Attempt, Message
<1>2. net' \subseteq Message
  BY <1>1 DEF Send, TypeOK
<1>3. /\ req' \in [Callers -> Request]
      /\ tries' \in [Callers -> 1..MaxSends]
      /\ answer' \in [Callers -> Answers]
      /\ status' \in [Callers -> Results \cup {"pending"}]
  BY ConstantTypes DEF Send, TypeOK
<1>4. QED
  BY <1>2, <1>3 DEF Send, TypeOK

\* So does the end of a call.
LEMMA FinishType ==
    ASSUME TypeOK, NEW c \in Callers, NEW result \in Results,
           Finish(c, result), held' \in [Callers -> Item]
    PROVE  TypeOK'
<1>1. net' \subseteq Message
  BY DEF Finish, TypeOK
<1>2. /\ status' \in [Callers -> Results \cup {"pending"}]
      /\ answer' \in [Callers -> Answers]
  BY ConstantTypes DEF Finish, TypeOK
<1>3. /\ req' \in [Callers -> Request]
      /\ tries' \in [Callers -> 1..MaxSends]
  BY ConstantTypes, NoRequestType DEF Finish, TypeOK
<1>4. QED
  BY <1>1, <1>2, <1>3 DEF Finish, TypeOK

\* Put of an item in memory, whether it is sent or not.
LEMMA PutType ==
    ASSUME TypeOK, NEW c \in Callers, NEW item \in Item,
           Put(c, item) \/ PutUnmarshalable(c, item)
    PROVE  TypeOK'
<1>1. Uuids(item) \subseteq Key
  BY DEF Uuids, FreshIds, Key
<1>2. ASSUME NEW uuid \in Uuids(item), Tick,
             held' = [held EXCEPT ![c] = Stamp(item, clock', uuid)],
             Send(c, PutRequest(c, item, clock', uuid))
      PROVE  TypeOK'
  <2>1. clock' \in 0..MaxClock /\ clock' \in Nat
    BY <1>2, TickType
  <2>2. uuid \in Key
    BY <1>1
  <2>3. /\ Stamp(item, clock', uuid) \in Item
        /\ Marshal(item, clock', uuid) \in Row
        /\ Condition(item) \in Conditions
    BY <2>1, <2>2, StampTypes
  <2>4. PutRequest(c, item, clock', uuid) \in Request
    <3>1. Stamp(item, clock', uuid).id \in Key
      BY <2>3 DEF Item, Key
    <3>2. QED
      BY <2>1, <2>3, <3>1 DEF PutRequest, Request
  <2>5. held' \in [Callers -> Item]
    BY <1>2, <2>3 DEF TypeOK
  <2>6. QED
    BY <1>2, <2>1, <2>4, <2>5, SendType
<1>3. ASSUME NEW uuid \in Uuids(item), Tick,
             held' = [held EXCEPT ![c] = AfterFailedPut(Stamp(item, clock', uuid))],
             status' = [status EXCEPT ![c] = "err"],
             req' = [req EXCEPT ![c] = NoRequest(c)],
             tries' = [tries EXCEPT ![c] = 1],
             UNCHANGED <<table, replica, net, answer>>
      PROVE  TypeOK'
  <2>1. clock' \in 0..MaxClock /\ clock' \in Nat
    BY <1>3, TickType
  <2>2. AfterFailedPut(Stamp(item, clock', uuid)) \in Item
    BY <1>1, <2>1, StampTypes, AfterFailedPutType
  <2>3. /\ held' \in [Callers -> Item]
        /\ status' \in [Callers -> Results \cup {"pending"}]
        /\ req' \in [Callers -> Request]
        /\ tries' \in [Callers -> 1..MaxSends]
    BY <1>3, <2>2, NoRequestType, ConstantTypes DEF TypeOK, Results
  <2>4. QED
    BY <1>3, <2>1, <2>3 DEF TypeOK
<1>4. QED
  BY <1>2, <1>3 DEF Put, PutUnmarshalable

\* The request of a call that sends nothing of the item it holds.
LEMMA PlainRequestType ==
    ASSUME NEW c \in Callers, NEW id \in Key, NEW at \in Nat,
           NEW cond \in Conditions,
           NEW op \in {"GetItem", "DeleteItem", "UpdateItem"}
    PROVE  [op |-> op, from |-> c, at |-> at, key |-> id, row |-> Absent,
            cond |-> cond] \in Request
  BY ConstantTypes DEF Request

LEMMA RunType ==
    ASSUME TypeOK, NEW c \in Callers, NEW id \in Key, NEW cond \in Conditions,
           Run(c, id, cond)
    PROVE  TypeOK'
<1>1. clock' \in 0..MaxClock /\ clock' \in Nat
  BY TickType DEF Run
<1>2. held' \in [Callers -> Item]
  BY DEF Run, TypeOK
<1>3. QED
  BY <1>1, <1>2, PlainRequestType, SendType DEF Run

\* The response to an attempt, if it is still awaited, is well formed.
LEMMA RespondType ==
    ASSUME TypeOK, NEW m \in Message, NEW code \in {"ok", "condfail"},
           NEW row \in Row, Respond(m, code, row)
    PROVE  answer' \in [Callers -> Answers]
<1>1. [code |-> code, row |-> row] \in Answers
  BY DEF Answers
<1>2. QED
  BY <1>1 DEF Respond, TypeOK

LEMMA TypeStep == TypeOK /\ [Next]_vars => TypeOK'
<1> SUFFICES ASSUME TypeOK, [Next]_vars PROVE TypeOK'
  OBVIOUS
<1>1. ASSUME NEW c \in Callers, Call(c) PROVE TypeOK'
  <2>1. CASE PutNew(c)
    <3>1. PICK id \in Key :
              LET item == Edit(NewItem(id), clock + 1)
              IN  Put(c, item) \/ PutUnmarshalable(c, item)
      BY <2>1 DEF PutNew, NewIds
    <3>2. Edit(NewItem(id), clock + 1) \in Item
      BY EditType, ConstantTypes DEF TypeOK
    <3>3. QED
      BY <3>1, <3>2, PutType
  <2>2. CASE PutHeld(c)
    <3>1. Edit(held[c], clock + 1) \in Item
      BY EditType DEF TypeOK
    <3>2. QED
      BY <2>2, <3>1, PutType DEF PutHeld
  <2>3. CASE UpdateIfVersion(c)
    <3>1. held[c].id \in Key /\ IfVersion(held[c]) \in Conditions
      BY DEF TypeOK, Item, Key, IfVersion, Conditions
    <3>2. QED
      BY <2>3, <3>1, RunType DEF UpdateIfVersion
  <2>4. ASSUME NEW id \in Ids, Get(c, id) PROVE TypeOK'
    <3>1. id \in Key
      BY DEF Key
    <3>2. clock' \in 0..MaxClock /\ held' \in [Callers -> Item]
      BY <2>4 DEF Get, TypeOK
    <3>3. QED
      BY <2>4, <3>1, <3>2, PlainRequestType, SendType, ConstantTypes DEF Get
  <2>5. ASSUME NEW id \in Ids, Delete(c, id) PROVE TypeOK'
    <3>1. id \in Key
      BY DEF Key
    <3>2. /\ clock' \in 0..MaxClock /\ clock' \in Nat
          /\ held' \in [Callers -> Item]
      BY <2>5, TickType DEF Delete, TypeOK
    <3>3. QED
      BY <2>5, <3>1, <3>2, PlainRequestType, SendType, ConstantTypes DEF Delete
  <2>6. ASSUME NEW id \in Ids, Update(c, id) PROVE TypeOK'
    BY <2>6, RunType, ConstantTypes DEF Update, Key
  <2>7. CASE UpdateUnbuildable(c)
    <3>1. clock' \in 0..MaxClock
      BY <2>7, TickType DEF UpdateUnbuildable
    <3>2. /\ status' \in [Callers -> Results \cup {"pending"}]
          /\ req' \in [Callers -> Request]
          /\ tries' \in [Callers -> 1..MaxSends]
      BY <2>7, NoRequestType, ConstantTypes DEF UpdateUnbuildable, TypeOK, Results
    <3>3. QED
      BY <2>7, <3>1, <3>2 DEF UpdateUnbuildable, TypeOK
  <2>8. QED
    BY <1>1, <2>1, <2>2, <2>3, <2>4, <2>5, <2>6, <2>7 DEF Call
<1>2. ASSUME NEW c \in Callers, Resend(c) PROVE TypeOK'
  <2>1. tries[c] + 1 \in 1..MaxSends
    BY <1>2, CrudAssumption DEF Resend, TypeOK
  <2>2. Attempt(req[c], tries[c] + 1) \in Message
    BY <2>1 DEF Attempt, Message, TypeOK
  <2>3. net' \subseteq Message
    BY <1>2, <2>2 DEF Resend, TypeOK
  <2>4. /\ tries' \in [Callers -> 1..MaxSends]
        /\ answer' \in [Callers -> Answers]
    BY <1>2, <2>1, ConstantTypes DEF Resend, TypeOK
  <2>5. QED
    BY <1>2, <2>3, <2>4 DEF Resend, TypeOK
<1>3. ASSUME NEW c \in Callers, Returns(c) PROVE TypeOK'
  <2> DEFINE HeldOK == held' \in [Callers -> Item]
  <2>0. /\ answer[c].row.item \in Item
        /\ held[c] \in Item
    BY DEF TypeOK, Answers, Row
  <2>1. CASE PutReturns(c)
    <3>1. HeldOK
      BY <2>0, <2>1, AfterFailedPutType DEF PutReturns, TypeOK
    <3>2. QED
      BY <2>1, <3>1, FinishType DEF PutReturns, Results
  <2>2. CASE GetReturns(c)
    <3>1. HeldOK
      BY <2>0, <2>2 DEF GetReturns, TypeOK
    <3>2. QED
      BY <2>2, <3>1, FinishType DEF GetReturns, Results
  <2>3. CASE RunReturns(c)
    <3>1. HeldOK
      BY <2>0, <2>3 DEF RunReturns, TypeOK
    <3>2. QED
      BY <2>3, <3>1, FinishType DEF RunReturns, Results
  <2>4. CASE DeleteReturns(c)
    <3>1. HeldOK
      BY <2>4 DEF DeleteReturns, TypeOK
    <3>2. QED
      BY <2>4, <3>1, FinishType DEF DeleteReturns, Results
  <2>5. CASE GiveUp(c)
    <3>1. HeldOK
      BY <2>0, <2>5, AfterFailedPutType DEF GiveUp, TypeOK
    <3>2. QED
      BY <2>5, <3>1, FinishType DEF GiveUp, Results
  <2>6. QED
    BY <1>3, <2>1, <2>2, <2>3, <2>4, <2>5 DEF Returns
<1>4. ASSUME NEW m \in net, ServeWrite(m) PROVE TypeOK'
  <2>1. m \in Message /\ m.req \in Request /\ m.req.key \in Key
    BY DEF TypeOK, Message, Request
  <2>2. Apply(m.req, table[m.req.key]) \in Row
    BY <2>1, ApplyType DEF TypeOK
  <2>3. table' \in [Key -> Row]
    BY <1>4, <2>1, <2>2 DEF ServeWrite, TypeOK
  <2>4. answer' \in [Callers -> Answers]
    BY <1>4, <2>1, <2>2, RespondType, ConstantTypes DEF ServeWrite
  <2>5. net' \subseteq Message
    BY <1>4 DEF ServeWrite, TypeOK
  <2>6. QED
    BY <1>4, <2>3, <2>4, <2>5 DEF ServeWrite, TypeOK
<1>5. ASSUME NEW m \in net, ServeRead(m) PROVE TypeOK'
  <2>1. m \in Message /\ m.req.key \in Key
    BY DEF TypeOK, Message, Request
  <2>2. answer' \in [Callers -> Answers]
    <3>1. PICK seen \in {table[m.req.key], replica[m.req.key]} :
              Respond(m, "ok", seen)
      BY <1>5 DEF ServeRead
    <3>2. seen \in Row
      BY <2>1 DEF TypeOK
    <3>3. QED
      BY <2>1, <3>1, <3>2, RespondType
  <2>3. net' \subseteq Message
    BY <1>5 DEF ServeRead, TypeOK
  <2>4. QED
    BY <1>5, <2>2, <2>3 DEF ServeRead, TypeOK
<1>6. ASSUME NEW k \in Ids, Replicate(k) PROVE TypeOK'
  <2>1. replica' \in [Key -> Row]
    BY <1>6 DEF Replicate, TypeOK, Key
  <2>2. QED
    BY <1>6, <2>1 DEF Replicate, TypeOK, callVars
<1>7. CASE UNCHANGED vars
  BY <1>7 DEF TypeOK, vars, callVars
<1>8. QED
  BY <1>1, <1>2, <1>3, <1>4, <1>5, <1>6, <1>7 DEF Next

LEMMA TypeInit == Init => TypeOK
  BY ConstantTypes, NoRequestType, CrudAssumption DEF Init, TypeOK, Results

\* Every variable keeps its type, whatever operations the callers use.
THEOREM TypeCorrect == Spec => []TypeOK
  BY TypeInit, TypeStep, PTL DEF Spec

-----------------------------------------------------------------------------
(* What is true of a copy or a request stays true while the rows advance. *)

Rows == [Key -> Row]

\* The version of a row that exists is at least 1, so Absent is no advance.
LEMMA RowTypes ==
    ASSUME NEW rows \in Rows, NEW k \in Key
    PROVE  /\ rows[k].item \in Item
           /\ rows[k].item.version \in Nat
           /\ rows[k].item.created \in Nat
           /\ rows[k].item.edits \subseteq Nat
  BY DEF Rows, Row, Item

LEMMA SyncedKept ==
    ASSUME NEW rows \in Rows, NEW next \in Rows, RowsAdvance(rows, next),
           NEW item \in Item, Synced(rows, item)
    PROVE  Synced(next, item)
<1>1. item.id \in Key /\ item.version \in Nat
  BY DEF Item, Key
<1>2. CASE next[item.id] = rows[item.id]
  BY <1>2 DEF Synced
<1>3. CASE Advances(rows[item.id], next[item.id])
  <2>1. item.version < next[item.id].item.version
    BY <1>1, <1>3, RowTypes DEF Advances, Synced
  <2>2. QED
    BY <1>1, <1>3, <2>1, RowTypes DEF Advances, Synced
<1>4. QED
  BY <1>1, <1>2, <1>3 DEF RowsAdvance

LEMMA RowSyncedKept ==
    ASSUME NEW rows \in Rows, NEW next \in Rows, RowsAdvance(rows, next),
           NEW row \in Row, RowSynced(rows, row)
    PROVE  RowSynced(next, row)
<1>1. row.item \in Item
  BY DEF Row
<1>2. QED
  BY <1>1, SyncedKept DEF RowSynced

LEMMA RequestKept ==
    ASSUME NEW rows \in Rows, NEW next \in Rows, RowsAdvance(rows, next),
           NEW r \in Request, RequestInv(rows, r)
    PROVE  RequestInv(next, r)
<1>1. r.key \in Key /\ r.cond.version \in Nat
  BY DEF Request, Conditions
<1>2. ASSUME Extends(rows, r) PROVE Extends(next, r)
  <2>1. CASE next[r.key] = rows[r.key]
    BY <1>2, <2>1 DEF Extends
  <2>2. CASE Advances(rows[r.key], next[r.key])
    <3>1. r.cond.version < next[r.key].item.version
      BY <1>1, <1>2, <2>2, RowTypes DEF Advances, Extends
    <3>2. QED
      BY <1>1, <1>2, <2>2, <3>1, RowTypes DEF Advances, Extends
  <2>3. QED
    BY <1>1, <2>1, <2>2 DEF RowsAdvance
<1>3. QED
  BY <1>2 DEF RequestInv

LEMMA StoredKept ==
    ASSUME NEW rows \in Rows, NEW next \in Rows, RowsAdvance(rows, next),
           NEW r \in Request, Stored(rows, r)
    PROVE  Stored(next, r)
<1>1. r.key \in Key
  BY DEF Request
<1>2. QED
  BY <1>1 DEF RowsAdvance, Advances, Stored

\* A row that is where its key says is a copy of itself.
LEMMA RowSyncedWithItself ==
    ASSUME TypeOK, TableInv, NEW k \in Key
    PROVE  RowSynced(table, table[k])
<1>1. table[k].item.version \in Nat /\ IsNew(Absent.item)
  BY RowTypes DEF TypeOK, Rows, IsNew, Absent, NoItem, NewItem
<1>2. QED
  BY <1>1 DEF TableInv, RowSynced, Synced, Exists

-----------------------------------------------------------------------------
(* Serving a write. *)

\* A request whose condition holds moves the row at its key to the next
\* version, above all that is in it, and leaves the others alone.
LEMMA ApplyAdvances ==
    ASSUME TypeOK, TableInv, NEW r \in Request, RequestInv(table, r),
           r.op \in Writes, Holds(r.cond, table[r.key])
    PROVE  /\ Advances(table[r.key], Apply(r, table[r.key]))
           /\ Apply(r, table[r.key]).item.version >= 1
           /\ r.at \in Apply(r, table[r.key]).item.edits
           /\ ~IsNew(Apply(r, table[r.key]).item)
                  => Apply(r, table[r.key]).item.id = r.key
<1> DEFINE row == table[r.key]
<1>1. /\ r.key \in Key /\ row \in Row /\ row.item \in Item
      /\ row.item.version \in Nat
      /\ r.row \in Row /\ r.row.item \in Item
      /\ r.cond.version \in Nat
  BY DEF TypeOK, Request, Conditions, Row, Item
<1>2. Absent.item.version = 0 /\ IsNew(Absent.item)
  BY DEF Absent, NoItem, NewItem, IsNew
<1>3. CASE r.op = "PutItem"
  <2>1. Apply(r, row) = r.row
    BY <1>3 DEF Apply
  <2>2. /\ r.row.item.id = r.key
        /\ ~IsNew(r.row.item)
        /\ r.at \in r.row.item.edits
    BY <1>3 DEF RequestInv
  <2>3. Exists(r.row)
    BY <1>2, <2>2 DEF Exists
  <2>4. CASE r.cond.kind = "absent" /\ r.row.item.version = 1
    <3>1. row = Absent
      BY <2>4 DEF Holds, Exists
    <3>2. QED
      BY <1>2, <2>1, <2>2, <2>3, <2>4, <3>1 DEF Advances, Exists
  <2>5. CASE r.cond.kind = "version" /\ Extends(table, r)
    <3>1. Exists(row) /\ row.item.version = r.cond.version
      BY <2>5 DEF Holds
    <3>2. /\ r.row.item.version = row.item.version + 1
          /\ r.row.item.edits = row.item.edits \cup {r.at}
          /\ r.row.item.created = row.item.created
      BY <2>5, <3>1 DEF Extends
    <3>3. QED
      BY <1>1, <2>1, <2>2, <2>3, <3>1, <3>2 DEF Advances
  <2>6. QED
    BY <1>3, <2>4, <2>5 DEF RequestInv
<1>4. CASE r.op = "UpdateItem"
  <2>1. Apply(r, row) = Updated(row, r.at)
    BY <1>4 DEF Apply
  <2>2. /\ Updated(row, r.at).item.version = row.item.version + 1
        /\ Updated(row, r.at).item.edits = row.item.edits \cup {r.at}
        /\ Updated(row, r.at).item.created = row.item.created
        /\ Updated(row, r.at).item.id = row.item.id
    BY <1>1 DEF Updated, Row, Item
  <2>3. Updated(row, r.at).item.version >= 1
    BY <1>1, <2>2
  <2>4. Exists(Updated(row, r.at))
    BY <1>2, <2>3 DEF Exists
  <2>5. ~IsNew(row.item) => row.item.id = r.key
    BY <1>1 DEF TableInv
  <2>6. QED
    BY <2>1, <2>2, <2>3, <2>4, <2>5 DEF Advances, IsNew
<1>5. QED
  BY <1>3, <1>4 DEF Writes

\* Whatever the table serves, the rows advance.
LEMMA ServeWriteAdvances ==
    ASSUME TypeOK, TypeOK', TableInv, NetInv, NEW m \in net, ServeWrite(m)
    PROVE  RowsAdvance(table, table') /\ TableInv'
<1>1. /\ m.req \in Request /\ RequestInv(table, m.req)
      /\ m.req.key \in Key
  BY DEF TypeOK, Message, Request, NetInv
<1>2. CASE table' = table
  BY <1>2 DEF RowsAdvance, TableInv
<1>3. CASE /\ m.req.op \in Writes
           /\ Holds(m.req.cond, table[m.req.key])
           /\ table' = [table EXCEPT ![m.req.key] = Apply(m.req, @)]
  <2> DEFINE new == Apply(m.req, table[m.req.key])
  <2>1. /\ Advances(table[m.req.key], new)
        /\ new.item.version >= 1
        /\ ~IsNew(new.item) => new.item.id = m.req.key
    BY <1>1, <1>3, ApplyAdvances
  <2>2. \A k \in Key : table'[k] = IF k = m.req.key THEN new ELSE table[k]
    BY <1>3 DEF TypeOK
  <2> HIDE DEF new
  <2>3. RowsAdvance(table, table')
    BY <1>1, <2>1, <2>2 DEF RowsAdvance
  <2>4. TableInv'
    BY <1>1, <2>1, <2>2 DEF TableInv
  <2>5. QED
    BY <2>3, <2>4
<1>4. CASE /\ m.req.op = "none"
           /\ table' = [table EXCEPT ![m.req.key] = Apply(m.req, @)]
  <2>1. Apply(m.req, table[m.req.key]) = table[m.req.key]
    BY <1>4 DEF Apply
  <2>2. table' = table
    BY <1>1, <1>4, <2>1 DEF TypeOK
  <2>3. QED
    BY <1>2, <2>2
<1>5. m.req.op \in Writes \cup {"none"}
  BY <1>1 DEF ServeWrite, Request, RequestInv, Writes
<1>6. QED
  BY <1>2, <1>3, <1>4, <1>5 DEF ServeWrite

-----------------------------------------------------------------------------
(* The inductive invariant, step by step. *)

\* A call starts: its request agrees with the rows, and so does the pointer.
LEMMA SendInv ==
    ASSUME IInv, TypeOK', NEW c \in Callers, Idle(c), NEW r \in Request,
           RequestInv(table, r), Send(c, r),
           IF r.op = "PutItem" THEN held' = [held EXCEPT ![c] = r.row.item]
                               ELSE held' = held
    PROVE  IInv'
<1>1. table' = table /\ replica' = replica
  BY DEF Send
<1>2. TableInv' /\ ReplicaInv'
  BY <1>1 DEF IInv, TableInv, ReplicaInv
<1>3. NetInv'
  BY <1>1 DEF IInv, NetInv, Send, Attempt
<1>4. \A d \in Callers \ {c} :
          /\ held'[d] = held[d] /\ req'[d] = req[d]
          /\ answer'[d] = answer[d] /\ status'[d] = status[d]
  BY DEF Send, IInv, TypeOK
<1>5. /\ req'[c] = r /\ status'[c] = "pending" /\ answer'[c].code = "none"
      /\ r.op = "PutItem" => held'[c] = r.row.item
      /\ r.op # "PutItem" => held'[c] = held[c]
  BY DEF Send, IInv, TypeOK, NoAnswer
<1>6. ~IsNew(held[c]) => Synced(table, held[c])
  BY DEF IInv, CallerInv, Idle, Pending
<1>7. CallerInv'
  <2>1. ASSUME NEW d \in Callers
        PROVE  /\ status'[d] = "pending" => RequestInv(table, req'[d])
               /\ IF status'[d] = "pending" /\ req'[d].op = "PutItem"
                  THEN held'[d] = req'[d].row.item
                  ELSE ~IsNew(held'[d]) => Synced(table, held'[d])
    <3>1. CASE d = c
      BY <1>5, <1>6, <3>1
    <3>2. CASE d # c
      BY <1>4, <3>2 DEF IInv, CallerInv, Pending
    <3>3. QED
      BY <3>1, <3>2
  <2>2. QED
    BY <1>1, <2>1 DEF CallerInv, Pending
<1>8. AnswerInv'
  <2>1. ASSUME NEW d \in Callers
        PROVE  /\ status'[d] = "pending" /\ answer'[d].code = "ok" =>
                      /\ RowSynced(table, answer'[d].row)
                      /\ req'[d].op = "PutItem" => answer'[d].row = req'[d].row
                      /\ req'[d].op \in Writes => Stored(table, req'[d])
               /\ status'[d] = "ok" /\ req'[d].op \in Writes
                      => Stored(table, req'[d])
    <3>1. CASE d = c
      BY <1>5, <3>1
    <3>2. CASE d # c
      BY <1>4, <3>2 DEF IInv, AnswerInv, Pending
    <3>3. QED
      BY <3>1, <3>2
  <2>2. QED
    BY <1>1, <2>1 DEF AnswerInv, Pending
<1>9. QED
  BY <1>2, <1>3, <1>7, <1>8 DEF IInv

\* A call ends, or fails before anything is sent: the rows and the requests
\* under way are what they were, and the caller goes on with a synced copy.
LEMMA EndInv ==
    ASSUME IInv, TypeOK', NEW c \in Callers, NEW h,
           held' = [held EXCEPT ![c] = h],
           ~IsNew(h) => Synced(table, h),
           UNCHANGED <<table, replica>>, net' \subseteq net,
           \A d \in Callers \ {c} : /\ status'[d] = status[d]
                                    /\ req'[d] = req[d]
                                    /\ answer'[d] = answer[d],
           status'[c] # "pending",
           status'[c] = "ok" /\ req'[c].op \in Writes => Stored(table, req'[c])
    PROVE  IInv'
<1>1. TableInv' /\ ReplicaInv' /\ NetInv'
  BY DEF IInv, TableInv, ReplicaInv, NetInv
<1>2. held'[c] = h /\ \A d \in Callers \ {c} : held'[d] = held[d]
  BY DEF IInv, TypeOK
<1>3. CallerInv'
  <2>1. ASSUME NEW d \in Callers
        PROVE  /\ status'[d] = "pending" => RequestInv(table, req'[d])
               /\ IF status'[d] = "pending" /\ req'[d].op = "PutItem"
                  THEN held'[d] = req'[d].row.item
                  ELSE ~IsNew(held'[d]) => Synced(table, held'[d])
    <3>1. CASE d = c
      BY <1>2, <3>1
    <3>2. CASE d # c
      BY <1>2, <3>2 DEF IInv, CallerInv, Pending
    <3>3. QED
      BY <3>1, <3>2
  <2>2. QED
    BY <2>1 DEF CallerInv, Pending
<1>4. AnswerInv'
  <2>1. ASSUME NEW d \in Callers
        PROVE  /\ status'[d] = "pending" /\ answer'[d].code = "ok" =>
                      /\ RowSynced(table, answer'[d].row)
                      /\ req'[d].op = "PutItem" => answer'[d].row = req'[d].row
                      /\ req'[d].op \in Writes => Stored(table, req'[d])
               /\ status'[d] = "ok" /\ req'[d].op \in Writes
                      => Stored(table, req'[d])
    <3>1. CASE d = c
      BY <3>1
    <3>2. CASE d # c
      BY <3>2 DEF IInv, AnswerInv, Pending
    <3>3. QED
      BY <3>1, <3>2
  <2>2. QED
    BY <2>1 DEF AnswerInv, Pending
<1>5. QED
  BY <1>1, <1>3, <1>4 DEF IInv

\* The end of a call by its response or by the client's error.
LEMMA FinishInv ==
    ASSUME IInv, TypeOK', NEW c \in Callers, NEW result \in Results,
           Finish(c, result), NEW h, held' = [held EXCEPT ![c] = h],
           ~IsNew(h) => Synced(table, h),
           result = "ok" /\ req[c].op \in Writes => Stored(table, req[c])
    PROVE  IInv'
<1>1. /\ status'[c] = result
      /\ UNCHANGED <<table, replica>>
      /\ net' \subseteq net
  BY DEF Finish, IInv, TypeOK
<1>2. status'[c] # "pending"
  BY <1>1 DEF Results
<1>3. \A d \in Callers \ {c} : /\ status'[d] = status[d]
                               /\ req'[d] = req[d]
                               /\ answer'[d] = answer[d]
  BY DEF Finish, IInv, TypeOK
<1>4. req'[c] \in {req[c], NoRequest(c)}
  BY DEF Finish, IInv, TypeOK
<1>5. status'[c] = "ok" /\ req'[c].op \in Writes => Stored(table, req'[c])
  BY <1>1, <1>4 DEF NoRequest, Writes
<1>6. QED
  BY <1>1, <1>2, <1>3, <1>5, EndInv

\* The request a Put sends agrees with the rows if the item is new or an
\* edited copy of a row (crud.go 129-150).
LEMMA PutRequestInv ==
    ASSUME IInv, NEW c \in Callers, NEW copy \in Item,
           ~IsNew(copy) => Synced(table, copy),
           NEW now \in Nat \ {0}, NEW uuid \in Key
    PROVE  LET item == Edit(copy, now)
           IN  RequestInv(table, PutRequest(c, item, now, uuid))
<1> DEFINE item == Edit(copy, now)
           new == Stamp(item, now, uuid)
           r == PutRequest(c, item, now, uuid)
<1>1. /\ item \in Item
      /\ item.id = copy.id /\ item.created = copy.created
      /\ item.version = copy.version /\ item.edits = copy.edits \cup {now}
  BY DEF Edit, Item
<1>2. /\ r.op = "PutItem" /\ r.row.item = new /\ r.key = new.id /\ r.at = now
      /\ r.cond = Condition(item)
  BY DEF PutRequest, Marshal
<1>3. CASE IsNew(item)
  <2>1. new = StampCreate(item, now, uuid)
    BY <1>3 DEF Stamp
  <2>2. new.created = now /\ new.version = 1 /\ new.edits = item.edits
    BY <1>1, <2>1 DEF StampCreate, SetType, Item
  <2>3. r.cond.kind = "absent"
    BY <1>2, <1>3 DEF Condition
  <2>4. QED
    BY <1>1, <1>2, <2>2, <2>3 DEF RequestInv, IsNew
<1>4. CASE ~IsNew(item)
  <2>1. new = StampUpdate(item, now)
    BY <1>4 DEF Stamp
  <2>2. /\ new.id = copy.id /\ new.created = copy.created
        /\ new.version = copy.version + 1 /\ new.edits = copy.edits \cup {now}
    BY <1>1, <2>1 DEF StampUpdate, Item
  <2>3. r.cond.kind = "version" /\ r.cond.version = copy.version
    BY <1>1, <1>2, <1>4 DEF Condition
  <2>4. Synced(table, copy) /\ ~IsNew(copy)
    BY <1>1, <1>4 DEF IsNew
  <2>5. Extends(table, r)
    BY <1>2, <2>2, <2>3, <2>4 DEF Extends, Synced
  <2>6. QED
    BY <1>2, <2>2, <2>3, <2>4, <2>5 DEF RequestInv, IsNew
<1>5. QED
  BY <1>3, <1>4

LEMMA PutInv ==
    ASSUME IInv, TypeOK', VersionedUse, NEW c \in Callers, Idle(c),
           NEW copy \in Item, ~IsNew(copy) => Synced(table, copy),
           LET item == Edit(copy, clock + 1)
           IN  Put(c, item) \/ PutUnmarshalable(c, item)
    PROVE  IInv'
<1> DEFINE item == Edit(copy, clock + 1)
<1>0. TypeOK /\ clock \in Nat /\ item \in Item
  BY EditType, CrudAssumption DEF IInv, TypeOK
<1>1. ASSUME NEW uuid \in Uuids(item), Tick,
             held' = [held EXCEPT ![c] = Stamp(item, clock', uuid)],
             Send(c, PutRequest(c, item, clock', uuid))
      PROVE  IInv'
  <2>1. clock' = clock + 1 /\ clock' \in Nat \ {0}
    BY <1>0, <1>1, TickType
  <2>2. uuid \in Key
    BY DEF Uuids, FreshIds, Key
  <2> DEFINE r == PutRequest(c, item, clock + 1, uuid)
  <2>3. RequestInv(table, r)
    BY <2>1, <2>2, PutRequestInv
  <2>4. /\ r.op = "PutItem"
        /\ r.row.item = Stamp(item, clock + 1, uuid)
    BY DEF PutRequest, Marshal
  <2>5. r \in Request
    <3>1. /\ Stamp(item, clock + 1, uuid) \in Item
          /\ Marshal(item, clock + 1, uuid) \in Row
          /\ Condition(item) \in Conditions
      BY <1>0, <2>1, <2>2, StampTypes
    <3>2. Stamp(item, clock + 1, uuid).id \in Key
      BY <3>1 DEF Item, Key
    <3>3. QED
      BY <2>1, <3>1, <3>2 DEF PutRequest, Request
  <2>6. /\ Send(c, r)
        /\ held' = [held EXCEPT ![c] = r.row.item]
    BY <1>1, <2>1, <2>4
  <2> HIDE DEF r
  <2>7. QED
    BY <2>3, <2>4, <2>5, <2>6, SendInv
<1>2. CASE PutUnmarshalable(c, item)
  <2>1. PICK uuid \in Uuids(item) :
            held' = [held EXCEPT ![c] = AfterFailedPut(Stamp(item, clock', uuid))]
    BY <1>2 DEF PutUnmarshalable
  <2>2. held' = [held EXCEPT ![c] = NoItem]
    BY <2>1 DEF AfterFailedPut, VersionedUse
  <2>3. IsNew(NoItem)
    BY DEF IsNew, NoItem, NewItem
  <2>4. /\ UNCHANGED <<table, replica>> /\ net' \subseteq net
        /\ \A d \in Callers \ {c} : /\ status'[d] = status[d]
                                    /\ req'[d] = req[d]
                                    /\ answer'[d] = answer[d]
        /\ status'[c] = "err"
    BY <1>0, <1>2 DEF PutUnmarshalable, TypeOK
  <2>5. QED
    BY <2>2, <2>3, <2>4, EndInv
<1>3. QED
  BY <1>1, <1>2 DEF Put

\* The table serves a request, and the response goes to whoever awaits it.
LEMMA ServeInv ==
    ASSUME IInv, TypeOK', RowsAdvance(table, table'), TableInv',
           NEW m \in net, net' = net \ {m},
           NEW code \in {"ok", "condfail"}, NEW row \in Row, Respond(m, code, row),
           UNCHANGED <<replica, held, status, req>>,
           code = "ok" => /\ RowSynced(table', row)
                          /\ m.req.op = "PutItem" => row = m.req.row
                          /\ m.req.op \in Writes => Stored(table', m.req)
    PROVE  IInv'
<1>1. table \in Rows /\ table' \in Rows
  BY DEF IInv, TypeOK, Rows
<1>2. ReplicaInv'
  <2>1. \A k \in Key : replica[k] \in Row
    BY DEF IInv, TypeOK
  <2>2. QED
    BY <1>1, <2>1, RowSyncedKept DEF IInv, ReplicaInv
<1>3. NetInv'
  <2>1. \A n \in net : n.req \in Request
    BY DEF IInv, TypeOK, Message
  <2>2. QED
    BY <1>1, <2>1, RequestKept DEF IInv, NetInv
<1>4. CallerInv'
  <2>1. \A d \in Callers : req[d] \in Request /\ held[d] \in Item
    BY DEF IInv, TypeOK
  <2>2. QED
    BY <1>1, <2>1, RequestKept, SyncedKept DEF IInv, CallerInv, Pending
<1>5. AnswerInv'
  <2>1. ASSUME NEW d \in Callers
        PROVE  /\ status[d] = "pending" /\ answer'[d].code = "ok" =>
                      /\ RowSynced(table', answer'[d].row)
                      /\ req[d].op = "PutItem" => answer'[d].row = req[d].row
                      /\ req[d].op \in Writes => Stored(table', req[d])
               /\ status[d] = "ok" /\ req[d].op \in Writes
                      => Stored(table', req[d])
    <3>1. req[d] \in Request /\ answer[d].row \in Row
      BY DEF IInv, TypeOK, Answers
    <3>2. status[d] = "ok" /\ req[d].op \in Writes => Stored(table', req[d])
      BY <1>1, <3>1, StoredKept DEF IInv, AnswerInv
    <3>3. CASE answer'[d] = answer[d]
      BY <1>1, <3>1, <3>2, <3>3, StoredKept, RowSyncedKept
      DEF IInv, AnswerInv, Pending
    <3>4. CASE /\ req[d] = m.req
               /\ answer'[d].code = code /\ answer'[d].row = row
      BY <3>2, <3>4
    <3>5. answer'[d] = answer[d] \/ /\ req[d] = m.req
                                    /\ answer'[d].code = code
                                    /\ answer'[d].row = row
      BY DEF Respond, Awaited, IInv, TypeOK
    <3>6. QED
      BY <3>3, <3>4, <3>5
  <2>2. QED
    BY <2>1 DEF AnswerInv, Pending
<1>6. QED
  BY <1>2, <1>3, <1>4, <1>5 DEF IInv

LEMMA IInvInit == Init => IInv
<1> SUFFICES ASSUME Init PROVE IInv
  OBVIOUS
<1>1. TypeOK
  BY ConstantTypes, NoRequestType, CrudAssumption DEF Init, TypeOK, Results
<1>2. IsNew(Absent.item) /\ IsNew(NoItem)
  BY DEF IsNew, Absent, NoItem, NewItem
<1>3. TableInv /\ ReplicaInv /\ NetInv
  BY <1>2 DEF Init, TableInv, ReplicaInv, NetInv, Exists, RowSynced
<1>4. CallerInv
  BY <1>2 DEF Init, CallerInv, Pending
<1>5. AnswerInv
  BY DEF Init, AnswerInv, Pending, NoRequest, Writes
<1>6. QED
  BY <1>1, <1>3, <1>4, <1>5 DEF IInv

\* Only serving a write moves the rows, and it moves them forward.
LEMMA NextAdvances ==
    ASSUME IInv, TypeOK', [Next]_vars
    PROVE  RowsAdvance(table, table')
<1>1. ASSUME NEW m \in net, ServeWrite(m) PROVE RowsAdvance(table, table')
  BY <1>1, ServeWriteAdvances DEF IInv
<1>2. CASE table' = table
  BY <1>2 DEF RowsAdvance
<1>3. ASSUME NEW c \in Callers, Call(c) PROVE table' = table
  BY <1>3 DEF Call, PutNew, PutHeld, Put, PutUnmarshalable, UpdateIfVersion,
              UpdateUnbuildable, Get, Delete, Update, Run, Send
<1>4. ASSUME NEW c \in Callers, Resend(c) \/ Returns(c) PROVE table' = table
  BY <1>4 DEF Resend, Returns, PutReturns, GetReturns, RunReturns,
              DeleteReturns, GiveUp, Finish
<1>5. QED
  BY <1>1, <1>2, <1>3, <1>4 DEF Next, ServeRead, Replicate, vars

LEMMA IInvStep == IInv /\ VersionedUse /\ [Next]_vars => IInv'
<1> SUFFICES ASSUME IInv, VersionedUse, [Next]_vars PROVE IInv'
  OBVIOUS
<1>0. TypeOK /\ TypeOK'
  BY TypeStep DEF IInv
<1> DEFINE Sound(item) == ~IsNew(item) => Synced(table, item)
<1>1. ASSUME NEW c \in Callers, Idle(c) PROVE Sound(held[c])
  BY <1>1 DEF IInv, CallerInv, Idle, Pending
<1>2. ASSUME NEW c \in Callers, PutNew(c) PROVE IInv'
  <2>1. PICK id \in Key :
            LET item == Edit(NewItem(id), clock + 1)
            IN  Put(c, item) \/ PutUnmarshalable(c, item)
    BY <1>2 DEF PutNew, NewIds
  <2>2. NewItem(id) \in Item /\ IsNew(NewItem(id))
    BY ConstantTypes DEF IsNew, NewItem
  <2>3. QED
    BY <1>0, <1>2, <2>1, <2>2, PutInv DEF PutNew
<1>3. ASSUME NEW c \in Callers, PutHeld(c) PROVE IInv'
  <2>1. held[c] \in Item
    BY <1>0 DEF TypeOK
  <2>2. QED
    BY <1>0, <1>1, <1>3, <2>1, PutInv DEF PutHeld
<1>4. ASSUME NEW c \in Callers, NEW id \in Key, NEW cond \in Conditions,
             Run(c, id, cond)
      PROVE  IInv'
  <2> DEFINE r == [op |-> "UpdateItem", from |-> c, at |-> clock', key |-> id,
                   row |-> Absent, cond |-> cond]
  <2>1. r \in Request
    BY <1>0, <1>4, TickType, PlainRequestType DEF Run
  <2>2. RequestInv(table, r)
    BY DEF RequestInv
  <2>3. QED
    BY <1>0, <1>4, <2>1, <2>2, SendInv DEF Run
<1>5. ASSUME NEW c \in Callers, Call(c) PROVE IInv'
  <2>1. ASSUME NEW id \in Ids, Get(c, id) PROVE IInv'
    <3> DEFINE r == [op |-> "GetItem", from |-> c, at |-> 0, key |-> id,
                     row |-> Absent, cond |-> NoCondition]
    <3>1. r \in Request
      BY PlainRequestType, ConstantTypes DEF Key
    <3>2. RequestInv(table, r)
      BY DEF RequestInv
    <3>3. QED
      BY <1>0, <2>1, <3>1, <3>2, SendInv DEF Get
  <2>2. ASSUME NEW id \in Ids, Delete(c, id) PROVE IInv'
    BY <2>2 DEF Delete, VersionedUse
  <2>3. ASSUME NEW id \in Ids, Update(c, id) PROVE IInv'
    BY <1>4, <2>3, ConstantTypes DEF Update, Key
  <2>4. CASE UpdateIfVersion(c)
    <3>1. held[c].id \in Key /\ IfVersion(held[c]) \in Conditions
      BY <1>0 DEF TypeOK, Item, Key, IfVersion, Conditions
    <3>2. QED
      BY <1>4, <2>4, <3>1 DEF UpdateIfVersion
  <2>5. CASE UpdateUnbuildable(c)
    <3>1. Sound(held[c])
      BY <1>1, <2>5 DEF UpdateUnbuildable
    <3>2. held' = [held EXCEPT ![c] = held[c]]
      BY <1>0, <2>5 DEF UpdateUnbuildable, TypeOK
    <3>3. /\ UNCHANGED <<table, replica>> /\ net' \subseteq net
          /\ \A d \in Callers \ {c} : /\ status'[d] = status[d]
                                      /\ req'[d] = req[d]
                                      /\ answer'[d] = answer[d]
          /\ status'[c] = "err"
      BY <1>0, <2>5 DEF UpdateUnbuildable, TypeOK
    <3>4. QED
      BY <1>0, <3>1, <3>2, <3>3, EndInv
  <2>6. QED
    BY <1>2, <1>3, <1>5, <2>1, <2>2, <2>3, <2>4, <2>5 DEF Call
<1>6. ASSUME NEW c \in Callers, Resend(c) PROVE IInv'
  <2>1. /\ UNCHANGED <<table, replica, held, status, req>>
        /\ net' = net \cup {Attempt(req[c], tries[c] + 1)}
        /\ Pending(c)
    BY <1>6 DEF Resend
  <2>2. \A d \in Callers : answer'[d] = answer[d] \/ answer'[d].code = "none"
    BY <1>0, <1>6 DEF Resend, TypeOK, NoAnswer
  <2>3. TableInv' /\ ReplicaInv' /\ CallerInv'
    BY <2>1 DEF IInv, TableInv, ReplicaInv, CallerInv, Pending
  <2>4. NetInv'
    BY <2>1 DEF IInv, NetInv, CallerInv, Attempt
  <2>5. AnswerInv'
    BY <2>1, <2>2 DEF IInv, AnswerInv, Pending
  <2>6. QED
    BY <1>0, <2>3, <2>4, <2>5 DEF IInv
<1>7. ASSUME NEW c \in Callers, Returns(c) PROVE IInv'
  <2>1. Pending(c) /\ held[c] \in Item
    BY <1>0, <1>7 DEF Returns, PutReturns, GetReturns, RunReturns,
                      DeleteReturns, GiveUp, Responded, TypeOK
  <2>2. /\ ~IsNew(NoItem) => FALSE
        /\ AfterFailedPut(held[c]) = NoItem
    BY DEF IsNew, NoItem, NewItem, AfterFailedPut, VersionedUse
  <2>3. answer[c].code = "ok" =>
            /\ RowSynced(table, answer[c].row)
            /\ req[c].op = "PutItem" => answer[c].row = req[c].row
            /\ req[c].op \in Writes => Stored(table, req[c])
    BY <2>1 DEF IInv, AnswerInv
  <2>4. req[c].op # "PutItem" => Sound(held[c])
    BY DEF IInv, CallerInv
  <2>5. held' = held => held' = [held EXCEPT ![c] = held[c]]
    BY <1>0 DEF TypeOK
  <2>6. CASE PutReturns(c)
    <3>1. req[c].op = "PutItem" /\ held[c] = req[c].row.item
      BY <2>1, <2>6 DEF PutReturns, Responded, IInv, CallerInv
    <3>2. CASE answer[c].code = "ok" /\ Finish(c, "ok") /\ held' = held
      <4>1. Sound(held[c])
        BY <2>3, <3>1, <3>2 DEF RowSynced
      <4>2. QED
        BY <1>0, <2>3, <2>5, <3>2, <4>1, FinishInv DEF Results
    <3>3. CASE /\ Finish(c, "lock")
               /\ held' = [held EXCEPT ![c] = AfterFailedPut(@)]
      BY <1>0, <2>2, <3>3, FinishInv DEF Results
    <3>4. QED
      BY <2>6, <3>2, <3>3 DEF PutReturns, Responded
  <2>7. CASE GetReturns(c)
    <3>1. req[c].op = "GetItem" /\ answer[c].code = "ok"
      BY <2>7 DEF GetReturns, Responded
    <3>2. Sound(held[c]) /\ Sound(answer[c].row.item)
      BY <2>3, <2>4, <3>1 DEF RowSynced
    <3>3. req[c].op \notin Writes
      BY <3>1 DEF Writes
    <3>4. CASE /\ Finish(c, "ok")
               /\ held' = [held EXCEPT ![c] = answer[c].row.item]
      BY <1>0, <3>2, <3>3, <3>4, FinishInv DEF Results
    <3>5. CASE (Finish(c, "err") \/ Finish(c, "notFound")) /\ held' = held
      BY <1>0, <2>5, <3>2, <3>3, <3>5, FinishInv DEF Results
    <3>6. QED
      BY <2>7, <3>4, <3>5 DEF GetReturns
  <2>8. CASE RunReturns(c)
    <3>1. req[c].op = "UpdateItem" /\ Sound(held[c])
      BY <2>4, <2>8 DEF RunReturns, Responded
    <3>2. CASE /\ answer[c].code = "ok" /\ Finish(c, "ok")
               /\ \E item \in {held[c], answer[c].row.item} :
                      held' = [held EXCEPT ![c] = item]
      <4>1. PICK item \in {held[c], answer[c].row.item} :
                     held' = [held EXCEPT ![c] = item]
        BY <3>2
      <4>2. Sound(item) /\ (req[c].op \in Writes => Stored(table, req[c]))
        BY <2>3, <3>1, <3>2 DEF RowSynced
      <4>3. QED
        BY <1>0, <3>2, <4>1, <4>2, FinishInv DEF Results
    <3>3. CASE (Finish(c, "err") \/ Finish(c, "lock")) /\ held' = held
      BY <1>0, <2>5, <3>1, <3>3, FinishInv DEF Results
    <3>4. QED
      BY <2>8, <3>2, <3>3 DEF RunReturns, Responded
  <2>9. CASE DeleteReturns(c)
    BY <2>1, <2>9 DEF DeleteReturns, Responded, IInv, CallerInv, RequestInv
  <2>10. CASE GiveUp(c)
    <3>1. CASE req[c].op = "PutItem"
      <4>1. held' = [held EXCEPT ![c] = NoItem] /\ Finish(c, "err")
        BY <2>2, <2>10, <3>1 DEF GiveUp
      <4>2. QED
        BY <1>0, <2>2, <4>1, FinishInv DEF Results
    <3>2. CASE req[c].op # "PutItem"
      <4>1. held' = [held EXCEPT ![c] = held[c]] /\ Finish(c, "err")
        BY <2>5, <2>10, <3>2 DEF GiveUp
      <4>2. QED
        BY <1>0, <2>4, <3>2, <4>1, FinishInv DEF Results
    <3>3. QED
      BY <3>1, <3>2
  <2>11. QED
    BY <1>7, <2>6, <2>7, <2>8, <2>9, <2>10 DEF Returns
<1>8. ASSUME NEW m \in net, ServeWrite(m) PROVE IInv'
  <2> DEFINE new == Apply(m.req, table[m.req.key])
  <2>1. /\ m \in Message /\ m.req \in Request /\ m.req.key \in Key
        /\ RequestInv(table, m.req)
    BY <1>0 DEF TypeOK, Message, Request, IInv, NetInv
  <2>2. RowsAdvance(table, table') /\ TableInv'
    BY <1>0, <1>8, ServeWriteAdvances DEF IInv
  <2>3. /\ net' = net \ {m}
        /\ UNCHANGED <<replica, held, status, req>>
    BY <1>8 DEF ServeWrite
  <2>4. CASE /\ Holds(m.req.cond, table[m.req.key])
             /\ table' = [table EXCEPT ![m.req.key] = Apply(m.req, @)]
             /\ Respond(m, "ok", new)
    <3>1. new \in Row /\ table'[m.req.key] = new
      BY <1>0, <2>1, <2>4, ApplyType DEF TypeOK
    <3>2. RowSynced(table', new)
      BY <1>0, <2>1, <2>2, <3>1 DEF TypeOK, TableInv, RowSynced, Synced,
         Exists, IsNew, Absent, NoItem, NewItem, Row, Item
    <3>3. m.req.op = "PutItem" => new = m.req.row
      BY DEF Apply
    <3>4. m.req.op \in Writes => Stored(table', m.req)
      BY <1>0, <2>1, <2>4, <3>1, ApplyAdvances DEF IInv, Advances, Stored
    <3> HIDE DEF new
    <3>5. QED
      BY <1>0, <2>2, <2>3, <2>4, <3>1, <3>2, <3>3, <3>4, ServeInv
  <2>5. CASE Respond(m, "condfail", Absent)
    BY <1>0, <2>2, <2>3, <2>5, ConstantTypes, ServeInv
  <2>6. QED
    BY <1>8, <2>4, <2>5 DEF ServeWrite
<1>9. ASSUME NEW m \in net, ServeRead(m) PROVE IInv'
  <2>1. PICK seen \in {table[m.req.key], replica[m.req.key]} :
            Respond(m, "ok", seen)
    BY <1>9 DEF ServeRead
  <2>2. m.req.key \in Key /\ m.req.op = "GetItem"
    BY <1>0, <1>9 DEF ServeRead, TypeOK, Message, Request
  <2>3. seen \in Row /\ RowSynced(table, seen)
    BY <1>0, <2>2, RowSyncedWithItself DEF IInv, TypeOK, ReplicaInv
  <2>4. /\ table' = table /\ net' = net \ {m}
        /\ UNCHANGED <<replica, held, status, req>>
    BY <1>9 DEF ServeRead
  <2>5. RowsAdvance(table, table') /\ TableInv'
    BY <2>4 DEF RowsAdvance, IInv, TableInv
  <2>6. QED
    BY <1>0, <2>1, <2>2, <2>3, <2>4, <2>5, ServeInv DEF Writes
<1>10. ASSUME NEW k \in Ids, Replicate(k) PROVE IInv'
  <2>1. UNCHANGED <<table, net, held, status, req, answer>>
    BY <1>10 DEF Replicate, callVars
  <2>2. ReplicaInv'
    <3>1. \A j \in Key : replica'[j] \in {replica[j], table[j]}
      BY <1>0, <1>10 DEF Replicate, TypeOK
    <3>2. \A j \in Key : RowSynced(table, table[j])
      BY <1>0, RowSyncedWithItself DEF IInv
    <3>3. QED
      BY <2>1, <3>1, <3>2 DEF IInv, ReplicaInv
  <2>3. TableInv' /\ NetInv' /\ CallerInv' /\ AnswerInv'
    BY <2>1 DEF IInv, TableInv, NetInv, CallerInv, AnswerInv, Pending
  <2>4. QED
    BY <1>0, <2>2, <2>3 DEF IInv
<1>11. CASE UNCHANGED vars
  BY <1>0, <1>11 DEF IInv, TableInv, ReplicaInv, NetInv, CallerInv, AnswerInv,
                     Pending, vars, callVars
<1>12. QED
  BY <1>5, <1>6, <1>7, <1>8, <1>9, <1>10, <1>11 DEF Next

-----------------------------------------------------------------------------
(* The theorems. *)

\* Requests in flight, responses, replica and copies agree with the rows.
THEOREM Invariance == ASSUME VersionedUse PROVE Spec => []IInv
<1>1. IInv /\ [Next]_vars => IInv'
  BY IInvStep
<1>2. QED
  BY <1>1, IInvInit, PTL DEF Spec

\* The copy a caller goes on with was the row, and is the row if the versions
\* agree.
THEOREM CopiesInSync == ASSUME VersionedUse PROVE Spec => []CopyInSync
<1>1. IInv => CopyInSync
  BY DEF IInv, CallerInv, CopyInSync, Idle, Pending
<1>2. QED
  BY <1>1, Invariance, PTL

\* A write that was acknowledged stays in the row.
THEOREM AcknowledgedStays ==
    ASSUME VersionedUse PROVE Spec => []AcknowledgedIsStored
<1>1. IInv => AcknowledgedIsStored
  BY DEF IInv, AnswerInv, AcknowledgedIsStored, Stored, ItemAt
<1>2. QED
  BY <1>1, Invariance, PTL

\* The rows only move forward.
LEMMA Forward ==
    ASSUME VersionedUse
    PROVE  Spec => [][RowsAdvance(table, table')]_vars
<1>1. IInv /\ IInv' /\ [Next]_vars => RowsAdvance(table, table')
  BY NextAdvances DEF IInv
<1>2. QED
  BY <1>1, Invariance, PTL DEF Spec

\* No write to an existing row loses a change that is in it.
THEOREM NothingLost == ASSUME VersionedUse PROVE Spec => NoLostEdits
<1>1. RowsAdvance(table, table') =>
          \A k \in Key : Exists(table[k]) /\ Exists(table'[k])
              => table[k].item.edits \subseteq table'[k].item.edits
  BY DEF RowsAdvance, Advances
<1>2. QED
  BY <1>1, Forward, PTL DEF NoLostEdits

\* Who created an item, and when, is never overwritten.
THEOREM CreationStays == ASSUME VersionedUse PROVE Spec => CreationKept
<1>1. RowsAdvance(table, table') =>
          \A k \in Key : Exists(table[k]) /\ Exists(table'[k])
              => table'[k].item.created = table[k].item.created
  BY DEF RowsAdvance, Advances
<1>2. QED
  BY <1>1, Forward, PTL DEF CreationKept
-----------------------------------------------------------------------------
(* The shapes of a step, for the invariants that hold whatever is used. *)

\* A Put creates an item nobody knows, or updates the one the caller holds.
Source(c, r) ==
    r.op = "PutItem" =>
        \/ r.cond.kind = "absent" /\ r.key \in FreshIds
        \/ /\ r.cond.kind = "version" /\ Whole(held[c])
           /\ r.key = held[c].id /\ r.cond.version = held[c].version
           /\ r.row.item.version = held[c].version + 1
           /\ r.row.item.edits = held[c].edits \cup {r.at}
           /\ r.row.item.created = held[c].created

\* Without ReuseAfterError the caller goes on with its copy, the one in the
\* answer, or none; and after a Put with its copy only if that was stored.
Keeps(c, h) ==
    /\ h \in {held[c], NoItem, answer[c].row.item}
    /\ SendsPut(c) => h = NoItem \/ (h = held[c] /\ answer[c].code = "ok")

\* A call begins with a request that is new, and holds no change that the
\* caller's copy does not have but its own.
Begins(c, r) ==
    /\ Idle(c) /\ r \in Request /\ r.from = c /\ Send(c, r)
    /\ held' = [held EXCEPT ![c] = IF r.op = "PutItem" THEN r.row.item ELSE @]
    /\ r.row.item.edits \subseteq held[c].edits \cup {clock + 1}
    /\ \/ r.at = clock + 1 /\ clock' = clock + 1
       \/ r.at = 0 /\ clock' = clock /\ r.op = "GetItem" /\ r.row = Absent
    /\ "update" \notin Ops /\ WholeCopy(held[c]) => WholeRequest(r)
    /\ NextVersion(r)
    /\ "newId" \notin Ops /\ WholeCopy(held[c]) => Source(c, r)

\* A call ends, or fails before it sends; h is what the caller goes on with.
Ends(c, h) ==
    /\ held' = [held EXCEPT ![c] = h]
    /\ \/ clock' = clock /\ h \in {held[c], NoItem, answer[c].row.item}
       \/ /\ clock' = clock + 1
          /\ h.edits \subseteq held[c].edits \cup {clock + 1}
          /\ WholeCopy(held[c]) => WholeCopy(h)
    /\ UNCHANGED <<table, replica>> /\ net' \subseteq net
    /\ \/ UNCHANGED <<req, tries>>
       \/ /\ req' = [req EXCEPT ![c] = NoRequest(c)]
          /\ tries' = [tries EXCEPT ![c] = 1]
    /\ answer' \in {answer, [answer EXCEPT ![c] = NoAnswer]}
    /\ \E result \in Results :
          /\ status' = [status EXCEPT ![c] = result]
          /\ result = "lock" => Pending(c) /\ answer[c].code = "condfail"
    /\ ~ReuseAfterError => Keeps(c, h)

LEMMA StampEdits ==
    ASSUME NEW copy \in Item, NEW now \in Nat, NEW uuid \in Key
    PROVE  Stamp(Edit(copy, now), now, uuid).edits = copy.edits \cup {now}
<1>1. /\ Edit(copy, now) \in Item
      /\ Edit(copy, now).edits = copy.edits \cup {now}
  BY EditType DEF Edit, Item
<1>2. SetType(Edit(copy, now)).edits = copy.edits \cup {now}
  BY <1>1 DEF SetType, Item
<1>3. QED
  BY <1>1, <1>2 DEF Stamp, StampCreate, StampUpdate, SetType, Item

\* A create or an update of a whole copy leaves a whole copy; a create shows
\* its own change only.
WholeSource(copy) == (IsNew(copy) /\ copy.edits = {}) \/ Whole(copy)

LEMMA StampWhole ==
    ASSUME NEW copy \in Item, NEW now \in Nat \ {0}, NEW uuid \in Key,
           WholeSource(copy)
    PROVE  /\ Whole(Stamp(Edit(copy, now), now, uuid))
           /\ Condition(Edit(copy, now)).kind = "absent"
                  => Stamp(Edit(copy, now), now, uuid).edits = {now}
<1> DEFINE item == Edit(copy, now)
<1>1. /\ item \in Item /\ item.created = copy.created /\ item.typ = copy.typ
  BY EditType DEF Edit, Item
<1>2. CASE IsNew(copy)
  <2>1. Stamp(item, now, uuid) = StampCreate(item, now, uuid)
    BY <1>1, <1>2 DEF Stamp, IsNew
  <2>2. /\ SetType(item) \in Item /\ SetType(item).typ = TypeName
    BY <1>1 DEF SetType, Item
  <2> HIDE DEF item
  <2>3. /\ StampCreate(item, now, uuid).typ = TypeName
        /\ StampCreate(item, now, uuid).created = now
    BY <2>2 DEF StampCreate, Item
  <2>4. Whole(Stamp(item, now, uuid))
    BY <2>1, <2>3 DEF Whole, IsNew
  <2> USE DEF item
  <2>5. Stamp(item, now, uuid).edits = {now}
    BY <1>2, StampEdits DEF WholeSource, Whole
  <2>6. QED
    BY <2>4, <2>5
<1>3. CASE ~IsNew(copy)
  <2>1. Stamp(item, now, uuid) = StampUpdate(item, now)
    BY <1>1, <1>3 DEF Stamp, IsNew
  <2>2. Condition(item).kind = "version"
    BY <1>1, <1>3 DEF Condition, IsNew
  <2> HIDE DEF item
  <2>3. /\ StampUpdate(item, now).typ = item.typ
        /\ StampUpdate(item, now).created = item.created
    BY <1>1 DEF StampUpdate, Item
  <2>4. QED
    BY <1>1, <1>3, <2>1, <2>2, <2>3 DEF WholeSource, Whole, IsNew, item
<1>4. QED
  BY <1>2, <1>3

\* Stamping counts from the version that Condition names.
LEMMA StampVersion ==
    ASSUME NEW item \in Item, NEW now \in Nat, NEW uuid \in Key
    PROVE  LET stamped == Stamp(item, now, uuid)
               cond    == Condition(item)
           IN  \/ cond.kind = "absent" /\ stamped.version = 1
               \/ cond.kind = "version" /\ stamped.version = cond.version + 1
<1>1. SetType(item) \in Item
  BY DEF SetType, Item
<1>2. StampCreate(item, now, uuid).version = 1
  BY <1>1 DEF StampCreate, Item
<1>3. StampUpdate(item, now).version = item.version + 1
  BY DEF StampUpdate, Item
<1>4. QED
  BY <1>2, <1>3 DEF Stamp, Condition

\* Where the request of a Put comes from.
LEMMA PutSource ==
    ASSUME TypeOK, NEW c \in Callers, NEW copy \in Item, NEW now \in Nat,
           \/ copy = held[c] /\ copy # NoItem
           \/ \E id \in NewIds : copy = NewItem(id),
           NEW uuid \in Uuids(Edit(copy, now)), uuid \in Key,
           "newId" \notin Ops, WholeCopy(held[c])
    PROVE  Source(c, PutRequest(c, Edit(copy, now), now, uuid))
<1> DEFINE item == Edit(copy, now)
           r    == PutRequest(c, item, now, uuid)
<1>1. /\ item \in Item /\ item.edits = copy.edits \cup {now} /\ item.id = copy.id
      /\ item.created = copy.created /\ item.version = copy.version
  BY EditType DEF Edit, Item
<1>2. /\ r.at = now /\ r.key = r.row.item.id /\ r.cond = Condition(item)
      /\ r.row.item = Stamp(item, now, uuid)
  BY DEF PutRequest, Marshal
<1>3. SetType(item) \in Item /\ SetType(item).edits = item.edits
  BY <1>1 DEF SetType, Item
<1> HIDE DEF r
<1>4. ASSUME copy = held[c] /\ copy # NoItem PROVE Source(c, r)
  <2>1. Whole(held[c]) /\ ~IsNew(item)
    BY <1>1, <1>4 DEF WholeCopy, Whole, IsNew
  <2>2. r.row.item = StampUpdate(item, now)
    BY <1>2, <2>1 DEF Stamp
  <2>3. r.cond.kind = "version" /\ r.cond.version = item.version
    BY <1>2, <2>1 DEF Condition
  <2> HIDE DEF item
  <2>4. /\ r.row.item.id = item.id /\ r.row.item.version = item.version + 1
        /\ r.row.item.edits = item.edits /\ r.row.item.created = item.created
    BY <1>1, <2>2 DEF StampUpdate, Item
  <2>5. QED
    BY <1>1, <1>2, <1>4, <2>1, <2>3, <2>4 DEF Source, item
<1>5. ASSUME NEW id \in NewIds, copy = NewItem(id) PROVE Source(c, r)
  <2>1. copy = NewItem(NoId)
    BY <1>5 DEF NewIds
  <2>2. IsNew(item) /\ item.id = NoId
    BY <1>1, <2>1 DEF IsNew, NewItem
  <2>3. uuid \in FreshIds
    BY <2>2 DEF Uuids
  <2>4. r.row.item = StampCreate(item, now, uuid)
    BY <1>2, <2>2 DEF Stamp
  <2> HIDE DEF item
  <2>5. r.row.item.id = uuid
    BY <1>3, <2>2, <2>4 DEF StampCreate, Item
  <2>6. r.cond.kind = "absent"
    BY <1>2, <2>2 DEF Condition
  <2>7. QED
    BY <1>2, <2>3, <2>5, <2>6 DEF Source, item
<1>6. QED
  BY <1>4, <1>5 DEF r

\* Put of an edited copy begins a call, or fails before it sends.
LEMMA PutShape ==
    ASSUME TypeOK, NEW c \in Callers, Idle(c), NEW copy \in Item,
           \/ copy = held[c] /\ copy # NoItem
           \/ \E id \in NewIds : copy = NewItem(id),
           copy.edits \subseteq held[c].edits,
           WholeCopy(held[c]) => WholeSource(copy),
           LET item == Edit(copy, clock + 1)
           IN  Put(c, item) \/ PutUnmarshalable(c, item)
    PROVE  (\E r : Begins(c, r)) \/ (\E h : Ends(c, h))
<1> DEFINE item == Edit(copy, clock + 1)
<1>0. clock \in Nat /\ clock + 1 \in Nat /\ item \in Item
  BY EditType, CrudAssumption DEF TypeOK
<1>1. ASSUME NEW uuid \in Uuids(item), Tick,
             held' = [held EXCEPT ![c] = Stamp(item, clock', uuid)],
             Send(c, PutRequest(c, item, clock', uuid))
      PROVE  \E r : Begins(c, r)
  <2> DEFINE r == PutRequest(c, item, clock + 1, uuid)
  <2>1. uuid \in Key /\ clock' = clock + 1
    BY <1>1 DEF Uuids, FreshIds, Key, Tick
  <2>2. /\ Stamp(item, clock + 1, uuid) \in Item
        /\ Marshal(item, clock + 1, uuid) \in Row
        /\ Condition(item) \in Conditions
    BY <1>0, <2>1, StampTypes
  <2>3. r \in Request
    <3>1. Stamp(item, clock + 1, uuid).id \in Key
      BY <2>2 DEF Item, Key
    <3>2. QED
      BY <1>0, <2>2, <3>1 DEF PutRequest, Request
  <2>4. /\ r.op = "PutItem" /\ r.at = clock + 1 /\ r.from = c
        /\ r.row.item = Stamp(item, clock + 1, uuid)
    BY DEF PutRequest, Marshal
  <2>5. r.row.item.edits = copy.edits \cup {clock + 1}
    BY <1>0, <2>1, <2>4, StampEdits
  <2>6. Send(c, r) /\ held' = [held EXCEPT ![c] = r.row.item]
    BY <1>1, <2>1, <2>4
  <2>7. ASSUME WholeCopy(held[c]) PROVE WholeRequest(r)
    <3>1. clock + 1 \in Nat \ {0}
      BY <1>0
    <3>2. r.key = r.row.item.id /\ r.cond = Condition(item)
      BY DEF PutRequest, Marshal
    <3> HIDE DEF r
    <3>3. QED
      BY <2>1, <2>4, <2>7, <3>1, <3>2, StampWhole DEF WholeRequest
  <2>8. NextVersion(r)
    <3>1. r.cond = Condition(item)
      BY DEF PutRequest
    <3> HIDE DEF r
    <3>2. QED
      BY <1>0, <2>1, <2>4, <3>1, StampVersion DEF NextVersion
  <2>9. "newId" \notin Ops /\ WholeCopy(held[c]) => Source(c, r)
    BY <1>0, <2>1, PutSource
  <2> HIDE DEF r
  <2>10. QED
    BY <2>1, <2>3, <2>4, <2>5, <2>6, <2>7, <2>8, <2>9 DEF Begins
<1>2. CASE PutUnmarshalable(c, item)
  <2>1. PICK uuid \in Uuids(item) :
            held' = [held EXCEPT ![c] = AfterFailedPut(Stamp(item, clock', uuid))]
    BY <1>2 DEF PutUnmarshalable
  <2>2. uuid \in Key /\ clock' = clock + 1
    BY <1>2 DEF Uuids, FreshIds, Key, Tick, PutUnmarshalable
  <2> DEFINE h == AfterFailedPut(Stamp(item, clock + 1, uuid))
  <2>3. h.edits \subseteq held[c].edits \cup {clock + 1}
    BY <1>0, <2>2, StampEdits DEF AfterFailedPut, NoItem, NewItem
  <2>4. held' = [held EXCEPT ![c] = h]
    BY <2>1, <2>2
  <2>5. WholeCopy(held[c]) => WholeCopy(h)
    <3>1. clock + 1 \in Nat \ {0}
      BY <1>0
    <3>2. QED
      BY <2>2, <3>1, StampWhole DEF AfterFailedPut, WholeCopy
  <2>9. ~ReuseAfterError => Keeps(c, h)
    BY DEF AfterFailedPut, Keeps
  <2> HIDE DEF h
  <2>6. "err" \in Results
    BY DEF Results
  <2>7. Ends(c, h)
    BY <1>2, <2>2, <2>3, <2>4, <2>5, <2>6, <2>9 DEF PutUnmarshalable, Ends
  <2>8. QED
    BY <2>7
<1>3. QED
  BY <1>1, <1>2 DEF Put

LEMMA FinishShape ==
    ASSUME TypeOK, NEW c \in Callers, NEW result \in Results,
           Finish(c, result),
           result = "lock" => Pending(c) /\ answer[c].code = "condfail",
           NEW h \in {held[c], NoItem, answer[c].row.item},
           held' = [held EXCEPT ![c] = h],
           ~ReuseAfterError => Keeps(c, h)
    PROVE  Ends(c, h)
<1>1. net' \subseteq net
  BY DEF Finish
<1>2. QED
  BY <1>1 DEF Ends, Finish

\* Every step is one of these.
LEMMA Shapes ==
    ASSUME TypeOK, [Next]_vars
    PROVE  \/ \E c \in Callers : (\E r : Begins(c, r)) \/ (\E h : Ends(c, h))
           \/ \E c \in Callers : Resend(c)
           \/ \E m \in net : ServeWrite(m) \/ ServeRead(m)
           \/ \E k \in Ids : Replicate(k)
           \/ UNCHANGED vars
<1>0. clock \in Nat
  BY CrudAssumption DEF TypeOK
<1>1. ASSUME NEW c \in Callers, Call(c)
      PROVE  (\E r : Begins(c, r)) \/ (\E h : Ends(c, h))
  <2>0. held' = held => held' = [held EXCEPT ![c] = held[c]]
    BY DEF TypeOK
  <2>1. CASE PutNew(c)
    <3>1. PICK id \in NewIds :
              LET item == Edit(NewItem(id), clock + 1)
              IN  Put(c, item) \/ PutUnmarshalable(c, item)
      BY <2>1 DEF PutNew
    <3>a. id \in Key
      BY DEF NewIds
    <3>2. NewItem(id) \in Item /\ NewItem(id).edits = {} /\ IsNew(NewItem(id))
      BY <3>a, ConstantTypes DEF NewItem, IsNew
    <3>3. QED
      BY <2>1, <3>1, <3>2, PutShape DEF PutNew, WholeSource
  <2>2. CASE PutHeld(c)
    <3>1. held[c] \in Item
      BY DEF TypeOK
    <3>2. WholeCopy(held[c]) => WholeSource(held[c])
      BY <2>2 DEF PutHeld, WholeCopy, WholeSource
    <3>3. QED
      BY <2>2, <3>1, <3>2, PutShape DEF PutHeld
  <2>3. ASSUME NEW id \in Key, NEW cond \in Conditions,
               NEW op \in {"DeleteItem", "UpdateItem"}, Idle(c), Tick,
               Send(c, [op |-> op, from |-> c, at |-> clock', key |-> id,
                        row |-> Absent, cond |-> cond]),
               op = "UpdateItem" => "update" \in Ops \/ cond.kind = "version",
               UNCHANGED held
        PROVE  \E r : Begins(c, r)
    <3> DEFINE r == [op |-> op, from |-> c, at |-> clock + 1, key |-> id,
                     row |-> Absent, cond |-> cond]
    <3>1. clock' = clock + 1 /\ Send(c, r)
      BY <2>3 DEF Tick
    <3>2. r \in Request
      <4>1. clock + 1 \in Nat /\ op \in {"GetItem", "DeleteItem", "UpdateItem"}
        BY <1>0
      <4>2. QED
        BY <4>1, PlainRequestType
    <3>3. /\ r.row.item.edits = {} /\ r.at = clock + 1 /\ r.op # "PutItem"
          /\ r.from = c
      BY DEF Absent, NoItem, NewItem
    <3>4. "update" \notin Ops => WholeRequest(r)
      BY <2>3 DEF WholeRequest
    <3> HIDE DEF r
    <3>5. QED
      BY <2>0, <2>3, <3>1, <3>2, <3>3, <3>4 DEF Begins, NextVersion, Source
  <2>4. CASE UpdateIfVersion(c)
    <3>1. held[c].id \in Key /\ IfVersion(held[c]) \in Conditions
      BY DEF TypeOK, Item, Key, IfVersion, Conditions
    <3>2. QED
      BY <2>3, <2>4, <3>1 DEF UpdateIfVersion, Run, IfVersion
  <2>5. ASSUME NEW id \in Ids, Get(c, id) PROVE \E r : Begins(c, r)
    <3> DEFINE r == [op |-> "GetItem", from |-> c, at |-> 0, key |-> id,
                     row |-> Absent, cond |-> NoCondition]
    <3>1. r \in Request
      BY PlainRequestType, ConstantTypes DEF Key
    <3>2. /\ r.row.item.edits = {} /\ r.op = "GetItem" /\ r.at = 0
          /\ r.row = Absent /\ r.from = c
      BY DEF Absent, NoItem, NewItem
    <3>3. Send(c, r) /\ Idle(c) /\ clock' = clock /\ held' = held
      BY <2>5 DEF Get
    <3>4. WholeRequest(r)
      BY DEF WholeRequest
    <3> HIDE DEF r
    <3>5. QED
      BY <2>0, <3>1, <3>2, <3>3, <3>4 DEF Begins, NextVersion, Source
  <2>6. ASSUME NEW id \in Ids, Delete(c, id) PROVE \E r : Begins(c, r)
    BY <2>3, <2>6, ConstantTypes DEF Delete, Key
  <2>7. ASSUME NEW id \in Ids, Update(c, id) PROVE \E r : Begins(c, r)
    BY <2>3, <2>7, ConstantTypes DEF Update, Run, Key
  <2>8. CASE UpdateUnbuildable(c)
    <3>1. /\ held' = [held EXCEPT ![c] = held[c]] /\ clock' = clock + 1
          /\ held[c].edits \subseteq held[c].edits \cup {clock + 1}
      BY <2>0, <2>8 DEF UpdateUnbuildable, Tick
    <3>2. Keeps(c, held[c])
      BY <2>8 DEF Keeps, UpdateUnbuildable, Idle, Pending, SendsPut
    <3>3. "err" \in Results
      BY DEF Results
    <3>4. Ends(c, held[c])
      BY <2>8, <3>1, <3>2, <3>3 DEF UpdateUnbuildable, Ends
    <3>5. QED
      BY <3>4
  <2>9. QED
    BY <1>1, <2>1, <2>2, <2>4, <2>5, <2>6, <2>7, <2>8 DEF Call
<1>2. ASSUME NEW c \in Callers, Returns(c) PROVE \E h : Ends(c, h)
  <2>0. held' = held => held' = [held EXCEPT ![c] = held[c]]
    BY DEF TypeOK
  <2>1. /\ AfterFailedPut(held[c]) \in {held[c], NoItem}
        /\ ~ReuseAfterError => AfterFailedPut(held[c]) = NoItem
    BY DEF AfterFailedPut
  <2>2. {"ok", "err", "notFound", "lock"} \subseteq Results
    BY DEF Results
  <2>3. CASE PutReturns(c)
    BY <2>0, <2>1, <2>2, <2>3, FinishShape DEF PutReturns, Responded, Keeps
  <2>4. CASE GetReturns(c)
    BY <2>0, <2>2, <2>4, FinishShape DEF GetReturns, Responded, Keeps, SendsPut
  <2>5. CASE RunReturns(c)
    BY <2>0, <2>2, <2>5, FinishShape DEF RunReturns, Responded, Keeps, SendsPut
  <2>6. CASE DeleteReturns(c)
    BY <2>0, <2>2, <2>6, FinishShape DEF DeleteReturns, Responded, Keeps, SendsPut
  <2>7. CASE GiveUp(c)
    BY <2>0, <2>1, <2>2, <2>7, FinishShape DEF GiveUp, Keeps, SendsPut
  <2>8. QED
    BY <1>2, <2>3, <2>4, <2>5, <2>6, <2>7 DEF Returns
<1>3. QED
  BY <1>1, <1>2 DEF Next
-----------------------------------------------------------------------------
(* A refused write is seen nowhere. *)

\* What the requests in use are after a step of each shape.
LEMMA InUseSteps ==
    ASSUME TypeOK, NEW c \in Callers
    PROVE  /\ \A r : Begins(c, r) => InUse' \subseteq InUse \cup {r}
           /\ \A h : Ends(c, h) => InUse' \subseteq InUse \cup {NoRequest(c)}
           /\ Resend(c) => InUse' \subseteq InUse
           /\ \A m \in net : ServeWrite(m) \/ ServeRead(m)
                  => InUse' \subseteq InUse /\ m.req \in InUse
<1>1. ASSUME NEW r, Begins(c, r) PROVE InUse' \subseteq InUse \cup {r}
  <2>1. /\ net' = net \cup {Attempt(r, 1)} /\ Attempt(r, 1).req = r
        /\ \A d \in Callers : req'[d] \in {req[d], r}
    BY <1>1 DEF Begins, Send, Attempt, TypeOK
  <2>2. QED
    BY <2>1 DEF InUse
<1>2. ASSUME NEW h, Ends(c, h) PROVE InUse' \subseteq InUse \cup {NoRequest(c)}
  <2>1. /\ net' \subseteq net
        /\ \A d \in Callers : req'[d] \in {req[d], NoRequest(c)}
    BY <1>2 DEF Ends, TypeOK
  <2>2. QED
    BY <2>1 DEF InUse
<1>3. ASSUME Resend(c) PROVE InUse' \subseteq InUse
  <2>1. /\ net' = net \cup {Attempt(req[c], tries[c] + 1)} /\ req' = req
        /\ Attempt(req[c], tries[c] + 1).req = req[c]
    BY <1>3 DEF Resend, Attempt
  <2>2. QED
    BY <2>1 DEF InUse
<1>4. ASSUME NEW m \in net, ServeWrite(m) \/ ServeRead(m)
      PROVE  InUse' \subseteq InUse /\ m.req \in InUse
  <2>1. net' \subseteq net /\ req' = req
    BY <1>4 DEF ServeWrite, ServeRead
  <2>2. QED
    BY <2>1 DEF InUse
<1>5. QED
  BY <1>1, <1>2, <1>3, <1>4

\* A served write leaves a row that shows what it showed, what the request
\* carries, or the request's own change.
LEMMA ApplyEdits ==
    ASSUME NEW r \in Request, NEW row \in Row
    PROVE  Apply(r, row).item.edits \subseteq
               row.item.edits \cup r.row.item.edits
               \cup (IF r.op = "UpdateItem" THEN {r.at} ELSE {})
<1>1. Absent.item.edits = {}
  BY DEF Absent, NoItem, NewItem
<1>2. Updated(row, r.at).item.edits = row.item.edits \cup {r.at}
  BY DEF Updated, Row, Item
<1>3. QED
  BY <1>1, <1>2 DEF Apply

LEMMA RequestTypes ==
    ASSUME TypeOK, NEW r \in InUse
    PROVE  /\ r \in Request /\ r.key \in Key /\ r.at \in Nat /\ r.row \in Row
           /\ r.row.item \in Item /\ r.cond \in Conditions
<1>1. r \in Request
  BY DEF InUse, TypeOK, Message
<1>2. QED
  BY <1>1 DEF Request, Row

\* Serving a request in terms of the edits.
LEMMA ServeEdits ==
    ASSUME TypeOK, NEW m \in net, ServeWrite(m) \/ ServeRead(m)
    PROVE  /\ \A k \in Key : table'[k].item.edits \subseteq
                  table[k].item.edits \cup m.req.row.item.edits
                  \cup (IF m.req.op = "UpdateItem" THEN {m.req.at} ELSE {})
           /\ \A d \in Callers :
                  \/ answer'[d] = answer[d]
                  \/ answer'[d].row.item.edits = {}
                  \/ \E k \in Key : answer'[d].row.item.edits
                        \in {table'[k].item.edits, replica[k].item.edits}
<1>1. m \in Message /\ m.req \in Request /\ m.req.key \in Key
  BY DEF TypeOK, Message, Request
<1>2. Absent.item.edits = {}
  BY DEF Absent, NoItem, NewItem
<1> DEFINE new == Apply(m.req, table[m.req.key])
<1>3. new.item.edits \subseteq table[m.req.key].item.edits \cup m.req.row.item.edits
          \cup (IF m.req.op = "UpdateItem" THEN {m.req.at} ELSE {})
  BY <1>1, ApplyEdits DEF TypeOK
<1>4. CASE ServeWrite(m) /\ Holds(m.req.cond, table[m.req.key])
  <2>1. \A k \in Key : table'[k] = IF k = m.req.key THEN new ELSE table[k]
    BY <1>1, <1>4 DEF ServeWrite, TypeOK
  <2>2. Respond(m, "ok", new)
    BY <1>4 DEF ServeWrite
  <2> HIDE DEF new
  <2>3. \A d \in Callers : answer'[d] \in {answer[d], [code |-> "ok", row |-> new]}
    BY <2>2 DEF Respond, TypeOK
  <2>4. QED
    BY <1>1, <1>3, <2>1, <2>3
<1>5. CASE ServeWrite(m) /\ ~Holds(m.req.cond, table[m.req.key])
  <2>1. table' = table /\ Respond(m, "condfail", Absent)
    BY <1>5 DEF ServeWrite
  <2>2. \A d \in Callers :
            answer'[d] \in {answer[d], [code |-> "condfail", row |-> Absent]}
    BY <2>1 DEF Respond, TypeOK
  <2>3. QED
    BY <1>2, <2>1, <2>2
<1>6. CASE ServeRead(m)
  <2>1. PICK seen \in {table[m.req.key], replica[m.req.key]} :
            Respond(m, "ok", seen)
    BY <1>6 DEF ServeRead
  <2>2. \A d \in Callers : answer'[d] \in {answer[d], [code |-> "ok", row |-> seen]}
    BY <2>1 DEF Respond, TypeOK
  <2>3. table' = table
    BY <1>6 DEF ServeRead
  <2>4. QED
    BY <1>1, <2>1, <2>2, <2>3
<1>7. QED
  BY <1>4, <1>5, <1>6

LEMMA TimeInit == Init => TimeInv
<1> SUFFICES ASSUME Init PROVE TimeInv
  OBVIOUS
<1>1. Absent.item.edits = {} /\ NoItem.edits = {}
  BY DEF Absent, NoItem, NewItem
<1>2. \A r \in InUse : \E c \in Callers : r = NoRequest(c)
  BY DEF Init, InUse
<1>3. \A c \in Callers : /\ NoRequest(c).at = 0 /\ NoRequest(c).op = "none"
                         /\ NoRequest(c).row = Absent
  BY DEF NoRequest
<1>4. QED
  BY <1>1, <1>2, <1>3 DEF Init, TimeInv, NoAnswer, Writes

LEMMA TimeStep == TypeOK /\ TimeInv /\ [Next]_vars => TimeInv'
<1> SUFFICES ASSUME TypeOK, TimeInv, [Next]_vars PROVE TimeInv'
  OBVIOUS
<1>0. clock \in Nat /\ Absent.item.edits = {} /\ NoItem.edits = {}
  BY CrudAssumption DEF TypeOK, Absent, NoItem, NewItem
<1>a. ASSUME NEW S, S \subseteq 1..clock, NEW n \in {clock, clock + 1}
      PROVE  S \subseteq 1..n /\ S \cup {clock + 1} \subseteq 1..(clock + 1)
  BY <1>0, <1>a
<1>1. ASSUME NEW c \in Callers, NEW r, Begins(c, r) PROVE TimeInv'
  <2>1. InUse' \subseteq InUse \cup {r} /\ r \in Request
    BY <1>1, InUseSteps DEF Begins
  <2>2. clock' \in {clock, clock + 1}
    BY <1>1 DEF Begins
  <2>3. r.row.item.edits \subseteq 1..clock'
    BY <1>0, <1>1, <1>a DEF Begins, TimeInv
  <2>4. UNCHANGED <<table, replica>>
    BY <1>1 DEF Begins, Send
  <2>5. \A d \in Callers : /\ held'[d] \in {held[d], r.row.item}
                           /\ answer'[d] \in {answer[d], NoAnswer}
    BY <1>1 DEF Begins, Send, TypeOK
  <2>6. r.at <= clock' /\ (r.at # 0 => r.at = clock + 1) /\ (r.op \in Writes => r.at # 0)
    BY <1>0, <1>1 DEF Begins, Writes
  <2>7. \A q \in InUse : q.at <= clock /\ q.at \in Nat
    BY RequestTypes DEF TimeInv
  <2>8. \A q \in InUse' : /\ q.at <= clock'
                          /\ q.row.item.edits \subseteq 1..clock'
                          /\ q.op \in Writes => q.at # 0
    BY <1>0, <1>a, <2>1, <2>2, <2>3, <2>6, <2>7 DEF TimeInv
  <2>9. \A q, s \in InUse' : q.at = s.at /\ q.at # 0 => q = s
    BY <1>0, <2>1, <2>6, <2>7 DEF TimeInv
  <2>10. \A k \in Key : /\ table[k].item.edits \subseteq 1..clock'
                        /\ replica[k].item.edits \subseteq 1..clock'
    BY <1>a, <2>2 DEF TimeInv
  <2>11. \A d \in Callers : /\ held'[d].edits \subseteq 1..clock'
                            /\ answer'[d].row.item.edits \subseteq 1..clock'
    BY <1>0, <1>a, <2>2, <2>3, <2>5 DEF TimeInv, NoAnswer
  <2>12. QED
    BY <2>4, <2>8, <2>9, <2>10, <2>11 DEF TimeInv
<1>2. ASSUME NEW c \in Callers, NEW h, Ends(c, h) PROVE TimeInv'
  <2>1. InUse' \subseteq InUse \cup {NoRequest(c)}
    BY <1>2, InUseSteps
  <2>2. clock' \in {clock, clock + 1} /\ UNCHANGED <<table, replica>>
    BY <1>2 DEF Ends
  <2>3. h.edits \subseteq 1..clock'
    BY <1>0, <1>2, <1>a DEF Ends, TimeInv
  <2>4. \A d \in Callers : /\ held'[d] \in {held[d], h}
                           /\ answer'[d] \in {answer[d], NoAnswer}
    BY <1>2 DEF Ends, TypeOK
  <2>5. /\ NoRequest(c).at = 0 /\ NoRequest(c).row = Absent
        /\ NoRequest(c).op \notin Writes
    BY DEF NoRequest, Writes
  <2>6. \A q \in InUse : q.at <= clock /\ q.at \in Nat
    BY RequestTypes DEF TimeInv
  <2>7. \A q \in InUse' : /\ q.at <= clock'
                          /\ q.row.item.edits \subseteq 1..clock'
                          /\ q.op \in Writes => q.at # 0
    BY <1>0, <1>a, <2>1, <2>2, <2>5, <2>6 DEF TimeInv
  <2>8. \A q, s \in InUse' : q.at = s.at /\ q.at # 0 => q = s
    BY <2>1, <2>5 DEF TimeInv
  <2>9. \A k \in Key : /\ table[k].item.edits \subseteq 1..clock'
                       /\ replica[k].item.edits \subseteq 1..clock'
    BY <1>a, <2>2 DEF TimeInv
  <2>10. \A d \in Callers : /\ held'[d].edits \subseteq 1..clock'
                            /\ answer'[d].row.item.edits \subseteq 1..clock'
    BY <1>0, <1>a, <2>2, <2>3, <2>4 DEF TimeInv, NoAnswer
  <2>11. QED
    BY <2>2, <2>7, <2>8, <2>9, <2>10 DEF TimeInv
<1>3. ASSUME NEW c \in Callers, Resend(c) PROVE TimeInv'
  <2>1. InUse' \subseteq InUse /\ UNCHANGED <<table, replica, clock, held>>
    BY <1>3, InUseSteps DEF Resend
  <2>2. \A d \in Callers : answer'[d] \in {answer[d], NoAnswer}
    BY <1>3 DEF Resend, TypeOK
  <2>3. QED
    BY <1>0, <2>1, <2>2 DEF TimeInv, NoAnswer
<1>4. ASSUME NEW m \in net, ServeWrite(m) \/ ServeRead(m) PROVE TimeInv'
  <2>1. InUse' \subseteq InUse /\ m.req \in InUse
    <3>1. m.req.from \in Callers
      BY DEF TypeOK, Message, Request
    <3>2. QED
      BY <1>4, <3>1, InUseSteps
  <2>2. UNCHANGED <<replica, clock, held>>
    BY <1>4 DEF ServeWrite, ServeRead
  <2>3. m.req.op = "UpdateItem" => m.req.at \in 1..clock
    BY <1>0, <2>1, RequestTypes DEF TimeInv, Writes
  <2>4. m.req.row.item.edits \subseteq 1..clock
    BY <2>1 DEF TimeInv
  <2>5. \A k \in Key : table'[k].item.edits \subseteq 1..clock
    BY <1>4, <2>3, <2>4, ServeEdits DEF TimeInv
  <2>6. \A d \in Callers : answer'[d].row.item.edits \subseteq 1..clock
    BY <1>4, <2>5, ServeEdits DEF TimeInv
  <2>7. QED
    BY <2>1, <2>2, <2>5, <2>6 DEF TimeInv
<1>5. ASSUME NEW k \in Ids, Replicate(k) PROVE TimeInv'
  <2>1. /\ UNCHANGED <<table, net, clock, held, req, answer>>
        /\ \A j \in Key : replica'[j] \in {replica[j], table[j]}
    BY <1>5 DEF Replicate, callVars, TypeOK
  <2>2. InUse' = InUse
    BY <2>1 DEF InUse
  <2>3. QED
    BY <2>1, <2>2 DEF TimeInv
<1>6. CASE UNCHANGED vars
  <2>1. InUse' = InUse
    BY <1>6 DEF InUse, vars, callVars
  <2>2. QED
    BY <1>6, <2>1 DEF TimeInv, vars, callVars
<1>7. QED
  BY <1>1, <1>2, <1>3, <1>4, <1>5, <1>6, Shapes

LEMMA LockInit == Init => LockInv
  BY DEF Init, LockInv, NoRequest, Refused, OnItsWay

LEMMA LockStep == TypeOK /\ TimeInv /\ LockInv /\ [Next]_vars => LockInv'
<1> SUFFICES ASSUME TypeOK, TimeInv, LockInv, [Next]_vars PROVE LockInv'
  OBVIOUS
<1> DEFINE Claim(d) ==
        /\ req[d].from = d
        /\ \A m \in net : m.req = req[d] /\ req[d].at # 0 => m.try <= tries[d]
        /\ Refused(d) => ~OnItsWay(d)
        /\ Refused(d) \/ OnItsWay(d) => Hidden(d)
<1>0. /\ clock \in Nat /\ Absent.item.edits = {} /\ NoItem.edits = {}
      /\ NoAnswer.code = "none" /\ NoAnswer.row = Absent
      /\ \A c \in Callers : /\ NoRequest(c).at = 0 /\ NoRequest(c).row = Absent
                            /\ NoRequest(c).from = c
  BY CrudAssumption DEF TypeOK, Absent, NoItem, NewItem, NoAnswer, NoRequest
<1>a. ASSUME NEW d \in Callers
      PROVE  /\ req[d] \in InUse /\ req[d].at \in Nat /\ req[d].at <= clock
             /\ tries[d] \in Nat
  <2>1. req[d] \in InUse
    BY DEF InUse
  <2>2. QED
    BY <2>1, RequestTypes, CrudAssumption DEF TimeInv, TypeOK
<1>b. \A q \in InUse : q.at <= clock /\ q.at \in Nat
  BY RequestTypes DEF TimeInv
<1>1. ASSUME NEW c \in Callers, NEW r, Begins(c, r), NEW d \in Callers
      PROVE  Claim(d)'
  <2>1. /\ InUse' \subseteq InUse \cup {r} /\ r \in Request /\ r.from = c
        /\ r.at # 0 => r.at = clock + 1
    BY <1>1, InUseSteps DEF Begins
  <2>2. /\ UNCHANGED <<table, replica>> /\ net' = net \cup {Attempt(r, 1)}
        /\ \A x \in Callers : answer'[x] \in {answer[x], NoAnswer}
        /\ \A x \in Callers \ {c} : held'[x] = held[x]
        /\ held'[c] \in {held[c], r.row.item}
    BY <1>1 DEF Begins, Send, TypeOK
  <2>3. Attempt(r, 1).req = r /\ Attempt(r, 1).try = 1
    BY DEF Attempt
  <2>4. r.row.item.edits \subseteq held[c].edits \cup {clock + 1}
    BY <1>1 DEF Begins
  <2>5. CASE d = c
    <3>1. /\ req'[d] = r /\ tries'[d] = 1 /\ status'[d] = "pending"
          /\ answer'[d] = NoAnswer
      BY <1>1, <2>5 DEF Begins, Send, TypeOK
    <3>2. ~Refused(d)'
      BY <1>0, <3>1 DEF Refused, Pending
    <3>3. \A m \in net' : m.req = r /\ r.at # 0 => m.try <= 1
      <4>1. \A m \in net : m.req \in InUse
        BY DEF InUse
      <4>2. QED
        BY <1>0, <1>b, <2>1, <2>2, <2>3, <4>1
    <3>4. OnItsWay(d)' => Hidden(d)'
      <4>1. SUFFICES ASSUME r.at = clock + 1 PROVE Hidden(d)'
        BY <2>1, <3>1 DEF OnItsWay
      <4>2. \A S : S \subseteq 1..clock => r.at \notin S
        BY <1>0, <4>1
      <4>3. \A k \in Key : r.at \notin table[k].item.edits \cup replica[k].item.edits
        BY <4>2 DEF TimeInv
      <4>4. \A x \in Callers : r.at \notin answer'[x].row.item.edits
        BY <1>0, <2>2, <4>2 DEF TimeInv
      <4>5. \A x \in Callers \ {d} : r.at \notin held'[x].edits
        BY <2>2, <2>5, <4>2 DEF TimeInv
      <4>6. \A q \in InUse' \ {r} : r.at \notin q.row.item.edits
        BY <2>1, <4>2 DEF TimeInv
      <4>7. QED
        BY <2>2, <3>1, <4>3, <4>4, <4>5, <4>6 DEF Hidden
    <3>5. QED
      BY <2>1, <2>5, <3>1, <3>2, <3>3, <3>4
  <2>6. CASE d # c
    <3>1. /\ req'[d] = req[d] /\ tries'[d] = tries[d] /\ status'[d] = status[d]
          /\ answer'[d] = answer[d]
      BY <1>1, <2>6 DEF Begins, Send, TypeOK
    <3>2. r # req[d]
      BY <2>1, <2>6 DEF LockInv
    <3>3. Refused(d)' <=> Refused(d)
      BY <3>1 DEF Refused, Pending
    <3>4. OnItsWay(d)' => OnItsWay(d)
      <4>1. Attempt(req[d], 1).req = req[d]
        BY DEF Attempt
      <4>2. QED
        BY <2>2, <2>3, <3>1, <3>2, <4>1 DEF OnItsWay
    <3>5. \A m \in net' : m.req = req[d] /\ req[d].at # 0 => m.try <= tries[d]
      BY <2>2, <2>3, <3>2 DEF LockInv
    <3>6. Hidden(d) => Hidden(d)'
      <4>1. SUFFICES ASSUME Hidden(d) PROVE Hidden(d)'
        OBVIOUS
      <4>2. req[d].at \notin held[c].edits \cup {clock + 1}
        BY <1>0, <1>a, <2>6, <4>1 DEF Hidden
      <4>3. req[d].at \notin r.row.item.edits
        BY <2>4, <4>2
      <4>4. \A x \in Callers : req[d].at \notin answer'[x].row.item.edits
        BY <1>0, <2>2, <4>1 DEF Hidden
      <4>5. \A x \in Callers \ {d} : req[d].at \notin held'[x].edits
        BY <2>2, <4>1, <4>2, <4>3 DEF Hidden
      <4>6. \A q \in InUse' \ {req[d]} : req[d].at \notin q.row.item.edits
        BY <2>1, <4>1, <4>3 DEF Hidden
      <4>7. QED
        BY <2>2, <3>1, <4>1, <4>4, <4>5, <4>6 DEF Hidden
    <3>7. QED
      BY <3>1, <3>3, <3>4, <3>5, <3>6 DEF LockInv
  <2>7. QED
    BY <2>5, <2>6
<1>2. ASSUME NEW c \in Callers, NEW h, Ends(c, h), NEW d \in Callers
      PROVE  Claim(d)'
  <2>1. InUse' \subseteq InUse \cup {NoRequest(c)}
    BY <1>2, InUseSteps
  <2>2. /\ UNCHANGED <<table, replica>> /\ net' \subseteq net
        /\ \A x \in Callers : answer'[x] \in {answer[x], NoAnswer}
        /\ \A x \in Callers \ {c} : held'[x] = held[x]
        /\ held'[c] = h
    BY <1>2 DEF Ends, TypeOK
  <2>3. Hidden(d) /\ req'[d] = req[d] => Hidden(d)'
    <3>1. SUFFICES ASSUME Hidden(d), req'[d] = req[d] PROVE Hidden(d)'
      OBVIOUS
    <3>2. c # d => req[d].at \notin h.edits
      BY <1>0, <1>2, <1>a, <3>1 DEF Ends, Hidden
    <3>3. \A x \in Callers : req[d].at \notin answer'[x].row.item.edits
      BY <1>0, <2>2, <3>1 DEF Hidden
    <3>4. \A x \in Callers \ {d} : req[d].at \notin held'[x].edits
      BY <2>2, <3>1, <3>2 DEF Hidden
    <3>5. \A q \in InUse' \ {req[d]} : req[d].at \notin q.row.item.edits
      BY <1>0, <2>1, <3>1 DEF Hidden
    <3>6. QED
      BY <2>2, <3>1, <3>3, <3>4, <3>5 DEF Hidden
  <2>4. CASE req'[d] = NoRequest(d)
    BY <1>0, <2>4 DEF Refused, OnItsWay
  <2>5. CASE req'[d] = req[d] /\ tries'[d] = tries[d]
    <3>1. Refused(d)' => Refused(d)
      <4>1. \/ status'[d] = status[d] /\ answer'[d] \in {answer[d], NoAnswer}
            \/ /\ status'[d] \in Results
               /\ status'[d] = "lock" => Pending(d) /\ answer[d].code = "condfail"
        BY <1>2 DEF Ends, TypeOK
      <4>2. QED
        BY <1>0, <2>5, <4>1 DEF Refused, Pending, Results
    <3>2. OnItsWay(d)' => OnItsWay(d)
      BY <2>2, <2>5 DEF OnItsWay
    <3>3. QED
      BY <2>2, <2>3, <2>5, <3>1, <3>2 DEF LockInv
  <2>6. QED
    BY <1>2, <2>4, <2>5 DEF Ends, TypeOK
<1>3. ASSUME NEW c \in Callers, Resend(c), NEW d \in Callers PROVE Claim(d)'
  <2> DEFINE a == Attempt(req[c], tries[c] + 1)
  <2>1. /\ InUse' \subseteq InUse /\ UNCHANGED <<table, replica, held, status, req>>
        /\ \A x \in Callers : answer'[x] \in {answer[x], NoAnswer}
        /\ net' = net \cup {a}
        /\ tries'[d] = IF d = c THEN tries[c] + 1 ELSE tries[d]
    BY <1>3, InUseSteps DEF Resend, TypeOK
  <2>2. a.req = req[c] /\ a.try = tries[c] + 1 /\ tries[c] \in Nat \ {0}
    BY CrudAssumption DEF Attempt, TypeOK
  <2> HIDE DEF a
  <2>3. \A m \in net' : m.req = req[d] /\ req[d].at # 0 => m.try <= tries'[d]
    <3>1. \A m \in net : m.try \in Nat
      BY CrudAssumption DEF TypeOK, Message
    <3>2. a.req = req[d] => d = c
      BY <2>2 DEF LockInv
    <3>3. \A m \in net : m.req = req[d] /\ req[d].at # 0 => m.try <= tries[d]
      BY DEF LockInv
    <3>4. tries[d] \in Nat
      BY <1>a
    <3>5. QED
      BY <2>1, <2>2, <3>1, <3>2, <3>3, <3>4
  <2>4. OnItsWay(d)' => OnItsWay(d) /\ d # c
    <3>1. Attempt(req[d], 1).try = 1
      BY DEF Attempt
    <3>2. QED
      BY <2>1, <2>2, <3>1 DEF OnItsWay
  <2>5. Refused(d)' => Refused(d) /\ d # c
    BY <1>0, <2>1, <2>2 DEF Refused, Pending
  <2>6. Hidden(d) => Hidden(d)'
    BY <1>0, <2>1 DEF Hidden
  <2>7. QED
    BY <2>1, <2>3, <2>4, <2>5, <2>6 DEF LockInv
<1>4. ASSUME NEW m \in net, ServeWrite(m) \/ ServeRead(m), NEW d \in Callers
      PROVE  Claim(d)'
  <2>1. InUse' \subseteq InUse /\ m.req \in InUse
    BY <1>4, InUseSteps
  <2>2. /\ UNCHANGED <<replica, held, status, req, tries>> /\ net' = net \ {m}
    BY <1>4 DEF ServeWrite, ServeRead
  <2>3. \A n \in net' : n.req = req[d] /\ req[d].at # 0 => n.try <= tries[d]
    BY <2>2 DEF LockInv
  <2>4. OnItsWay(d)' => OnItsWay(d)
    BY <2>2 DEF OnItsWay
  <2>5. PICK code, row : /\ Respond(m, code, row)
                         /\ code = "condfail" => table' = table /\ row = Absent
    BY <1>4 DEF ServeWrite, ServeRead
  <2>6. \A x \in Callers :
            answer'[x] = IF Awaited(m) /\ m.req.from = x
                         THEN [code |-> code, row |-> row] ELSE answer[x]
    BY <2>5 DEF Respond, TypeOK
  <2>7. CASE req[d].at = 0
    BY <2>2, <2>7 DEF Refused, OnItsWay, LockInv
  <2>8. CASE req[d].at # 0 /\ m.req # req[d]
    <3>1. answer'[d] = answer[d]
      BY <2>6, <2>8 DEF Awaited
    <3>2. Refused(d)' => Refused(d)
      BY <2>2, <3>1 DEF Refused, Pending
    <3>3. Hidden(d) => Hidden(d)'
      <4>1. SUFFICES ASSUME Hidden(d) PROVE Hidden(d)'
        OBVIOUS
      <4>2. m.req.at # req[d].at
        BY <1>a, <2>1, <2>8 DEF TimeInv
      <4>3. req[d].at \notin m.req.row.item.edits
        BY <2>1, <2>8, <4>1 DEF Hidden
      <4>4. \A k \in Key : req[d].at \notin table'[k].item.edits
        BY <1>4, <4>1, <4>2, <4>3, ServeEdits DEF Hidden
      <4>5. \A x \in Callers : req[d].at \notin answer'[x].row.item.edits
        BY <1>4, <4>1, <4>4, ServeEdits DEF Hidden
      <4>6. QED
        BY <2>1, <2>2, <4>1, <4>4, <4>5 DEF Hidden
    <3>4. QED
      BY <2>2, <2>3, <2>4, <3>2, <3>3 DEF LockInv
  <2>9. CASE req[d].at # 0 /\ m.req = req[d]
    <3>1. CASE tries[d] # 1
      BY <2>2, <2>3, <3>1 DEF Refused, OnItsWay, LockInv
    <3>2. CASE tries[d] = 1
      <4>1. m = Attempt(req[d], 1)
        <5>1. m.try <= 1 /\ m.try \in 1..MaxSends /\ m \in Message
          BY <2>9, <3>2 DEF LockInv, TypeOK, Message
        <5>2. m.try = 1
          BY <5>1, CrudAssumption
        <5>3. QED
          BY <2>9, <5>1, <5>2 DEF Attempt, Message
      <4>2. OnItsWay(d) /\ ~OnItsWay(d)'
        BY <2>2, <2>9, <3>2, <4>1 DEF OnItsWay
      <4>3. Hidden(d) /\ ~Refused(d)
        BY <4>2 DEF LockInv
      <4>4. ASSUME Refused(d)' PROVE Hidden(d)'
        <5>1. code = "condfail" /\ Awaited(m)
          BY <2>2, <2>6, <4>3, <4>4 DEF Refused, Pending
        <5>2. table' = table /\ row = Absent
          BY <2>5, <5>1
        <5>3. \A x \in Callers : req[d].at \notin answer'[x].row.item.edits
          BY <1>0, <2>6, <4>3, <5>2 DEF Hidden
        <5>4. QED
          BY <2>1, <2>2, <4>3, <5>2, <5>3 DEF Hidden
      <4>5. QED
        BY <2>2, <2>3, <4>2, <4>4 DEF LockInv
    <3>3. QED
      BY <3>1, <3>2
  <2>10. QED
    BY <2>7, <2>8, <2>9
<1>5. ASSUME NEW k \in Ids, Replicate(k), NEW d \in Callers PROVE Claim(d)'
  <2>1. /\ UNCHANGED <<table, net, held, status, req, tries, answer>>
        /\ \A j \in Key : replica'[j] \in {replica[j], table[j]}
    BY <1>5 DEF Replicate, callVars, TypeOK
  <2>2. InUse' = InUse
    BY <2>1 DEF InUse
  <2>3. Hidden(d) => Hidden(d)'
    BY <2>1, <2>2 DEF Hidden
  <2>4. QED
    BY <2>1, <2>3 DEF LockInv, Refused, OnItsWay, Pending
<1>6. ASSUME UNCHANGED vars, NEW d \in Callers PROVE Claim(d)'
  <2>1. InUse' = InUse
    BY <1>6 DEF InUse, vars, callVars
  <2>2. Hidden(d) => Hidden(d)'
    BY <1>6, <2>1 DEF Hidden, vars, callVars
  <2>3. QED
    BY <1>6, <2>2 DEF LockInv, Refused, OnItsWay, Pending, vars, callVars
<1>7. \A d \in Callers : Claim(d)'
  BY <1>1, <1>2, <1>3, <1>4, <1>5, <1>6, Shapes
<1>8. QED
  BY <1>7 DEF LockInv

\* However it is called, ErrOptimisticLock for a write that was sent once
\* means that the write is not in the row (crud.go 80-85, 206-209).
THEOREM LockErrors == Spec => []LockErrorTruthful
<1>1. Init => TypeOK /\ TimeInv /\ LockInv
  BY TypeInit, TimeInit, LockInit
<1>2. TypeOK /\ TimeInv /\ LockInv /\ [Next]_vars => (TypeOK /\ TimeInv /\ LockInv)'
  BY TypeStep, TimeStep, LockStep
<1>3. TypeOK /\ TimeInv /\ LockInv => LockErrorTruthful
  <2> SUFFICES ASSUME TypeOK, TimeInv, LockInv, NEW c \in Callers,
                      status[c] = "lock", tries[c] = 1
               PROVE  req[c].at \notin ItemAt(req[c].key).edits
    BY DEF LockErrorTruthful
  <2>1. req[c].key \in Key
    BY DEF TypeOK, Request
  <2>2. CASE req[c].at = 0
    BY <2>1, <2>2, CrudAssumption DEF TimeInv, ItemAt, TypeOK
  <2>3. CASE req[c].at # 0
    BY <2>1, <2>3 DEF LockInv, Refused, Hidden, ItemAt
  <2>4. QED
    BY <2>2, <2>3
<1>4. QED
  BY <1>1, <1>2, <1>3, PTL DEF Spec

-----------------------------------------------------------------------------
(* Versions count up, whatever operations are used. *)

LEMMA VersionInit == Init => VersionInv
  BY TypeInit DEF Init, VersionInv, InUse, NoRequest, NextVersion

LEMMA VersionStep == VersionInv /\ [Next]_vars => VersionInv'
<1> SUFFICES ASSUME VersionInv, [Next]_vars PROVE VersionInv'
  OBVIOUS
<1>0. TypeOK /\ TypeOK' /\ \A r \in InUse : NextVersion(r)
  BY TypeStep DEF VersionInv
<1>1. ASSUME NEW c \in Callers, NEW r, Begins(c, r)
      PROVE  \A q \in InUse' : NextVersion(q)
  <2>1. InUse' \subseteq InUse \cup {r} /\ NextVersion(r)
    BY <1>0, <1>1, InUseSteps DEF Begins
  <2>2. QED
    BY <1>0, <2>1
<1>2. ASSUME NEW c \in Callers, NEW h, Ends(c, h)
      PROVE  \A q \in InUse' : NextVersion(q)
  <2>1. InUse' \subseteq InUse \cup {NoRequest(c)}
    BY <1>0, <1>2, InUseSteps
  <2>2. NextVersion(NoRequest(c))
    BY DEF NextVersion, NoRequest
  <2>3. QED
    BY <1>0, <2>1, <2>2
<1>3. ASSUME InUse' \subseteq InUse PROVE \A q \in InUse' : NextVersion(q)
  BY <1>0, <1>3
<1>4. ASSUME NEW c \in Callers, Resend(c) PROVE InUse' \subseteq InUse
  BY <1>0, <1>4, InUseSteps
<1>5. ASSUME NEW m \in net, ServeWrite(m) \/ ServeRead(m)
      PROVE  InUse' \subseteq InUse
  BY <1>5 DEF ServeWrite, ServeRead, InUse
<1>6. ASSUME (\E k \in Ids : Replicate(k)) \/ UNCHANGED vars
      PROVE  InUse' \subseteq InUse
  BY <1>6 DEF Replicate, InUse, vars, callVars
<1>7. \A q \in InUse' : NextVersion(q)
  BY <1>0, <1>1, <1>2, <1>3, <1>4, <1>5, <1>6, Shapes
<1>8. QED
  BY <1>0, <1>7 DEF VersionInv

\* Every Put carries the version after the one it expects (crud.go 119-149).
THEOREM VersionInvariance == Spec => []VersionInv
  BY VersionInit, VersionStep, PTL DEF Spec

\* A write that is applied leaves no row, or one whose version is the next.
LEMMA ApplyVersion ==
    ASSUME NEW r \in Request, NEW row \in Row, NextVersion(r), Holds(r.cond, row),
           Exists(Apply(r, row)), Apply(r, row) # row
    PROVE  Apply(r, row).item.version = row.item.version + 1
<1>1. /\ row.item \in Item /\ row.item.version \in Nat
      /\ Absent.item.version = 0
  BY DEF Row, Item, Absent, NoItem, NewItem
<1>2. CASE r.op = "PutItem"
  BY <1>1, <1>2 DEF Apply, NextVersion, Holds, Exists
<1>3. CASE r.op = "UpdateItem"
  BY <1>1, <1>3 DEF Apply, Updated, Row, Item
<1>4. QED
  BY <1>2, <1>3 DEF Apply, Exists

LEMMA StepVersions ==
    ASSUME VersionInv, [Next]_vars, NEW k \in Key,
           Exists(table'[k]), table'[k].item # table[k].item
    PROVE  table'[k].item.version = table[k].item.version + 1
<1>1. TypeOK /\ \A r \in InUse : NextVersion(r)
  BY DEF VersionInv
<1>2. PICK m \in net : ServeWrite(m)
  <2>1. \A c \in Callers : \A r : Begins(c, r) => table' = table
    BY DEF Begins, Send
  <2>2. QED
    BY <1>1, <2>1, Shapes DEF Ends, Resend, ServeRead, Replicate, vars
<1>3. /\ m.req \in Request /\ m.req.key \in Key /\ NextVersion(m.req)
      /\ table[m.req.key] \in Row
  BY <1>1 DEF InUse, TypeOK, Message, Request
<1>4. /\ Holds(m.req.cond, table[m.req.key]) /\ m.req.key = k
      /\ table'[k] = Apply(m.req, table[k])
  BY <1>1, <1>2, <1>3 DEF ServeWrite, TypeOK
<1>5. QED
  BY <1>3, <1>4, ApplyVersion

\* Each change of a row moves it to the next version and a new row starts at
\* the first, also among deletes, unconditional updates and items that are
\* used again after a failed Put (crud.go 140-149, 377-380).
THEOREM VersionsCount == Spec => VersionSteps
<1>1. VersionInv /\ [Next]_vars =>
          \A k \in Key : Exists(table'[k]) /\ table'[k].item # table[k].item
              => table'[k].item.version = table[k].item.version + 1
  BY StepVersions
<1>2. QED
  BY <1>1, VersionInvariance, PTL DEF Spec, VersionSteps

-----------------------------------------------------------------------------
(* Every row is whole. *)

LEMMA WholeInit == Init => WholeInv
<1> SUFFICES ASSUME Init PROVE WholeInv
  OBVIOUS
<1>1. \A r \in InUse : \E c \in Callers : r = NoRequest(c)
  BY DEF Init, InUse
<1>2. \A c \in Callers : WholeRequest(NoRequest(c))
  BY DEF NoRequest, WholeRequest
<1>3. QED
  BY <1>1, <1>2 DEF Init, WholeInv, NoAnswer, Absent, WholeCopy, Exists

\* A served write leaves a whole row, or none.
LEMMA ApplyWhole ==
    ASSUME NEW r \in Request, NEW row \in Row, NEW k \in Key, r.key = k,
           Exists(row) => Whole(row.item) /\ row.item.id = k,
           WholeRequest(r), Holds(r.cond, row),
           Exists(Apply(r, row))
    PROVE  Whole(Apply(r, row).item) /\ Apply(r, row).item.id = k
<1>1. CASE r.op = "PutItem"
  BY <1>1 DEF Apply, WholeRequest
<1>2. CASE r.op = "UpdateItem"
  <2>1. Exists(row)
    BY <1>2 DEF WholeRequest, Holds
  <2>2. /\ Updated(row, r.at).item.typ = row.item.typ
        /\ Updated(row, r.at).item.created = row.item.created
        /\ Updated(row, r.at).item.id = row.item.id
    BY DEF Updated, Row, Item
  <2>3. QED
    BY <1>2, <2>1, <2>2 DEF Apply, Whole, IsNew
<1>3. CASE r.op \notin {"PutItem", "UpdateItem"}
  BY <1>3 DEF Apply, Exists
<1>4. QED
  BY <1>1, <1>2, <1>3

LEMMA WholeStep ==
    ASSUME "update" \notin Ops, TypeOK, WholeInv, [Next]_vars
    PROVE  WholeInv'
<1>0. WholeCopy(NoItem) /\ Absent.item = NoItem /\ NoAnswer.row = Absent
  BY DEF WholeCopy, Absent, NoAnswer
<1>a. \A c \in Callers : WholeRequest(NoRequest(c))
  BY DEF NoRequest, WholeRequest
<1>b. \A k \in Key : WholeCopy(table[k].item)
  BY <1>0 DEF WholeInv, WholeCopy, ItemAt, Exists
<1>1. ASSUME NEW c \in Callers, NEW r, Begins(c, r) PROVE WholeInv'
  <2>1. InUse' \subseteq InUse \cup {r} /\ WholeRequest(r)
    BY <1>1, InUseSteps DEF Begins, WholeInv
  <2>2. held'[c] = IF r.op = "PutItem" THEN r.row.item ELSE held[c]
    BY <1>1 DEF Begins, TypeOK
  <2>3. \A d \in Callers : /\ d # c => held'[d] = held[d]
                           /\ answer'[d] \in {answer[d], NoAnswer}
    BY <1>1 DEF Begins, Send, TypeOK
  <2>4. \A d \in Callers : WholeCopy(held'[d]) /\ WholeCopy(answer'[d].row.item)
    BY <1>0, <2>1, <2>2, <2>3 DEF WholeInv, WholeRequest, WholeCopy
  <2>5. UNCHANGED <<table, replica>>
    BY <1>1 DEF Begins, Send
  <2>6. QED
    BY <2>1, <2>4, <2>5 DEF WholeInv, ItemAt
<1>2. ASSUME NEW c \in Callers, NEW h, Ends(c, h) PROVE WholeInv'
  <2>1. InUse' \subseteq InUse \cup {NoRequest(c)}
    BY <1>2, InUseSteps
  <2>2. WholeCopy(h)
    BY <1>0, <1>2 DEF Ends, WholeInv
  <2>3. /\ UNCHANGED <<table, replica>>
        /\ \A d \in Callers : /\ held'[d] \in {held[d], h}
                              /\ answer'[d] \in {answer[d], NoAnswer}
    BY <1>2 DEF Ends, TypeOK
  <2>4. QED
    BY <1>0, <1>a, <2>1, <2>2, <2>3 DEF WholeInv, ItemAt
<1>3. ASSUME NEW c \in Callers, Resend(c) PROVE WholeInv'
  <2>1. InUse' \subseteq InUse /\ UNCHANGED <<table, replica, held>>
    BY <1>3, InUseSteps DEF Resend
  <2>2. \A d \in Callers : answer'[d] \in {answer[d], NoAnswer}
    BY <1>3 DEF Resend, TypeOK
  <2>3. QED
    BY <1>0, <2>1, <2>2 DEF WholeInv, ItemAt
<1>4. ASSUME NEW m \in net, ServeWrite(m) PROVE WholeInv'
  <2> DEFINE r == m.req
             new == Apply(r, table[r.key])
  <2>1. InUse' \subseteq InUse /\ r \in InUse /\ r.from \in Callers
    BY <1>4, InUseSteps DEF TypeOK, Message, Request
  <2>2. r \in Request /\ r.key \in Key /\ table[r.key] \in Row
    BY <2>1, RequestTypes DEF TypeOK
  <2>3. UNCHANGED <<replica, held>>
    BY <1>4 DEF ServeWrite
  <2>4. CASE Holds(r.cond, table[r.key])
    <3>1. Exists(new) => Whole(new.item) /\ new.item.id = r.key
      BY <2>1, <2>2, <2>4, ApplyWhole DEF WholeInv, ItemAt
    <3>2. \A k \in Key : table'[k] = IF k = r.key THEN new ELSE table[k]
      BY <1>4, <2>2, <2>4 DEF ServeWrite, TypeOK
    <3>3. Respond(m, "ok", new)
      BY <1>4, <2>4 DEF ServeWrite
    <3> HIDE DEF new
    <3>4. WholeCopy(new.item)
      BY <1>0, <3>1 DEF WholeCopy, Exists
    <3>5. \A d \in Callers : answer'[d].row \in {answer[d].row, new}
      BY <3>3 DEF Respond, TypeOK
    <3>6. QED
      BY <2>1, <2>3, <3>1, <3>2, <3>4, <3>5 DEF WholeInv, ItemAt
  <2>5. CASE ~Holds(r.cond, table[r.key])
    <3>1. table' = table /\ Respond(m, "condfail", Absent)
      BY <1>4, <2>5 DEF ServeWrite
    <3>2. \A d \in Callers : answer'[d].row \in {answer[d].row, Absent}
      BY <3>1 DEF Respond, TypeOK
    <3>3. QED
      BY <1>0, <2>1, <2>3, <3>1, <3>2 DEF WholeInv, ItemAt
  <2>6. QED
    BY <2>4, <2>5
<1>5. ASSUME NEW m \in net, ServeRead(m) PROVE WholeInv'
  <2>1. InUse' \subseteq InUse /\ m.req.key \in Key
    BY <1>5, InUseSteps DEF TypeOK, Message, Request
  <2>2. PICK seen \in {table[m.req.key], replica[m.req.key]} :
            Respond(m, "ok", seen)
    BY <1>5 DEF ServeRead
  <2>3. WholeCopy(seen.item)
    BY <1>b, <2>1, <2>2 DEF WholeInv
  <2>4. \A d \in Callers : answer'[d].row \in {answer[d].row, seen}
    BY <2>2 DEF Respond, TypeOK
  <2>5. UNCHANGED <<table, replica, held>>
    BY <1>5 DEF ServeRead
  <2>6. QED
    BY <2>1, <2>3, <2>4, <2>5 DEF WholeInv, ItemAt
<1>6. ASSUME NEW k \in Ids, Replicate(k) PROVE WholeInv'
  <2>1. /\ UNCHANGED <<table, net, held, req, answer>>
        /\ \A j \in Key : replica'[j] \in {replica[j], table[j]}
    BY <1>6 DEF Replicate, callVars, TypeOK
  <2>2. InUse' = InUse
    BY <2>1 DEF InUse
  <2>3. QED
    BY <1>b, <2>1, <2>2 DEF WholeInv, ItemAt
<1>7. CASE UNCHANGED vars
  <2>1. InUse' = InUse
    BY <1>7 DEF InUse, vars, callVars
  <2>2. QED
    BY <1>7, <2>1 DEF WholeInv, ItemAt, vars, callVars
<1>8. QED
  BY <1>1, <1>2, <1>3, <1>4, <1>5, <1>6, <1>7, Shapes

\* If no update is unconditional, every stored row has its ID, its type and
\* its creation time, deletes and reused items included (crud.go 119-164).
THEOREM RowsAreWhole == ASSUME "update" \notin Ops PROVE Spec => []WholeRows
<1>1. Init => TypeOK /\ WholeInv
  BY TypeInit, WholeInit
<1>2. TypeOK /\ WholeInv /\ [Next]_vars => TypeOK' /\ WholeInv'
  BY TypeStep, WholeStep
<1>3. WholeInv => WholeRows
  BY DEF WholeInv, WholeRows, Whole, IsNew
<1>4. QED
  BY <1>1, <1>2, <1>3, PTL DEF Spec

-----------------------------------------------------------------------------
(* The rows are registers that change atomically. *)

\* A write that takes effect adds its own change, which was not there, to all
\* those in the row, and its condition does not hold again.
LEMMA ServeAppends ==
    ASSUME CrudInv, NEW m \in net, ServeWrite(m), table' # table
    PROVE  /\ m.req.op \in Writes /\ m.req.key \in Key
           /\ m.req.at \in 1..MaxClock
           /\ m.req.at \notin table[m.req.key].item.edits
           /\ table' = [table EXCEPT ![m.req.key] = Apply(m.req, @)]
           /\ Exists(table'[m.req.key])
           /\ table'[m.req.key].item.version = table[m.req.key].item.version + 1
           /\ table'[m.req.key].item.edits
                  = table[m.req.key].item.edits \cup {m.req.at}
           /\ m.req.cond.kind = "version"
                  => m.req.cond.version = table[m.req.key].item.version
<1> DEFINE r == m.req
           row == table[r.key]
           new == Apply(r, row)
<1>1. /\ r \in InUse /\ r \in Request /\ r.key \in Key /\ r.at \in Nat
      /\ RequestInv(table, r) /\ WholeRequest(r) /\ row \in Row
  <2>1. r \in InUse
    BY DEF InUse
  <2>2. QED
    BY <2>1, RequestTypes DEF CrudInv, IInv, NetInv, WholeInv, TypeOK
<1>2. /\ Holds(r.cond, row)
      /\ table' = [table EXCEPT ![r.key] = Apply(r, @)]
      /\ r.op # "GetItem"
  BY DEF ServeWrite
<1>3. r.op # "none"
  <2>1. r.op = "none" => Apply(r, row) = row
    BY DEF Apply
  <2>2. r.op = "none" => table' = table
    BY <1>1, <1>2, <2>1 DEF CrudInv, IInv, TypeOK
  <2>3. QED
    BY <2>2
<1>4. r.op \in Writes
  BY <1>1, <1>2, <1>3 DEF Request, RequestInv, Writes
<1>5. r.at \in 1..MaxClock
  BY <1>1, <1>4, CrudAssumption DEF CrudInv, IInv, TypeOK, TimeInv
<1>6. table'[r.key] = new
  BY <1>1, <1>2 DEF CrudInv, IInv, TypeOK
<1>7. Advances(row, new)
  BY <1>1, <1>2, <1>4, ApplyAdvances DEF CrudInv, IInv
<1>8. r.cond.kind # "none"
  BY <1>1, <1>4 DEF WholeRequest, RequestInv, Writes
<1>9. r.cond.kind = "version" => Exists(row) /\ r.cond.version = row.item.version
  BY <1>2 DEF Holds
<1>10. new.item.edits = row.item.edits \cup {r.at}
  <2>1. CASE r.op = "UpdateItem"
    <3>1. new = Updated(row, r.at)
      BY <2>1 DEF Apply
    <3>2. Updated(row, r.at).item.edits = row.item.edits \cup {r.at}
      BY <1>1 DEF Updated, Row, Item
    <3>3. QED
      BY <3>1, <3>2
  <2>2. CASE r.op = "PutItem" /\ r.cond.kind = "absent"
    <3>1. row = Absent /\ Absent.item.edits = {}
      BY <1>2, <2>2 DEF Holds, Exists, Absent, NoItem, NewItem
    <3>2. new = r.row
      BY <2>2 DEF Apply
    <3>3. QED
      BY <1>1, <2>2, <3>1, <3>2 DEF WholeRequest
  <2>3. CASE r.op = "PutItem" /\ r.cond.kind = "version"
    <3>1. new = r.row
      BY <2>3 DEF Apply
    <3>2. QED
      BY <1>1, <1>9, <2>3, <3>1 DEF RequestInv, Extends
  <2>4. QED
    BY <1>1, <1>4, <2>1, <2>2, <2>3 DEF RequestInv, Writes
<1>11. r.at \notin row.item.edits
  <2>1. SUFFICES ASSUME r.at \in row.item.edits PROVE FALSE
    OBVIOUS
  <2>2. Spent(table, r)
    BY <1>1, <1>4, <2>1 DEF CrudInv, OnceInv, ItemAt
  <2>3. row.item.version \in Nat
    BY <1>1 DEF Row, Item
  <2>4. QED
    BY <1>2, <1>8, <1>9, <2>2, <2>3 DEF Spent, Holds
<1>12. QED
  BY <1>1, <1>2, <1>4, <1>5, <1>6, <1>7, <1>9, <1>10, <1>11 DEF Advances

LEMMA OnceInit == Init => OnceInv
<1> SUFFICES ASSUME Init PROVE OnceInv
  OBVIOUS
<1>1. \A r \in InUse : \E c \in Callers : r = NoRequest(c)
  BY DEF Init, InUse
<1>2. QED
  BY <1>1 DEF OnceInv, NoRequest, Writes

LEMMA OnceStep == CrudInv /\ TypeOK' /\ [Next]_vars => OnceInv'
<1> SUFFICES ASSUME CrudInv, TypeOK', [Next]_vars PROVE OnceInv'
  OBVIOUS
<1>0. TypeOK /\ clock \in Nat
  BY CrudAssumption DEF CrudInv, IInv, TypeOK
<1>1. ASSUME NEW c \in Callers, NEW r, Begins(c, r) PROVE OnceInv'
  <2>1. InUse' \subseteq InUse \cup {r} /\ table' = table
    BY <1>0, <1>1, InUseSteps DEF Begins, Send
  <2>2. r.op \in Writes => r.at = clock + 1
    BY <1>1 DEF Begins, Writes
  <2>3. r.key \in Key
    BY <1>1 DEF Begins, Request
  <2>4. r.op \in Writes => r.at \notin ItemAt(r.key).edits
    BY <1>0, <2>2, <2>3 DEF CrudInv, TimeInv, ItemAt
  <2>5. QED
    BY <2>1, <2>4 DEF CrudInv, OnceInv, ItemAt
<1>2. ASSUME NEW c \in Callers, NEW h, Ends(c, h) PROVE OnceInv'
  <2>1. InUse' \subseteq InUse \cup {NoRequest(c)} /\ table' = table
    BY <1>0, <1>2, InUseSteps DEF Ends
  <2>2. NoRequest(c).op \notin Writes
    BY DEF NoRequest, Writes
  <2>3. QED
    BY <2>1, <2>2 DEF CrudInv, OnceInv, ItemAt
<1>3. ASSUME InUse' \subseteq InUse, table' = table PROVE OnceInv'
  BY <1>3 DEF CrudInv, OnceInv, ItemAt
<1>4. ASSUME NEW m \in net, ServeWrite(m), table' # table PROVE OnceInv'
  <2> DEFINE r == m.req
  <2>1. InUse' \subseteq InUse /\ r \in InUse
    <3>1. r.from \in Callers
      BY <1>0 DEF TypeOK, Message, Request
    <3>2. QED
      BY <1>0, <1>4, <3>1, InUseSteps
  <2>2. /\ r.op \in Writes /\ r.key \in Key
        /\ Exists(table'[r.key])
        /\ table'[r.key].item.version = table[r.key].item.version + 1
        /\ table'[r.key].item.edits = table[r.key].item.edits \cup {r.at}
        /\ r.cond.kind = "version" => r.cond.version = table[r.key].item.version
    BY <1>4, ServeAppends
  <2>3. \A k \in Key \ {r.key} : table'[k] = table[k]
    BY <1>0, <1>4, ServeAppends DEF TypeOK
  <2>4. table[r.key].item.version \in Nat
    BY <1>0, <2>2 DEF TypeOK, Row, Item
  <2>5. ASSUME NEW q \in InUse, q.op \in Writes, q.at \in table'[q.key].item.edits
        PROVE  Spent(table', q)
    <3>1. q.key \in Key /\ q.cond.version \in Nat /\ q.at # 0
      <4>1. q \in Request
        BY <1>0, RequestTypes
      <4>2. QED
        BY <2>5, <4>1 DEF Request, Conditions, CrudInv, TimeInv
    <3>2. CASE q.key # r.key
      BY <2>3, <2>5, <3>1, <3>2 DEF CrudInv, OnceInv, ItemAt, Spent
    <3>3. CASE q = r
      BY <2>2, <2>4, <3>3 DEF Spent
    <3>4. CASE q.key = r.key /\ q # r
      <4>1. q.at # r.at
        BY <2>1, <3>1, <3>4 DEF CrudInv, TimeInv
      <4>2. Spent(table, q)
        BY <2>2, <2>5, <3>4, <4>1 DEF CrudInv, OnceInv, ItemAt
      <4>3. QED
        BY <2>2, <2>4, <3>1, <3>4, <4>2 DEF Spent
    <3>5. QED
      BY <3>2, <3>3, <3>4
  <2>6. QED
    BY <2>1, <2>5 DEF OnceInv, ItemAt
<1>5. ASSUME NEW m \in net, ServeWrite(m) \/ ServeRead(m) PROVE OnceInv'
  <2>1. InUse' \subseteq InUse
    <3>1. m.req.from \in Callers
      BY <1>0 DEF TypeOK, Message, Request
    <3>2. QED
      BY <1>0, <1>5, <3>1, InUseSteps
  <2>2. QED
    BY <1>3, <1>4, <1>5, <2>1 DEF ServeRead
<1>6. ASSUME NEW c \in Callers, Resend(c) PROVE OnceInv'
  BY <1>0, <1>3, <1>6, InUseSteps DEF Resend
<1>7. ASSUME (\E k \in Ids : Replicate(k)) \/ UNCHANGED vars PROVE OnceInv'
  <2>1. UNCHANGED <<table, net, req>>
    BY <1>7 DEF Replicate, vars, callVars
  <2>2. InUse' = InUse
    BY <2>1 DEF InUse
  <2>3. QED
    BY <1>3, <2>1, <2>2
<1>8. QED
  BY <1>0, <1>1, <1>2, <1>5, <1>6, <1>7, Shapes

\* A step of the package and the table is a write of one item, or changes
\* nothing that VersionedItem shows.
LEMMA StepIsWrite ==
    ASSUME CrudInv, TypeOK', [Next]_vars
    PROVE  \/ \E k \in Key, e \in 1..MaxClock : Log!Write(k, e)
           \/ table' = table
<1> SUFFICES ASSUME table' # table
             PROVE  \E k \in Key, e \in 1..MaxClock : Log!Write(k, e)
  OBVIOUS
<1>0. TypeOK
  BY DEF CrudInv, IInv
<1>1. PICK m \in net : ServeWrite(m)
  BY <1>0, Shapes DEF Begins, Send, Ends, Resend, ServeRead, Replicate, vars
<1> DEFINE r == m.req
           k == r.key
           old == table[k].item
           new == table'[k].item
<1>2. /\ k \in Key /\ r.at \in 1..MaxClock /\ r.at \notin old.edits
      /\ new.version = old.version + 1
      /\ new.edits = old.edits \cup {r.at}
  BY <1>1, ServeAppends
<1>3. \A j \in Key \ {k} : table'[j] = table[j]
  BY <1>0, <1>1, ServeAppends DEF TypeOK
<1>4. Log!Write(k, r.at)
  BY <1>2, <1>3 DEF Log!Write, ItemAt
<1>5. QED
  BY <1>2, <1>4

\* Together the invariants are inductive.
LEMMA CrudInvInit == Init => CrudInv /\ TypeOK
  BY TypeInit, IInvInit, TimeInit, LockInit, WholeInit, OnceInit DEF CrudInv

LEMMA CrudInvStep ==
    ASSUME VersionedUse, "update" \notin Ops, CrudInv, [Next]_vars
    PROVE  CrudInv' /\ TypeOK'
<1>1. IInv' /\ TypeOK'
  BY IInvStep DEF CrudInv, IInv
<1>2. TimeInv' /\ LockInv'
  BY TimeStep, LockStep DEF CrudInv, IInv
<1>3. WholeInv'
  BY WholeStep DEF CrudInv, IInv
<1>4. QED
  BY <1>1, <1>2, <1>3, OnceStep DEF CrudInv

\* Requests, responses, the replica and the copies agree with the rows; times
\* name requests; refused writes are seen nowhere; rows are whole; and a write
\* that is in its row does not meet its condition again.
THEOREM Agreement ==
    ASSUME VersionedUse, "update" \notin Ops
    PROVE  Spec => []CrudInv
  BY CrudInvInit, CrudInvStep, PTL DEF Spec

\* For callers that write with a version only, an item is a register that is
\* read, changed and written in one atomic step, whatever is stale, resent,
\* delayed or served after its call has returned (crud.go 136-149, 377-380).
THEOREM RowsAreRegisters ==
    ASSUME VersionedUse, "update" \notin Ops
    PROVE  Spec => ImplementsVersionedItem
<1>1. Init => Log!Init
  BY DEF Init, Log!Init, Log!Never, ItemAt, Absent, NoItem, NewItem
<1>2. CrudInv /\ TypeOK' /\ [Next]_vars
          => [Log!Next]_([k \in Key |-> [version |-> ItemAt(k).version,
                                        edits   |-> ItemAt(k).edits]])
  BY StepIsWrite DEF Log!Next, ItemAt
<1>3. QED
  BY <1>1, <1>2, CrudInvInit, CrudInvStep, PTL
     DEF Spec, ImplementsVersionedItem, Log!Spec

-----------------------------------------------------------------------------
(* Items are created, edited and deleted. *)

\* A row stays, advances, or goes away; only a create lets one appear.
Follows(old, new) ==
    new = old \/ ~Exists(new) \/ (Exists(old) /\ Advances(old, new))

LEMMA BehindKept ==
    ASSUME NEW rows \in Rows, NEW next \in Rows, NEW item \in Item,
           Behind(rows, item), Follows(rows[item.id], next[item.id])
    PROVE  Behind(next, item)
<1>1. item.id \in Key /\ item.version \in Nat
  BY DEF Item, Key
<1>2. CASE next[item.id] = rows[item.id]
  BY <1>2 DEF Behind, Synced
<1>3. CASE Exists(rows[item.id]) /\ Advances(rows[item.id], next[item.id])
  <2>1. SUFFICES ASSUME ~IsNew(item) PROVE Synced(next, item)
    BY DEF Behind
  <2>2. Synced(rows, item)
    BY <1>3, <2>1 DEF Behind
  <2>3. item.version < next[item.id].item.version
    BY <1>1, <1>3, <2>2, RowTypes DEF Advances, Synced
  <2>4. QED
    BY <1>1, <1>3, <2>3, RowTypes DEF Advances, Synced
<1>4. QED
  BY <1>2, <1>3 DEF Follows, Behind

\* The row a conditional Put expects, as it was or behind.
Expects(rows, r) == Exists(rows[r.key]) => Extends(rows, r)

LEMMA ExpectsKept ==
    ASSUME NEW rows \in Rows, NEW next \in Rows, NEW r \in Request,
           Expects(rows, r), Follows(rows[r.key], next[r.key])
    PROVE  Expects(next, r)
<1>1. r.key \in Key /\ r.cond.version \in Nat
  BY DEF Request, Conditions
<1>2. CASE next[r.key] = rows[r.key]
  BY <1>2 DEF Expects, Extends
<1>3. CASE Exists(rows[r.key]) /\ Advances(rows[r.key], next[r.key])
  <2>1. Extends(rows, r)
    BY <1>3 DEF Expects
  <2>2. r.cond.version < next[r.key].item.version
    BY <1>1, <1>3, <2>1, RowTypes DEF Advances, Extends
  <2>3. QED
    BY <1>1, <1>3, <2>1, <2>2, RowTypes DEF Advances, Extends, Expects
<1>4. QED
  BY <1>2, <1>3 DEF Follows, Expects

\* What the parts of UuidInv that hold anyway say here.
LEMMA UuidFacts ==
    ASSUME UuidUse, UuidInv
    PROVE  /\ TypeOK /\ table \in Rows
           /\ \A k \in Key : Exists(table[k]) => /\ Whole(table[k].item)
                                                 /\ table[k].item.id = k
           /\ \A k \in Key : Behind(table, table[k].item)
           /\ \A c \in Callers : /\ WholeCopy(held[c]) /\ req[c].from = c
                                 /\ tries[c] = 1
           /\ \A m, n \in net : m.req = n.req => m = n
           /\ \A m \in net : /\ m.req \in Request /\ m.req.key \in Key
                             /\ m.req.from \in Callers /\ m.try = 1
                             /\ WholeRequest(m.req) /\ NextVersion(m.req)
<1>1. TypeOK /\ table \in Rows
  BY DEF UuidInv, VersionInv, TypeOK, Rows
<1>2. ASSUME NEW k \in Key, Exists(table[k])
      PROVE  Whole(table[k].item) /\ table[k].item.id = k
  BY <1>2 DEF UuidInv, WholeInv, ItemAt
<1>3. ASSUME NEW k \in Key PROVE Behind(table, table[k].item)
  <2>1. CASE Exists(table[k])
    BY <1>1, <1>2, <2>1, RowTypes DEF Behind, Synced
  <2>2. CASE ~Exists(table[k])
    BY <2>2 DEF Exists, Absent, NoItem, NewItem, Behind, IsNew
  <2>3. QED
    BY <2>1, <2>2
<1>4. ASSUME NEW c \in Callers
      PROVE  WholeCopy(held[c]) /\ req[c].from = c /\ tries[c] = 1
  BY <1>1 DEF UuidInv, WholeInv, LockInv, TypeOK, UuidUse
<1>5. ASSUME NEW m \in net
      PROVE  /\ m \in Message /\ m.req \in Request /\ m.req.key \in Key
             /\ m.req.from \in Callers /\ m.try = 1
             /\ WholeRequest(m.req) /\ NextVersion(m.req)
  <2>1. m \in Message /\ m.req \in InUse
    BY <1>1 DEF TypeOK, InUse
  <2>2. m.req \in Request /\ m.try = 1
    BY <2>1 DEF Message, UuidUse
  <2>3. QED
    BY <2>1, <2>2 DEF Request, UuidInv, WholeInv, VersionInv
<1>6. ASSUME NEW m \in net, NEW n \in net, m.req = n.req PROVE m = n
  BY <1>5, <1>6 DEF Message
<1>7. QED
  BY <1>1, <1>2, <1>3, <1>4, <1>5, <1>6

\* A served request leaves each row as it was or lets it follow, but for a
\* create; and it answers at most its own caller.
LEMMA ServeFollows ==
    ASSUME UuidUse, UuidInv, NEW m \in net, ServeWrite(m)
    PROVE  /\ \A k \in Key : \/ Follows(table[k], table'[k])
                             \/ Creates(m.req) /\ k = m.req.key
           /\ \A k \in Key : Exists(table'[k])
                  => Exists(table[k]) \/ (Creates(m.req) /\ k = m.req.key)
           /\ Creates(m.req) /\ table' # table => ~Exists(table[m.req.key])
           /\ \A d \in Callers :
                 \/ answer'[d] = answer[d]
                 \/ /\ d = m.req.from /\ req[d] = m.req
                    /\ answer'[d].row \in {Absent, table'[m.req.key]}
                    /\ SendsPut(d) /\ answer'[d].code = "ok"
                           => answer'[d].row = m.req.row
<1> DEFINE r   == m.req
           row == table[r.key]
           new == Apply(r, row)
<1>1. /\ TypeOK /\ r \in Request /\ r.key \in Key /\ row \in Row
      /\ WholeRequest(r) /\ NextVersion(r) /\ table \in Rows
  BY UuidFacts DEF TypeOK
<1>2. CASE ~Holds(r.cond, row)
  <2>1. table' = table /\ Respond(m, "condfail", Absent)
    BY <1>2 DEF ServeWrite
  <2>2. QED
    BY <1>1, <2>1 DEF Respond, Awaited, TypeOK, Follows
<1>3. CASE Holds(r.cond, row)
  <2>1. /\ table' = [table EXCEPT ![r.key] = new]
        /\ Respond(m, "ok", new)
    BY <1>3 DEF ServeWrite
  <2>2. /\ table'[r.key] = new
        /\ \A k \in Key : k # r.key => table'[k] = table[k]
    BY <1>1, <2>1 DEF TypeOK
  <2>3. Creates(r) => row = Absent
    BY <1>3 DEF Holds, Creates, Exists
  <2>4. Creates(r) \/ (Follows(row, new) /\ (Exists(new) => Exists(row)))
    <3>1. CASE r.op = "PutItem" /\ ~Creates(r)
      <4>1. r.cond.kind = "version" /\ Exists(row)
        BY <1>1, <1>3, <3>1 DEF Creates, NextVersion, Holds
      <4>2. Extends(table, r) /\ r.cond.version = row.item.version
        BY <1>3, <3>1, <4>1 DEF Holds, UuidInv, BehindInv
      <4>3. new = r.row /\ Whole(r.row.item)
        BY <1>1, <3>1 DEF Apply, WholeRequest
      <4>4. Exists(r.row)
        BY <4>3 DEF Exists, Absent, NoItem, NewItem, Whole, IsNew
      <4>5. Advances(row, new)
        BY <1>1, <4>2, <4>3, <4>4 DEF Advances, Extends, Row, Item
      <4>6. QED
        BY <4>1, <4>5 DEF Follows
    <3>2. CASE r.op = "UpdateItem"
      <4>1. Exists(row) /\ new = Updated(row, r.at)
        BY <1>1, <1>3, <3>2 DEF WholeRequest, Holds, Apply
      <4>2. Whole(row.item)
        BY <1>1, <4>1, UuidFacts
      <4>3. /\ Updated(row, r.at).item.version = row.item.version + 1
            /\ Updated(row, r.at).item.edits = row.item.edits \cup {r.at}
            /\ Updated(row, r.at).item.created = row.item.created
        BY <1>1 DEF Updated, Row, Item
      <4>4. Exists(Updated(row, r.at))
        BY <4>2, <4>3 DEF Exists, Absent, NoItem, NewItem, Whole, IsNew
      <4>5. QED
        BY <4>1, <4>3, <4>4 DEF Advances, Follows
    <3>3. CASE r.op \notin {"PutItem", "UpdateItem"}
      BY <3>3 DEF Apply, Follows, Exists
    <3>4. QED
      BY <3>1, <3>2, <3>3 DEF Creates
  <2>5. \A d \in Callers :
           \/ answer'[d] = answer[d]
           \/ /\ d = r.from /\ req[d] = r
              /\ answer'[d] = [code |-> "ok", row |-> new]
    BY <1>1, <2>1 DEF Respond, Awaited, TypeOK
  <2>6. \A d \in Callers : req[d] = r /\ SendsPut(d) => new = r.row
    BY DEF SendsPut, Apply
  <2> HIDE DEF new
  <2>7. QED
    BY <1>1, <2>2, <2>3, <2>4, <2>5, <2>6 DEF Follows, Exists
<1>4. QED
  BY <1>2, <1>3

LEMMA NothingNew ==
    /\ IsNew(NoItem) /\ NoItem.id = NoId /\ Absent.item = NoItem
    /\ NoAnswer.row = Absent /\ NoAnswer.code = "none"
    /\ \A rows : Behind(rows, NoItem)
  BY DEF IsNew, NoItem, NewItem, Absent, NoAnswer, Behind

LEMMA UuidInit == Init => BehindInv /\ CreateInv
<1> SUFFICES ASSUME Init PROVE BehindInv /\ CreateInv
  OBVIOUS
<1>1. \A c \in Callers : ~SendsPut(c)
  BY DEF Init, SendsPut, Pending
<1>2. QED
  BY <1>1, NothingNew DEF Init, BehindInv, CreateInv

\* The table serves a write.
LEMMA ServeWriteUuid ==
    ASSUME UuidUse, UuidInv, TypeOK', NEW m \in net, ServeWrite(m)
    PROVE  BehindInv' /\ CreateInv'
<1> DEFINE made == Creates(m.req) /\ table' # table
<1>1. /\ UNCHANGED <<replica, held, status, req>> /\ net' = net \ {m}
      /\ \A c \in Callers : SendsPut(c)' = SendsPut(c)
  BY DEF ServeWrite, SendsPut, Pending
<1>2. /\ TypeOK /\ table \in Rows /\ table' \in Rows /\ m.req.key \in Key
  BY UuidFacts DEF TypeOK, Rows
<1>3. \A k \in Key : Follows(table[k], table'[k]) \/ (made /\ k = m.req.key)
  BY ServeFollows DEF Follows
<1>4. made => /\ m.req.key # NoId
              /\ \A k \in Key : replica[k].item.id # m.req.key
              /\ \A c \in Callers : /\ answer[c].row.item.id # m.req.key
                                    /\ held[c].id = m.req.key => SendsPut(c)
              /\ \A n \in net : n.req.op = "PutItem" /\ n.req.key = m.req.key => n = m
  BY DEF UuidInv, CreateInv, Creates, SendsPut
\* A copy that is no create of this item's stays behind its row.
<1>5. ASSUME NEW item \in Item, Behind(table, item), made => item.id # m.req.key
      PROVE  Behind(table', item)
  <2>1. item.id \in Key
    BY DEF Item, Key
  <2>2. Follows(table[item.id], table'[item.id])
    BY <1>3, <1>5, <2>1
  <2>3. QED
    BY <1>2, <1>5, <2>2, BehindKept
\* The row at the key is a copy of itself.
<1>6. /\ Behind(table', table'[m.req.key].item)
      /\ Exists(table'[m.req.key]) => table'[m.req.key].item.id = m.req.key
  <2>1. "update" \notin Ops /\ WholeInv
    BY DEF UuidUse, UuidInv
  <2>2. Next
    BY DEF Next
  <2>3. WholeInv'
    BY <1>2, <2>1, <2>2, WholeStep
  <2>4. Exists(table'[m.req.key]) => table'[m.req.key].item.id = m.req.key
    BY <1>2, <2>3 DEF WholeInv, ItemAt
  <2>5. Behind(table', table'[m.req.key].item)
    BY <1>2, <2>4, NothingNew, RowTypes DEF Behind, Synced, Exists
  <2>6. QED
    BY <2>4, <2>5
<1>7. BehindInv'
  <2>1. ASSUME NEW k \in Key
        PROVE  Behind(table', replica[k].item) /\ (replica[k] = Absent \/ replica[k].item.id = k)
    <3>1. replica[k].item \in Item
      BY <1>2 DEF TypeOK, Row
    <3>2. QED
      BY <1>4, <1>5, <3>1 DEF UuidInv, BehindInv
  <2>2. ASSUME NEW c \in Callers PROVE Behind(table', answer'[c].row.item)
    <3>1. answer[c].row.item \in Item /\ Behind(table, answer[c].row.item)
      BY <1>2 DEF TypeOK, Answers, Row, UuidInv, BehindInv
    <3>2. CASE answer'[c] = answer[c]
      BY <1>4, <1>5, <3>1, <3>2
    <3>3. CASE answer'[c].row \in {Absent, table'[m.req.key]}
      BY <1>6, <3>3, NothingNew
    <3>4. QED
      BY <3>2, <3>3, ServeFollows
  <2>3. ASSUME NEW c \in Callers
        PROVE  IF SendsPut(c) THEN held[c] = req[c].row.item ELSE Behind(table', held[c])
    <3>1. held[c] \in Item
      BY <1>2 DEF TypeOK
    <3>2. QED
      BY <1>4, <1>5, <3>1 DEF UuidInv, BehindInv
  <2>4. ASSUME NEW c \in Callers, SendsPut(c)
        PROVE  /\ answer'[c].code = "ok" => answer'[c].row = req[c].row
               /\ answer'[c].code # "none" => \A n \in net' : n.req # req[c]
    <3>1. CASE answer'[c] = answer[c]
      BY <1>1, <2>4, <3>1 DEF UuidInv, BehindInv
    <3>2. CASE /\ req[c] = m.req
               /\ answer'[c].code = "ok" => answer'[c].row = m.req.row
      <4>1. \A n \in net' : n.req # m.req
        BY <1>1, UuidFacts
      <4>2. QED
        BY <3>2, <4>1
    <3>3. QED
      BY <2>4, <3>1, <3>2, ServeFollows
  <2>5. ASSUME NEW n \in net', n.req.op = "PutItem", n.req.cond.kind = "version"
        PROVE  Exists(table'[n.req.key]) => Extends(table', n.req)
    <3>1. n \in net /\ n # m /\ n.req \in Request /\ n.req.key \in Key
      BY <1>1, UuidFacts
    <3>2. Expects(table, n.req)
      BY <2>5, <3>1 DEF UuidInv, BehindInv, Expects
    <3>3. Follows(table[n.req.key], table'[n.req.key])
      BY <1>3, <1>4, <2>5, <3>1
    <3>4. QED
      BY <1>2, <3>1, <3>2, <3>3, ExpectsKept DEF Expects
  <2>6. QED
    BY <1>1, <2>1, <2>2, <2>3, <2>4, <2>5 DEF BehindInv
<1>8. CreateInv'
  <2> SUFFICES ASSUME NEW n \in net', Creates(n.req)
               PROVE  /\ n.req.key # NoId /\ ~Exists(table'[n.req.key])
                      /\ \A k \in Key : replica[k].item.id # n.req.key
                      /\ \A c \in Callers :
                            /\ answer'[c].row.item.id # n.req.key
                            /\ held[c].id = n.req.key => Pending(c) /\ req[c] = n.req
                      /\ \A o \in net' : o.req.op = "PutItem" /\ o.req.key = n.req.key
                                             => o = n
    BY <1>1 DEF CreateInv, Pending
  <2>1. n \in net /\ n # m /\ n.req.key \in Key
    BY <1>1, UuidFacts
  <2>2. /\ n.req.key # NoId /\ ~Exists(table[n.req.key])
        /\ \A k \in Key : replica[k].item.id # n.req.key
        /\ \A c \in Callers :
              /\ answer[c].row.item.id # n.req.key
              /\ held[c].id = n.req.key => Pending(c) /\ req[c] = n.req
        /\ \A o \in net : o.req.op = "PutItem" /\ o.req.key = n.req.key => o = n
    BY <2>1 DEF UuidInv, CreateInv
  <2>3. ~(Creates(m.req) /\ n.req.key = m.req.key)
    BY <2>1, <2>2 DEF Creates
  <2>4. ~Exists(table'[n.req.key])
    BY <2>1, <2>2, <2>3, ServeFollows
  <2>5. ASSUME NEW c \in Callers PROVE answer'[c].row.item.id # n.req.key
    <3>1. CASE answer'[c] = answer[c]
      BY <2>2, <3>1
    <3>2. CASE answer'[c].row = Absent
      BY <2>2, <3>2, NothingNew
    <3>3. CASE answer'[c].row = table'[m.req.key] /\ Exists(table'[m.req.key])
      BY <1>6, <2>4, <3>3
    <3>4. QED
      BY <3>1, <3>2, <3>3, ServeFollows DEF Exists
  <2>6. QED
    BY <1>1, <2>2, <2>4, <2>5
<1>9. QED
  BY <1>7, <1>8

\* The table serves a read, or a replica catches up.
LEMMA ServeReadUuid ==
    ASSUME UuidUse, UuidInv, NEW m \in net, ServeRead(m)
    PROVE  BehindInv' /\ CreateInv'
<1>1. /\ UNCHANGED <<table, replica, held, status, req>> /\ net' \subseteq net
      /\ \A c \in Callers : SendsPut(c)' = SendsPut(c)
  BY DEF ServeRead, SendsPut, Pending
<1>2. TypeOK /\ m.req.key \in Key /\ m.req.op = "GetItem"
  BY UuidFacts DEF ServeRead
<1>3. PICK seen \in {table[m.req.key], replica[m.req.key]} : Respond(m, "ok", seen)
  BY DEF ServeRead
<1>4. \A c \in Callers : \/ answer'[c] = answer[c]
                         \/ answer'[c].row = seen /\ ~SendsPut(c)
  BY <1>2, <1>3 DEF Respond, Awaited, TypeOK, SendsPut
<1>5. Behind(table, seen.item)
  BY <1>2, <1>3, UuidFacts DEF UuidInv, BehindInv
<1>6. ASSUME NEW n \in net, Creates(n.req) PROVE seen.item.id # n.req.key
  <2>1. CASE seen = replica[m.req.key]
    BY <1>2, <1>6, <2>1 DEF UuidInv, CreateInv
  <2>2. CASE seen = table[m.req.key]
    BY <1>2, <1>6, <2>2, UuidFacts, NothingNew DEF UuidInv, CreateInv, Exists
  <2>3. QED
    BY <1>3, <2>1, <2>2
<1>7. BehindInv'
  BY <1>1, <1>4, <1>5 DEF UuidInv, BehindInv
<1>8. CreateInv'
  BY <1>1, <1>4, <1>6 DEF UuidInv, CreateInv, Pending
<1>9. QED
  BY <1>7, <1>8

LEMMA ReplicateUuid ==
    ASSUME UuidUse, UuidInv, NEW k \in Ids, Replicate(k)
    PROVE  BehindInv' /\ CreateInv'
<1>1. /\ UNCHANGED <<table, net, held, status, req, answer>> /\ k \in Key
      /\ \A c \in Callers : SendsPut(c)' = SendsPut(c)
  BY DEF Replicate, callVars, SendsPut, Pending, Key
<1>2. \A j \in Key : replica'[j] = IF j = k THEN table[k] ELSE replica[j]
  BY <1>1, UuidFacts DEF Replicate, TypeOK
<1>3. /\ Behind(table, table[k].item)
      /\ table[k] = Absent \/ table[k].item.id = k
  BY <1>1, UuidFacts DEF Exists
<1>4. ASSUME NEW n \in net, Creates(n.req) PROVE table[k].item.id # n.req.key
  BY <1>1, <1>4, UuidFacts, NothingNew DEF UuidInv, CreateInv, Exists
<1>5. BehindInv'
  BY <1>1, <1>2, <1>3 DEF UuidInv, BehindInv
<1>6. CreateInv'
  BY <1>1, <1>2, <1>4 DEF UuidInv, CreateInv, Pending
<1>7. QED
  BY <1>5, <1>6

\* A call begins.
LEMMA BeginsUuid ==
    ASSUME UuidUse, UuidInv, NEW c \in Callers, NEW r, Begins(c, r)
    PROVE  BehindInv' /\ CreateInv'
<1>1. /\ UNCHANGED <<table, replica>> /\ net' = net \cup {Attempt(r, 1)}
      /\ Attempt(r, 1).req = r /\ r \in Request /\ r.key \in Key
      /\ Idle(c) /\ r.from = c /\ ~SendsPut(c)
  BY DEF Begins, Send, Attempt, Request, Idle, SendsPut, Pending
<1>2. /\ held'[c] = IF r.op = "PutItem" THEN r.row.item ELSE held[c]
      /\ req'[c] = r /\ status'[c] = "pending" /\ answer'[c] = NoAnswer
      /\ \A d \in Callers \ {c} :
            /\ held'[d] = held[d] /\ req'[d] = req[d] /\ answer'[d] = answer[d]
            /\ status'[d] = status[d]
  BY UuidFacts DEF Begins, Send, TypeOK
<1>3. WholeCopy(held[c]) /\ WholeRequest(r) /\ Source(c, r) /\ Behind(table, held[c])
  BY <1>1, UuidFacts DEF Begins, UuidUse, UuidInv, BehindInv
<1>4. \A d \in Callers : /\ d # c => SendsPut(d)' = SendsPut(d)
                         /\ SendsPut(c)' = (r.op = "PutItem")
  BY <1>2 DEF SendsPut, Pending
\* What a create is for is known to nobody.
<1>5. ASSUME Creates(r)
      PROVE  /\ r.key # NoId /\ ~Exists(table[r.key])
             /\ \A k \in Key : replica[k].item.id # r.key
             /\ \A d \in Callers : r.key \notin {held[d].id, answer[d].row.item.id}
             /\ \A m \in net : m.req.key # r.key
  <2>1. r.key \in FreshIds
    BY <1>3, <1>5 DEF Source, Creates
  <2>2. r.key # NoId
    BY <2>1, NoIdAssumption DEF FreshIds
  <2>3. \A k \in Key : replica[k] = Absent \/ replica[k].item.id = k
    BY DEF UuidInv, BehindInv
  <2>4. \A k \in Key : replica[k].item.id # r.key
    BY <2>1, <2>2, <2>3, NothingNew DEF FreshIds, Exists
  <2>5. QED
    BY <2>1, <2>2, <2>4 DEF FreshIds
<1>6. ASSUME r.op = "PutItem", r.cond.kind = "version"
      PROVE  /\ Exists(table[r.key]) => Extends(table, r)
             /\ r.key = held[c].id
  <2>1. /\ Whole(held[c]) /\ r.key = held[c].id /\ r.cond.version = held[c].version
        /\ r.row.item.version = held[c].version + 1
        /\ r.row.item.edits = held[c].edits \cup {r.at}
        /\ r.row.item.created = held[c].created
    BY <1>3, <1>6 DEF Source
  <2>2. Exists(table[r.key]) => Synced(table, held[c])
    BY <1>3, <2>1 DEF Behind, Whole
  <2>3. QED
    BY <2>1, <2>2 DEF Synced, Extends
<1>7. BehindInv'
  <2>1. \A k \in Key : /\ Behind(table, replica[k].item)
                       /\ replica[k] = Absent \/ replica[k].item.id = k
    BY DEF UuidInv, BehindInv
  <2>2. ASSUME NEW d \in Callers
        PROVE  /\ Behind(table, answer'[d].row.item)
               /\ IF SendsPut(d)' THEN held'[d] = req'[d].row.item
                                  ELSE Behind(table, held'[d])
               /\ SendsPut(d)' /\ answer'[d].code = "ok" => answer'[d].row = req'[d].row
               /\ SendsPut(d)' /\ answer'[d].code # "none"
                      => \A m \in net' : m.req # req'[d]
    <3>1. CASE d = c
      BY <1>2, <1>3, <1>4, <3>1, NothingNew
    <3>2. CASE d # c
      <4>1. req[d] # r
        BY <1>1, <3>2, UuidFacts
      <4>2. QED
        BY <1>1, <1>2, <1>4, <3>2, <4>1 DEF UuidInv, BehindInv
    <3>3. QED
      BY <3>1, <3>2
  <2>3. ASSUME NEW m \in net', m.req.op = "PutItem", m.req.cond.kind = "version"
        PROVE  Exists(table[m.req.key]) => Extends(table, m.req)
    BY <1>1, <1>6, <2>3 DEF UuidInv, BehindInv
  <2>4. QED
    BY <1>1, <2>1, <2>2, <2>3 DEF BehindInv
<1>8. CreateInv'
  <2>1. \A d \in Callers : answer'[d] \in {answer[d], NoAnswer}
    BY <1>2
  <2>2. ASSUME NEW n \in net, Creates(n.req)
        PROVE  /\ \A d \in Callers : held'[d].id = n.req.key
                                        => status'[d] = "pending" /\ req'[d] = n.req
               /\ r.op = "PutItem" => r.key # n.req.key
    <3>1. held[c].id # n.req.key
      BY <1>1, <2>2 DEF UuidInv, CreateInv, Idle, Pending
    <3>2. r.op = "PutItem" => r.key # n.req.key /\ r.row.item.id = r.key
      BY <1>3, <1>5, <1>6, <3>1 DEF Source, Creates, WholeRequest
    <3>3. QED
      BY <1>2, <2>2, <3>1, <3>2 DEF UuidInv, CreateInv, Pending
  <2>3. ASSUME NEW n \in net, Creates(n.req)
        PROVE  /\ n.req.key # NoId /\ ~Exists(table[n.req.key])
               /\ \A k \in Key : replica[k].item.id # n.req.key
               /\ \A d \in Callers : answer'[d].row.item.id # n.req.key
               /\ \A o \in net' : o.req.op = "PutItem" /\ o.req.key = n.req.key => o = n
    BY <1>1, <2>1, <2>2, <2>3, NothingNew DEF UuidInv, CreateInv
  <2>4. ASSUME Creates(r)
        PROVE  /\ \A d \in Callers : /\ answer'[d].row.item.id # r.key
                                     /\ held'[d].id = r.key
                                           => status'[d] = "pending" /\ req'[d] = r
               /\ \A o \in net' : o.req.key = r.key => o = Attempt(r, 1)
    BY <1>1, <1>2, <1>5, <2>1, <2>4, NothingNew
  <2>5. QED
    BY <1>1, <1>5, <2>2, <2>3, <2>4 DEF CreateInv, Pending
<1>9. QED
  BY <1>7, <1>8

\* A call ends.
LEMMA EndsUuid ==
    ASSUME UuidUse, UuidInv, NEW c \in Callers, NEW h, Ends(c, h)
    PROVE  BehindInv' /\ CreateInv'
<1>1. /\ UNCHANGED <<table, replica>> /\ net' \subseteq net
      /\ Keeps(c, h) /\ status'[c] # "pending" /\ held'[c] = h
      /\ \A d \in Callers \ {c} :
            /\ held'[d] = held[d] /\ req'[d] = req[d] /\ status'[d] = status[d]
      /\ \A d \in Callers : answer'[d] \in {answer[d], NoAnswer}
      /\ \A d \in Callers \ {c} : answer'[d] = answer[d]
  BY UuidFacts DEF Ends, Results, UuidUse, TypeOK
<1>2. \A d \in Callers : /\ d # c => SendsPut(d)' = SendsPut(d)
                         /\ ~SendsPut(c)'
  BY <1>1 DEF SendsPut, Pending
<1>3. Behind(table, h)
  <2>1. CASE h = NoItem
    BY <2>1, NothingNew
  <2>2. CASE h = answer[c].row.item
    BY <2>2 DEF UuidInv, BehindInv
  <2>3. CASE h = held[c] /\ (SendsPut(c) => answer[c].code = "ok")
    BY <2>3 DEF UuidInv, BehindInv
  <2>4. QED
    BY <1>1, <2>1, <2>2, <2>3 DEF Keeps
<1>4. BehindInv'
  <2>1. ASSUME NEW d \in Callers
        PROVE  /\ Behind(table, answer'[d].row.item)
               /\ IF SendsPut(d)' THEN held'[d] = req'[d].row.item
                                  ELSE Behind(table, held'[d])
               /\ SendsPut(d)' /\ answer'[d].code = "ok" => answer'[d].row = req'[d].row
               /\ SendsPut(d)' /\ answer'[d].code # "none"
                      => \A m \in net' : m.req # req'[d]
    <3>1. CASE d = c
      BY <1>1, <1>2, <1>3, <3>1, NothingNew DEF UuidInv, BehindInv
    <3>2. CASE d # c
      BY <1>1, <1>2, <3>2 DEF UuidInv, BehindInv
    <3>3. QED
      BY <3>1, <3>2
  <2>2. QED
    BY <1>1, <2>1 DEF UuidInv, BehindInv
<1>5. CreateInv'
  <2>1. ASSUME NEW n \in net', Creates(n.req) PROVE h.id # n.req.key
    <3>1. /\ n \in net /\ n.req.key # NoId /\ answer[c].row.item.id # n.req.key
          /\ held[c].id = n.req.key => Pending(c) /\ req[c] = n.req
      BY <1>1, <2>1 DEF UuidInv, CreateInv
    <3>2. ~(SendsPut(c) /\ answer[c].code = "ok" /\ req[c] = n.req)
      BY <3>1 DEF UuidInv, BehindInv
    <3>3. QED
      BY <1>1, <2>1, <3>1, <3>2, NothingNew DEF Keeps, SendsPut, Creates
  <2>2. QED
    BY <1>1, <2>1, NothingNew DEF UuidInv, CreateInv, Pending
<1>6. QED
  BY <1>4, <1>5

LEMMA UuidStep ==
    ASSUME UuidUse, UuidInv, [Next]_vars
    PROVE  UuidInv'
<1>0. TypeOK /\ TypeOK'
  BY UuidFacts, TypeStep
<1>1. VersionInv' /\ TimeInv' /\ LockInv' /\ WholeInv'
  BY <1>0, VersionStep, TimeStep, LockStep, WholeStep DEF UuidInv, UuidUse
<1>2. ASSUME NEW c \in Callers, Resend(c) PROVE FALSE
  BY <1>2, UuidFacts DEF Resend, UuidUse
<1>3. ASSUME UNCHANGED vars PROVE BehindInv' /\ CreateInv'
  BY <1>3 DEF vars, callVars, UuidInv, BehindInv, CreateInv, SendsPut, Pending
<1>4. BehindInv' /\ CreateInv'
  BY <1>0, <1>2, <1>3, Shapes, BeginsUuid, EndsUuid, ServeWriteUuid, ServeReadUuid,
     ReplicateUuid
<1>5. QED
  BY <1>1, <1>4 DEF UuidInv

\* If every request is sent once and an ID is used for one item only, every
\* copy, also one that is still on its way, is behind its row or that of an
\* item that is gone (crud.go 119-149).
THEOREM UuidInvariance == ASSUME UuidUse PROVE Spec => []UuidInv
<1>1. Init => UuidInv
  BY VersionInit, TimeInit, LockInit, WholeInit, UuidInit DEF UuidInv
<1>2. UuidInv /\ [Next]_vars => UuidInv'
  BY UuidStep
<1>3. QED
  BY <1>1, <1>2, PTL DEF Spec

\* The steps that write change a row by adding to it.
LEMMA UuidForward ==
    ASSUME UuidUse, UuidInv, [Next]_vars,
           NEW k \in Key, Exists(table[k]), Exists(table'[k])
    PROVE  /\ table[k].item.edits \subseteq table'[k].item.edits
           /\ table'[k].item.created = table[k].item.created
<1>1. CASE table' = table
  BY <1>1
<1>2. ASSUME NEW m \in net, ServeWrite(m), table' # table
      PROVE  Follows(table[k], table'[k])
  BY <1>2, ServeFollows
<1>3. table' # table => \E m \in net : ServeWrite(m)
  BY UuidFacts, Shapes DEF Begins, Send, Ends, Resend, ServeRead, Replicate, vars
<1>4. QED
  BY <1>1, <1>2, <1>3 DEF Follows, Advances

\* Among deletes too, no write drops a change of the row it replaces (crud.go
\* 144-149, 380).
THEOREM NothingLostDespiteDeletes == ASSUME UuidUse PROVE Spec => NoLostEdits
<1>1. UuidInv /\ [Next]_vars
          => [\A k \in Key :
                 Exists(table[k]) /\ Exists(table'[k])
                     => table[k].item.edits \subseteq table'[k].item.edits]_vars
  BY UuidForward
<1>2. QED
  BY <1>1, UuidInvariance, PTL DEF Spec, NoLostEdits

\* Nor does it change who created the item, and when (crud.go 173-176).
THEOREM CreationStaysDespiteDeletes == ASSUME UuidUse PROVE Spec => CreationKept
<1>1. UuidInv /\ [Next]_vars
          => [\A k \in Key :
                 Exists(table[k]) /\ Exists(table'[k])
                     => table'[k].item.created = table[k].item.created]_vars
  BY UuidForward
<1>2. QED
  BY <1>1, UuidInvariance, PTL DEF Spec, CreationKept
=============================================================================
