----------------------------- MODULE CrudProps ------------------------------
(***************************************************************************)
(* What the single-item operations promise.  The properties speak of the   *)
(* rows (table), of what callers were told (status) and of the copies they *)
(* go on with (held).                                                      *)
(***************************************************************************)
EXTENDS Crud, FiniteSets

ItemAt(k) == table[k].item

\* The rows as an abstract register per key.
Log == INSTANCE VersionedItem WITH
         Keys    <- Key,
         Changes <- 1..MaxClock,
         items   <- [k \in Key |-> [version |-> ItemAt(k).version,
                                    edits   |-> ItemAt(k).edits]]

\* Callers that use versioned writes only (Put, and Update with IfVersion)
\* see every item as an atomic register: however their reads are stale, and
\* their requests resent, delayed or served after the call, each call changes
\* the row at most once and on top of all changes before it.
ImplementsVersionedItem == Log!Spec

\* A write to an existing row keeps every change that is in it: this is what
\* the Version condition of Put and IfVersion is for (crud.go 144-149, 380).
NoLostEdits ==
    [][\A k \in Key :
          Exists(table[k]) /\ Exists(table'[k])
              => table[k].item.edits \subseteq table'[k].item.edits]_vars

\* A row that changes moves to the next version, so that no two contents of
\* a row in its life share a version and a condition on it can be trusted; a
\* row that appears starts at version 1, so that no Put of an old copy brings a
\* deleted item back (crud.go 140-149, 377-380).
VersionSteps ==
    [][\A k \in Key :
          Exists(table'[k]) /\ table'[k].item # table[k].item
              => table'[k].item.version = table[k].item.version + 1]_vars

\* Who first persisted an item, and when (model.go 34-37), survives every later
\* write, although Put replaces the whole row with the caller's copy: a create
\* fails instead of silently overwriting (crud.go 173-174), and a copy of an
\* existing item carries its CreatedAt (crud.go 176).
CreationKept ==
    [][\A k \in Key :
          Exists(table[k]) /\ Exists(table'[k])
              => table'[k].item.created = table[k].item.created]_vars

\* The copy of an item a caller goes on with was the row once, and is the row
\* if the versions agree: a Put from it is safe exactly if its condition holds.
Synced(rows, item) ==
    LET row == rows[item.id]
    IN  /\ Exists(row)
        /\ item.version <= row.item.version
        /\ item.version = row.item.version => item = row.item

CopyInSync ==
    \A c \in Callers : Idle(c) /\ ~IsNew(held[c]) => Synced(table, held[c])

Writes == {"PutItem", "UpdateItem"}

\* A write whose call returned without an error is in the row, and stays
\* there whatever others write from the copies they hold.
AcknowledgedIsStored ==
    \A c \in Callers :
        status[c] = "ok" /\ req[c].op \in Writes
            => req[c].at \in ItemAt(req[c].key).edits

\* ErrOptimisticLock tells the caller that its write did not happen, provided
\* the client did not have to send it twice (crud.go 80-85).
LockErrorTruthful ==
    \A c \in Callers :
        status[c] = "lock" /\ tries[c] = 1
            => req[c].at \notin ItemAt(req[c].key).edits

\* model.go 24-37: every stored entity has its ID, its Type and the time it
\* was first persisted.
WholeRows ==
    \A k \in Key :
        Exists(table[k]) => /\ ItemAt(k).id = k
                            /\ ItemAt(k).typ = TypeName
                            /\ ItemAt(k).created # 0

\* crud.go 186-190, README 215-217: every stored item is in the type index,
\* which holds the rows with a GSI1PK.
IndexComplete ==
    \A k \in Key : Exists(table[k]) => table[k].gsi1pk = TypeName

-----------------------------------------------------------------------------
(* Why the safety properties hold, if nothing is deleted and no item is used *)
(* again after a failed Put: every copy of a row, wherever it is, was the    *)
(* row once.                                                                 *)

VersionedUse == "delete" \notin Ops /\ ~ReuseAfterError

RowSynced(rows, row) == ~IsNew(row.item) => Synced(rows, row.item)

\* The rows are where their keys say, and have a version.
TableInv ==
    \A k \in Key :
        /\ Exists(table[k]) => table[k].item.version >= 1
        /\ ~IsNew(table[k].item) => table[k].item.id = k

ReplicaInv == \A k \in Key : RowSynced(table, replica[k])

\* A conditional Put carries the successor of the row it expects.
Extends(rows, r) ==
    LET row == rows[r.key]
    IN  /\ Exists(row)
        /\ r.row.item.version = r.cond.version + 1
        /\ r.cond.version <= row.item.version
        /\ r.cond.version = row.item.version
               => /\ r.row.item.edits = row.item.edits \cup {r.at}
                  /\ r.row.item.created = row.item.created

RequestInv(rows, r) ==
    /\ r.op # "DeleteItem"
    /\ r.op = "PutItem" =>
          /\ r.row.item.id = r.key
          /\ ~IsNew(r.row.item)
          /\ r.at \in r.row.item.edits
          /\ \/ r.cond.kind = "absent" /\ r.row.item.version = 1
             \/ r.cond.kind = "version" /\ Extends(rows, r)

NetInv == \A m \in net : RequestInv(table, m.req)

\* While a Put is pending the pointer holds what it sent.
CallerInv ==
    \A c \in Callers :
        /\ Pending(c) => RequestInv(table, req[c])
        /\ IF Pending(c) /\ req[c].op = "PutItem"
           THEN held[c] = req[c].row.item
           ELSE ~IsNew(held[c]) => Synced(table, held[c])

Stored(rows, r) == Exists(rows[r.key]) /\ r.at \in rows[r.key].item.edits

AnswerInv ==
    \A c \in Callers :
        /\ Pending(c) /\ answer[c].code = "ok" =>
              /\ RowSynced(table, answer[c].row)
              /\ req[c].op = "PutItem" => answer[c].row = req[c].row
              /\ req[c].op \in Writes => Stored(table, req[c])
        /\ status[c] = "ok" /\ req[c].op \in Writes => Stored(table, req[c])

\* The inductive invariant behind NoLostEdits, CreationKept, CopyInSync and
\* AcknowledgedIsStored: requests in flight, responses, the
\* replica and the callers' copies each agree with the rows.
IInv ==
    TypeOK /\ TableInv /\ ReplicaInv /\ NetInv /\ CallerInv /\ AnswerInv

\* How the rows change.
Advances(old, new) ==
    /\ Exists(new)
    /\ new.item.version = old.item.version + 1
    /\ Exists(old) => /\ old.item.edits \subseteq new.item.edits
                      /\ old.item.created = new.item.created

RowsAdvance(rows, next) ==
    \A k \in Key : next[k] = rows[k] \/ Advances(rows[k], next[k])
-----------------------------------------------------------------------------
(* Why LockErrorTruthful holds, whatever operations are used. *)

\* The requests that are under way or remembered, and the copies of items
\* that are stored, held, sent or answered.
InUse == {m.req : m \in net} \cup {req[c] : c \in Callers}

\* A reading of the clock names one request, and no copy shows a later one.
TimeInv ==
    /\ \A k \in Key : /\ table[k].item.edits \subseteq 1..clock
                      /\ replica[k].item.edits \subseteq 1..clock
    /\ \A c \in Callers : /\ held[c].edits \subseteq 1..clock
                          /\ answer[c].row.item.edits \subseteq 1..clock
    /\ \A r \in InUse : /\ r.at <= clock
                        /\ r.row.item.edits \subseteq 1..clock
                        /\ r.op \in Writes => r.at # 0
    /\ \A r, s \in InUse : r.at = s.at /\ r.at # 0 => r = s

\* The change of the request of c is seen nowhere but in its own copies.
Hidden(c) ==
    LET e == req[c].at
    IN  /\ \A k \in Key : e \notin table[k].item.edits \cup replica[k].item.edits
        /\ \A d \in Callers : e \notin answer[d].row.item.edits
        /\ \A d \in Callers \ {c} : e \notin held[d].edits
        /\ \A r \in InUse \ {req[c]} : e \notin r.row.item.edits

\* A write that was sent once and failed its condition, and one that is still
\* on its way.
Refused(c) ==
    /\ tries[c] = 1 /\ req[c].at # 0
    /\ status[c] = "lock" \/ (Pending(c) /\ answer[c].code = "condfail")

OnItsWay(c) ==
    tries[c] = 1 /\ req[c].at # 0 /\ Attempt(req[c], 1) \in net

LockInv ==
    \A c \in Callers :
        /\ req[c].from = c
        /\ \A m \in net : m.req = req[c] /\ req[c].at # 0 => m.try <= tries[c]
        /\ Refused(c) => ~OnItsWay(c)
        /\ Refused(c) \/ OnItsWay(c) => Hidden(c)

-----------------------------------------------------------------------------
(* Why VersionSteps holds, whatever operations are used. *)

\* A Put, however old the copy it is made from, carries the version after the
\* one it expects, and a create carries the first.
NextVersion(r) ==
    r.op = "PutItem" =>
        \/ r.cond.kind = "absent" /\ r.row.item.version = 1
        \/ r.cond.kind = "version" /\ r.row.item.version = r.cond.version + 1

\* Every request under way or remembered, from a copy that was read, stamped
\* by a failed Put, or deleted meanwhile, is of that kind (crud.go 119-149).
VersionInv == TypeOK /\ \A r \in InUse : NextVersion(r)

-----------------------------------------------------------------------------
(* Why WholeRows holds if no update is unconditional. *)

Whole(item) == item.typ = TypeName /\ ~IsNew(item)

\* A copy that is not whole is the absence of one.
WholeCopy(item) == item = NoItem \/ Whole(item)

WholeRequest(r) ==
    /\ r.op = "PutItem" => Whole(r.row.item) /\ r.row.item.id = r.key
    /\ r.op = "PutItem" /\ r.cond.kind = "absent" => r.row.item.edits = {r.at}
    /\ r.op = "UpdateItem" => r.cond.kind = "version"

WholeInv ==
    /\ \A k \in Key : /\ Exists(table[k]) => Whole(ItemAt(k)) /\ ItemAt(k).id = k
                      /\ WholeCopy(replica[k].item)
    /\ \A c \in Callers : WholeCopy(held[c]) /\ WholeCopy(answer[c].row.item)
    /\ \A r \in InUse : WholeRequest(r)

-----------------------------------------------------------------------------
(* Why NoLostEdits and CreationKept hold among deletes, if each request is    *)
(* sent once and an ID is never used again: a row that is gone stays away.    *)

UuidUse == MaxSends = 1 /\ ~ReuseAfterError /\ {"update", "newId"} \cap Ops = {}

\* A copy is behind its row, or its row is gone.
Behind(rows, item) == ~IsNew(item) /\ Exists(rows[item.id]) => Synced(rows, item)

SendsPut(c) == Pending(c) /\ req[c].op = "PutItem"

BehindInv ==
    /\ \A k \in Key : /\ Behind(table, replica[k].item)
                      /\ replica[k] = Absent \/ replica[k].item.id = k
    /\ \A c \in Callers :
          /\ Behind(table, answer[c].row.item)
          /\ IF SendsPut(c) THEN held[c] = req[c].row.item ELSE Behind(table, held[c])
          /\ SendsPut(c) /\ answer[c].code = "ok" => answer[c].row = req[c].row
          /\ SendsPut(c) /\ answer[c].code # "none" => \A m \in net : m.req # req[c]
    /\ \A m \in net :
          m.req.op = "PutItem" /\ m.req.cond.kind = "version"
              => (Exists(table[m.req.key]) => Extends(table, m.req))

\* A create that is on its way is for an ID that nobody but its caller has.
Creates(r) == r.op = "PutItem" /\ r.cond.kind = "absent"

CreateInv ==
    \A m \in net : Creates(m.req) =>
        LET id == m.req.key
        IN  /\ id # NoId /\ ~Exists(table[id])
            /\ \A k \in Key : replica[k].item.id # id
            /\ \A c \in Callers :
                  /\ answer[c].row.item.id # id
                  /\ held[c].id = id => Pending(c) /\ req[c] = m.req
            /\ \A n \in net : n.req.op = "PutItem" /\ n.req.key = id => n = m

UuidInv == VersionInv /\ TimeInv /\ LockInv /\ WholeInv /\ BehindInv /\ CreateInv

-----------------------------------------------------------------------------
(* Why the rows implement VersionedItem: a request whose change is in the row *)
(* does not meet its condition again.                                         *)

Spent(rows, r) ==
    /\ Exists(rows[r.key])
    /\ r.cond.kind = "version" => r.cond.version < rows[r.key].item.version

OnceInv ==
    \A r \in InUse : r.op \in Writes /\ r.at \in ItemAt(r.key).edits => Spent(table, r)

\* What is true of requests, responses, copies and rows together: the parts
\* above, which are inductive for callers that write with a version only.
CrudInv == IInv /\ TimeInv /\ LockInv /\ WholeInv /\ OnceInv
=============================================================================
