----------------------------- MODULE KeyedItems -----------------------------
(***************************************************************************)
(* Where an item is stored: PK and SK of keys.go compute its key from the  *)
(* type's tag and the item's own fields, zeroKeys of crud.go from the ID   *)
(* alone, for the types requiresDefaultKey lets through.  A caller may     *)
(* change a field its key is made of between two calls.                    *)
(*                                                                         *)
(* A key is the sequence of its parts, which "#" joins in the code; the    *)
(* value of a field that contains "#" is several parts.  A call is one     *)
(* step here: what happens between request and response is in Crud.        *)
(***************************************************************************)
EXTENDS Naturals, Sequences, SequencesExt

CONSTANTS
    Types,         \* the struct types
    pkFields,      \* the fields of each type's pk clause
    skFields,      \* the fields of each type's sk clause
    Fields,        \* the fields next to Model
    Values,        \* what fields are set to: sequences of parts
    Ids,
    Callers,
    OwnIds,        \* do callers create an ID once, unless the key is made of it alone?
    MaxVersion     \* bound: the version up to which an item is written

ASSUME KeyedAssumption ==
    /\ pkFields \in [Types -> Seq(Fields \cup {"ID"})]
    /\ skFields \in [Types -> Seq(Fields \cup {"ID"})]
    /\ Values \subseteq Seq(STRING)
    /\ OwnIds \in BOOLEAN
    /\ MaxVersion \in Nat \ {0}

VARIABLES
    rows,    \* the rows: PK, SK and the item
    used,    \* the IDs that were given to an item, with its type
    held     \* the item behind each caller's pointer

vars == <<rows, used, held>>

Item == [type : Types, id : Ids, fields : [Fields -> Values \cup {<<"">>}], version : 0..MaxVersion]
NoItem == [type |-> "none"]

\* What a caller builds: only the ID and the fields are set.
NewItem(t, id, fields) == [type |-> t, id |-> id, fields |-> fields, version |-> 0]

TypeOK ==
    /\ \A r \in rows : r.item \in Item
    /\ used \subseteq Types \X Ids
    /\ held \in [Callers -> Item \cup {NoItem}]

Init ==
    /\ rows = {}
    /\ used = {}
    /\ held = [c \in Callers |-> NoItem]

-----------------------------------------------------------------------------
(* Keys. *)

\* FieldByName finds the promoted field ID, too; Sprint gives its text.
Parts(item, name) == IF name = "ID" THEN <<item.id>> ELSE item.fields[name]

buildKey(item, names) ==
    <<item.type>> \o FlattenSeq([i \in DOMAIN names |-> Parts(item, names[i])])

PK(item) ==
    LET names == pkFields[item.type]
    IN  buildKey(item, IF names = <<>> THEN <<"ID">> ELSE names)

\* A mutant of SK: the fields of the clause only.
SKWithoutId(item) ==
    LET names == skFields[item.type]
    IN  buildKey(item, IF names = <<>> THEN <<"ID">> ELSE names)

SK(item) ==
    LET names == skFields[item.type]
    IN  buildKey(item, IF names = <<>> \/ Last(names) # "ID" THEN Append(names, "ID") ELSE names)

At(pk, sk) == {r \in rows : r.pk = pk /\ r.sk = sk}

RowOf(item) == [pk |-> PK(item), sk |-> SK(item), item |-> item]

\* A mutant of requiresDefaultKey: only the pk clause is looked at.
requiresDefaultKeyPkOnly(t) == pkFields[t] = <<>>

requiresDefaultKey(t) == pkFields[t] = <<>> /\ skFields[t] = <<>>

\* The row under the key of a zero T with this ID.
ZeroAt(t, id) ==
    LET zero == NewItem(t, id, [f \in Fields |-> <<"">>])
    IN  At(PK(zero), SK(zero))

-----------------------------------------------------------------------------
Holds(c, item) == held' = [held EXCEPT ![c] = item]

\* A mutant of Met: a missing row meets any condition.
MetIfMissing(item) ==
    \A r \in At(PK(item), SK(item)) : r.item.version = item.version

\* The condition of a Put: there is no row under the item's key if the item is
\* new, else the row under it has the version the caller expects.
Met(item) ==
    IF item.version = 0 THEN At(PK(item), SK(item)) = {}
    ELSE \E r \in At(PK(item), SK(item)) : r.item.version = item.version

\* Nothing in the code keeps a caller from creating an item again under another
\* key, or from giving its ID to an item of another type.
MayCreate(item) ==
    OwnIds => \A u \in used : u[2] = item.id => u[1] = item.type /\ requiresDefaultKey(u[1])

\* A mutant of Put: the condition is put to the row of the item as it was before
\* its fields were changed.
PutWhereItWas(c, item) ==
    LET new == [item EXCEPT !.version = @ + 1]
        old == IF held[c] # NoItem /\ item.version > 0 THEN held[c] ELSE item
    IN  /\ item.version < MaxVersion
        /\ item.version = 0 => MayCreate(item)
        /\ used' = used \cup {<<item.type, item.id>>}
        /\ Holds(c, new)
        /\ \/ /\ Met(old)
              /\ rows' = (rows \ At(PK(item), SK(item))) \cup {RowOf(new)}
           \/ /\ ~Met(old)
              /\ UNCHANGED rows

\* The item is stamped whether the write succeeds or not.
Put(c, item) ==
    LET new == [item EXCEPT !.version = @ + 1]
    IN  /\ item.version < MaxVersion
        /\ item.version = 0 => MayCreate(item)
        /\ used' = used \cup {<<item.type, item.id>>}
        /\ Holds(c, new)
        /\ \/ /\ Met(item)
              /\ rows' = (rows \ At(PK(item), SK(item))) \cup {RowOf(new)}
           \/ /\ ~Met(item)
              /\ UNCHANGED rows

PutNew(c, t, id, fields) == Put(c, NewItem(t, id, fields))

\* Put of the item the caller has, of which fields may have changed.
PutHeld(c, fields) ==
    held[c] # NoItem /\ Put(c, [held[c] EXCEPT !.fields = fields])

\* Get, of which ErrNonDefaultKey is the early return.  If there is no row the
\* caller is left with what it had.
Get(c, t, id) ==
    /\ requiresDefaultKey(t)
    /\ \E r \in ZeroAt(t, id) : Holds(c, r.item)
    /\ UNCHANGED <<rows, used>>

Delete(c, t, id) ==
    /\ requiresDefaultKey(t)
    /\ rows' = rows \ ZeroAt(t, id)
    /\ UNCHANGED <<used, held>>

\* TransactGet fills in dst, of which the caller has set the ID and the fields of
\* the key.  It returns nil as well if there is no row, and leaves dst as it is.
TransactGet(c, dst) ==
    /\ \/ At(PK(dst), SK(dst)) = {} /\ Holds(c, dst)
       \/ \E r \in At(PK(dst), SK(dst)) : Holds(c, r.item)
    /\ UNCHANGED <<rows, used>>

\* TransactWrite's Delete of the item the caller has, of which fields may have
\* changed.
TransactDelete(c, fields) ==
    /\ held[c] # NoItem
    /\ LET item == [held[c] EXCEPT !.fields = fields]
       IN  rows' = rows \ At(PK(item), SK(item))
    /\ UNCHANGED <<used, held>>

Next ==
    \E c \in Callers :
        \/ \E t \in Types, id \in Ids :
              \/ Get(c, t, id) \/ Delete(c, t, id)
              \/ \E fields \in [Fields -> Values] :
                    PutNew(c, t, id, fields) \/ TransactGet(c, NewItem(t, id, fields))
        \/ \E fields \in [Fields -> Values] :
              \/ PutHeld(c, fields) \/ TransactDelete(c, fields)
              \/ held[c] # NoItem /\ TransactGet(c, [held[c] EXCEPT !.fields = fields])

Spec == Init /\ [][Next]_vars

-----------------------------------------------------------------------------
SameItem(i, j) == i.type = j.type /\ i.id = j.id

\* A key is never shared: a row is only ever replaced by a version of the same
\* item, whatever is in its fields (keys.go 36: "the ID field is always appended
\* as the final component").
NeverReplacesAnother ==
    [][\A r \in rows, s \in rows' : r.pk = s.pk /\ r.sk = s.sk => SameItem(r.item, s.item)]_vars

\* Whatever key its fields give an item, a Put of it does not come to lie under a
\* key where the version it was made from is not: what a changed field, a delete
\* or a TransactGet that found nothing leaves with the caller is never stored as
\* the successor of anything else (crud.go 101-105).
SuccessorsInPlace ==
    [][\A s \in rows' \ rows :
          IF s.item.version = 1
          THEN \A r \in rows : ~(r.pk = s.pk /\ r.sk = s.sk)
          ELSE \E r \in rows : /\ r.pk = s.pk /\ r.sk = s.sk /\ SameItem(r.item, s.item)
                               /\ s.item.version = r.item.version + 1]_vars

\* An item has one row: putting it back after a field of its key was changed
\* does not leave a second row beside the first one (crud.go 156-157, 101-105).
OneRowPerItem == \A r, s \in rows : SameItem(r.item, s.item) => r = s

\* For the types that Get, Delete, Update and BatchGet let through, the key they
\* compute from the ID alone is the key of the item's row: no item they report
\* as missing is there, and none they delete stays (crud.go 45-54).
ZeroKeyIsTheKey ==
    \A r \in rows : requiresDefaultKey(r.item.type) => ZeroAt(r.item.type, r.item.id) = {r}

-----------------------------------------------------------------------------
(* Why they hold. *)

\* A row is under the key its item had when it was written.
RowsInv ==
    \A r \in rows : r = RowOf(r.item) /\ <<r.item.type, r.item.id>> \in used

\* A key has one row.
OneRowPerKey == \A r, s \in rows : r.pk = s.pk /\ r.sk = s.sk => r = s

\* The inductive invariant of the stored items and their keys: that an item with
\* changed fields has no second row rests on the row being under the key of its
\* own fields, so that Met fails for any other key (crud.go 156-157, 101-105).
KeyedInv == TypeOK /\ RowsInv /\ OneRowPerKey /\ (OwnIds => OneRowPerItem)
=============================================================================
