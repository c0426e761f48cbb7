-------------------------------- MODULE Item --------------------------------
(***************************************************************************)
(* The Go value an application holds (a struct of type T embedding Model)  *)
(* and the attribute map it is marshaled to: model.go, and                 *)
(* stampAndMarshal of crud.go, which Put, BatchWriteBuilder.Put and        *)
(* TransactWriteBuilder.Put share.                                         *)
(*                                                                         *)
(* T uses the default key: its PK and SK are both "T#{ID}" (crud.go 72-73, *)
(* keys.go 18-31), so the ID is the key of the item.                       *)
(*                                                                         *)
(* The clock hook is a counter: 0 is the zero time.Time, and a reading is  *)
(* taken by one call only, so that it also tells who made the change       *)
(* (CreatedBy and UpdatedBy travel with CreatedAt and UpdatedAt).  The     *)
(* fields of T that are not Model's are abstracted to the set of changes   *)
(* they show, each named by the reading of the call that wrote it.         *)
(***************************************************************************)
EXTENDS Naturals

CONSTANTS
    Ids,    \* the uuid.UUIDs that occur
    NoId    \* uuid.Nil

ASSUME NoIdAssumption == NoId \notin Ids

TypeName == "T"    \* reflect.TypeFor[T]().Name()
Unset    == ""     \* an empty or a missing string

Item ==
    [id      : Ids \cup {NoId},
     typ     : {TypeName, Unset},
     created : Nat,
     updated : Nat,
     version : Nat,
     edits   : SUBSET Nat]

\* &T{Model: Model{ID: id}}: what an application builds before the first Put.
NewItem(id) ==
    [id |-> id, typ |-> Unset, created |-> 0, updated |-> 0, version |-> 0,
     edits |-> {}]

\* A nil *T.
NoItem == NewItem(NoId)

\* The stored attributes: those of the item, and the partition key of the
\* type index, which is no field of T and is dropped by unmarshalItemInto.
Row == [item : Item, gsi1pk : {TypeName, Unset}]

\* Model.CreatedAt.IsZero() tells a create from an update.
IsNew(item) == item.created = 0

-----------------------------------------------------------------------------
\* A mutant of SetType: the type name is not set.
SetTypeForgotten(item) == item

SetType(item) == [item EXCEPT !.typ = TypeName]

StampCreate(item, now, uuid) ==
    [SetType(item) EXCEPT !.id      = IF item.id = NoId THEN uuid ELSE item.id,
                          !.created = now,
                          !.updated = now,
                          !.version = 1]

\* A mutant of StampUpdate: the version is not counted up.
StampUpdateSameVersion(item, now) == [item EXCEPT !.updated = now]

StampUpdate(item, now) ==
    [item EXCEPT !.updated = now, !.version = item.version + 1]

\* The item as stampAndMarshal leaves it in the caller's memory: it writes
\* through the pointer, before anything is sent.
Stamp(item, now, uuid) ==
    IF IsNew(item) THEN StampCreate(item, now, uuid) ELSE StampUpdate(item, now)

\* The attribute map of the stamped item.  GSI1PK is written on create only.
Marshal(item, now, uuid) ==
    [item   |-> Stamp(item, now, uuid),
     gsi1pk |-> IF IsNew(item) THEN TypeName ELSE Unset]

\* A mutant of Condition: only a create is conditional.
ConditionOnCreateOnly(item) ==
    [kind |-> IF IsNew(item) THEN "absent" ELSE "none", version |-> 0]

\* A mutant of Condition: only an update is conditional.
ConditionOnUpdateOnly(item) ==
    IF IsNew(item) THEN [kind |-> "none", version |-> 0]
                   ELSE [kind |-> "version", version |-> item.version]

\* The condition a Put attaches: attribute_not_exists(PK), or
\* Version = :expected with the version before the call.
Condition(item) ==
    IF IsNew(item) THEN [kind |-> "absent", version |-> 0]
                   ELSE [kind |-> "version", version |-> item.version]

\* What the application does to its copy between a read and a Put.
Edit(item, change) == [item EXCEPT !.edits = item.edits \cup {change}]
=============================================================================
