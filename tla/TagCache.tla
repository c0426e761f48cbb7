------------------------------ MODULE TagCache ------------------------------
(***************************************************************************)
(* parseTags of tags.go: the tags of a struct type are parsed when it is   *)
(* first used, and kept in a sync.Map that all goroutines share.           *)
(*                                                                         *)
(* A tag is a sequence of clauses, a clause a key and a list of names as   *)
(* they stand between the separators; a clause without ":" has the key     *)
(* "none".  Splitting and trimming the text itself is left out.            *)
(***************************************************************************)
EXTENDS FiniteSets, Naturals, Sequences

CONSTANTS
    Goroutines,
    Types,         \* the struct types parseTags is called with
    Embeds,        \* those that embed Model
    ModelTag,      \* the clauses of the tag of the Model field of each type
    FieldTags      \* the other fields of each type: [name, tag], in order

ASSUME TagCacheAssumption ==
    /\ Types # {} /\ Embeds \subseteq Types
    /\ \A t \in Types : /\ ModelTag[t] \in Seq([key : STRING, names : Seq(STRING)])
                        /\ FieldTags[t] \in Seq([name : STRING, tag : STRING])

VARIABLES
    tagCache,   \* the sync.Map: the entry of each type
    heap,       \* the modelTags at each pointer
    pc, arg,    \* where each goroutine is, and the type it was called with
    pos,        \* how many clauses or fields its loop has done
    compressFields,    \* the slice its loop over the fields fills
    got         \* history: the entries that were returned, for each type

vars == <<tagCache, heap, pc, arg, pos, compressFields, got>>

\* A goroutine parses a type at most once: it leaves an entry behind.
Ptrs == Goroutines \X Types
Nil == <<>>
modelTags == [pkFields |-> <<>>, skFields |-> <<>>, compressFields |-> <<>>]

TypeOK ==
    /\ tagCache \in [Types -> Ptrs \cup {Nil}]
    /\ DOMAIN heap = Ptrs
    /\ \A p \in Ptrs : DOMAIN heap[p] = DOMAIN modelTags
    /\ pc  \in [Goroutines -> {"idle", "load", "clauses", "fields", "store"}]
    /\ arg \in [Goroutines -> Types]
    /\ pos \in [Goroutines -> Nat]
    /\ compressFields \in [Goroutines -> Seq(STRING)]
    /\ got \in [Types -> SUBSET Ptrs]

Init ==
    /\ tagCache = [t \in Types |-> Nil]
    /\ heap = [p \in Ptrs |-> modelTags]
    /\ pc = [g \in Goroutines |-> "idle"]
    /\ arg \in [Goroutines -> {CHOOSE t \in Types : TRUE}]
    /\ pos = [g \in Goroutines |-> 0]
    /\ compressFields = [g \in Goroutines |-> <<>>]
    /\ got = [t \in Types |-> {}]

-----------------------------------------------------------------------------
Goto(g, label) == pc' = [pc EXCEPT ![g] = label] /\ pos' = [pos EXCEPT ![g] = 0]

Mine(g) == <<g, arg[g]>>

\* The caller gets entry p.
Return(g, p) ==
    /\ Goto(g, "idle")
    /\ got' = [got EXCEPT ![arg[g]] = @ \cup {p}]

Call(g, t) ==
    /\ pc[g] = "idle"
    /\ arg' = [arg EXCEPT ![g] = t]
    /\ Goto(g, "load")
    /\ UNCHANGED <<tagCache, heap, compressFields, got>>

\* tagCache.Load, and with no entry the check that t embeds Model.
Hit(g) ==
    /\ pc[g] = "load"
    /\ tagCache[arg[g]] # Nil
    /\ Return(g, tagCache[arg[g]])
    /\ UNCHANGED <<tagCache, heap, arg, compressFields>>

Panic(g) ==
    /\ pc[g] = "load"
    /\ tagCache[arg[g]] = Nil
    /\ arg[g] \notin Embeds
    /\ Goto(g, "idle")
    /\ UNCHANGED <<tagCache, heap, arg, compressFields, got>>

\* A mutant of Miss: the entry is stored before it is filled in.
MissStores(g) ==
    /\ pc[g] = "load"
    /\ tagCache[arg[g]] = Nil
    /\ arg[g] \in Embeds
    /\ heap' = [heap EXCEPT ![Mine(g)] = modelTags]
    /\ tagCache' = [tagCache EXCEPT ![arg[g]] = Mine(g)]
    /\ Goto(g, "clauses")
    /\ UNCHANGED <<arg, compressFields, got>>

Miss(g) ==
    /\ pc[g] = "load"
    /\ tagCache[arg[g]] = Nil
    /\ arg[g] \in Embeds
    /\ heap' = [heap EXCEPT ![Mine(g)] = modelTags]
    /\ Goto(g, "clauses")
    /\ UNCHANGED <<tagCache, arg, compressFields, got>>

splitFields(names) == SelectSeq(names, LAMBDA n : n # "")

\* One clause of parseModelClauses' loop: one of an unknown key is skipped.
Clause(g) ==
    /\ pc[g] = "clauses"
    /\ pos[g] < Len(ModelTag[arg[g]])
    /\ pos' = [pos EXCEPT ![g] = @ + 1]
    /\ LET clause == ModelTag[arg[g]][pos'[g]]
           fields == splitFields(clause.names)
       IN  heap' = [heap EXCEPT
               ![Mine(g)].pkFields = IF clause.key = "pk" THEN fields ELSE @,
               ![Mine(g)].skFields = IF clause.key = "sk" THEN fields ELSE @]
    /\ UNCHANGED <<tagCache, pc, arg, compressFields, got>>

ClausesDone(g) ==
    /\ pc[g] = "clauses"
    /\ pos[g] = Len(ModelTag[arg[g]])
    /\ Goto(g, "fields")
    /\ UNCHANGED <<tagCache, heap, arg, compressFields, got>>

\* One field of parseCompressFields' loop.
Field(g) ==
    /\ pc[g] = "fields"
    /\ pos[g] < Len(FieldTags[arg[g]])
    /\ pos' = [pos EXCEPT ![g] = @ + 1]
    /\ LET field == FieldTags[arg[g]][pos'[g]]
       IN  compressFields' = [compressFields EXCEPT ![g] =
               IF field.tag = "compress" THEN Append(@, field.name) ELSE @]
    /\ UNCHANGED <<tagCache, heap, pc, arg, got>>

FieldsDone(g) ==
    /\ pc[g] = "fields"
    /\ pos[g] = Len(FieldTags[arg[g]])
    /\ heap' = [heap EXCEPT ![Mine(g)].compressFields = compressFields[g]]
    /\ compressFields' = [compressFields EXCEPT ![g] = <<>>]
    /\ Goto(g, "store")
    /\ UNCHANGED <<tagCache, arg, got>>

\* A mutant of LoadOrStore: Store, and the caller keeps its own entry.
StoreAlways(g) ==
    /\ pc[g] = "store"
    /\ tagCache' = [tagCache EXCEPT ![arg[g]] = Mine(g)]
    /\ Return(g, Mine(g))
    /\ UNCHANGED <<heap, arg, compressFields>>

LoadOrStore(g) ==
    /\ pc[g] = "store"
    /\ tagCache' = [tagCache EXCEPT ![arg[g]] = IF @ = Nil THEN Mine(g) ELSE @]
    /\ Return(g, tagCache'[arg[g]])
    /\ UNCHANGED <<heap, arg, compressFields>>

Step(g) ==
    \/ Hit(g) \/ Panic(g) \/ Miss(g) \/ Clause(g) \/ ClausesDone(g)
    \/ Field(g) \/ FieldsDone(g) \/ LoadOrStore(g)

Next == \E g \in Goroutines : Step(g) \/ \E t \in Types : Call(g, t)

Spec == Init /\ [][Next]_vars

-----------------------------------------------------------------------------
\* Every call of parseTags for a type returns the same entry, whoever was first
\* and however many parsed at the same time (tags.go 70-71 and 86).
OneEntry == \A t \in Types : Cardinality(got[t]) <= 1

\* What the first n clauses, or the first n fields, of a type mean: of several
\* clauses for a key the last one counts, and every field marked "compress" is
\* in the list (tags.go 28-36 and 117-119).
Clauses(t, key, n) == {i \in 1..n : ModelTag[t][i].key = key}
IsFields(fields, t, key, n) ==
    IF Clauses(t, key, n) = {} THEN fields = <<>>
    ELSE \E i \in Clauses(t, key, n) :
            /\ \A j \in Clauses(t, key, n) : j <= i
            /\ fields = splitFields(ModelTag[t][i].names)
IsKeys(mt, t, n) == IsFields(mt.pkFields, t, "pk", n) /\ IsFields(mt.skFields, t, "sk", n)
IsCompressed(names, t, n) ==
    {names[i] : i \in DOMAIN names}
       = {FieldTags[t][i].name : i \in {j \in 1..n : FieldTags[t][j].tag = "compress"}}
Complete(mt, t) ==
    /\ IsKeys(mt, t, Len(ModelTag[t]))
    /\ IsCompressed(mt.compressFields, t, Len(FieldTags[t]))

\* No goroutine ever has an entry in its hands that is half parsed, or is parsed
\* further while it uses it, or is for a type without Model (tags.go 72-88).
EntryComplete ==
    \A t \in Types : \A p \in got[t] : t \in Embeds /\ Complete(heap[p], t)

-----------------------------------------------------------------------------
(* Why they hold. *)

\* How far a goroutine has parsed its own entry.
ParseInv(g) ==
    LET t == arg[g]
    IN  /\ pc[g] \in {"clauses", "fields", "store"} => t \in Embeds
        /\ pc[g] = "clauses" => pos[g] <= Len(ModelTag[t]) /\ IsKeys(heap[Mine(g)], t, pos[g])
        /\ pc[g] = "fields" => /\ IsKeys(heap[Mine(g)], t, Len(ModelTag[t]))
                               /\ pos[g] <= Len(FieldTags[t])
                               /\ IsCompressed(compressFields[g], t, pos[g])
        /\ pc[g] # "fields" => compressFields[g] = <<>>
        /\ pc[g] = "store" => Complete(heap[Mine(g)], t)

\* The entry in the cache is complete, and its maker is no longer at it.
CacheInv(t) ==
    /\ got[t] \subseteq {tagCache[t]} \ {Nil}
    /\ \A g \in Goroutines :
          tagCache[t] = <<g, t>> /\ pc[g] \in {"clauses", "fields", "store"} => arg[g] # t
    /\ tagCache[t] # Nil =>
          t \in Embeds /\ tagCache[t][2] = t /\ Complete(heap[tagCache[t]], t)

\* The inductive invariant of parseTags.
TagInv ==
    /\ TypeOK
    /\ \A g \in Goroutines : ParseInv(g)
    /\ \A t \in Types : CacheInv(t)
=============================================================================
