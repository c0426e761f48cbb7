----------------------------- MODULE TagProofs ------------------------------
(***************************************************************************)
(* Proofs about what the tags of a struct type stand for: about TagCache,  *)
(* for any types and tags and any number of goroutines, and about          *)
(* Compress, for any fields, tags and programs.                            *)
(***************************************************************************)
EXTENDS TagCache, Compress, FiniteSetTheorems, TLAPS

Parsing == {"clauses", "fields", "store"}

LEMMA Lengths ==
    ASSUME NEW t \in Types
    PROVE  /\ Len(ModelTag[t]) \in Nat /\ Len(FieldTags[t]) \in Nat
           /\ \A i \in 1..Len(FieldTags[t]) : FieldTags[t][i].name \in STRING
<1>1. ModelTag[t] \in Seq([key : STRING, names : Seq(STRING)])
  BY TagCacheAssumption
<1> DEFINE F == [name : STRING, tag : STRING]
<1>2. FieldTags[t] \in Seq(F)
  BY TagCacheAssumption
<1>3. \A f \in F : f.name \in STRING
  OBVIOUS
<1> HIDE DEF F
<1>4. \A i \in 1..Len(FieldTags[t]) : FieldTags[t][i] \in F
  BY <1>2
<1>5. QED
  BY <1>1, <1>2, <1>3, <1>4

\* An entry with nothing in it is what no clause and no field mean.
LEMMA NothingParsed ==
    ASSUME NEW t \in Types
    PROVE  IsKeys(modelTags, t, 0) /\ IsCompressed(<<>>, t, 0)
<1>1. \A key : Clauses(t, key, 0) = {}
  BY DEF Clauses
<1>2. IsKeys(modelTags, t, 0)
  BY <1>1 DEF IsKeys, IsFields, modelTags
<1>3. IsCompressed(<<>>, t, 0)
  BY DEF IsCompressed
<1>4. QED
  BY <1>2, <1>3

\* One more clause.
LEMMA OneMoreClause ==
    ASSUME NEW t \in Types, NEW n \in Nat, n < Len(ModelTag[t]), NEW fields, NEW key,
           IsFields(fields, t, key, n)
    PROVE  IsFields(IF ModelTag[t][n + 1].key = key
                    THEN splitFields(ModelTag[t][n + 1].names) ELSE fields,
                    t, key, n + 1)
<1>1. CASE ModelTag[t][n + 1].key = key
  <2>1. n + 1 \in Clauses(t, key, n + 1) /\ \A j \in Clauses(t, key, n + 1) : j <= n + 1
    BY <1>1 DEF Clauses
  <2>2. QED
    BY <1>1, <2>1 DEF IsFields
<1>2. CASE ModelTag[t][n + 1].key # key
  <2>1. Clauses(t, key, n + 1) = Clauses(t, key, n)
    BY <1>2 DEF Clauses
  <2>2. QED
    BY <1>2, <2>1 DEF IsFields
<1>3. QED
  BY <1>1, <1>2

\* One more field.
LEMMA OneMoreField ==
    ASSUME NEW t \in Types, NEW n \in Nat, n < Len(FieldTags[t]), NEW names \in Seq(STRING),
           IsCompressed(names, t, n)
    PROVE  LET field == FieldTags[t][n + 1]
               new == IF field.tag = "compress" THEN Append(names, field.name) ELSE names
           IN  new \in Seq(STRING) /\ IsCompressed(new, t, n + 1)
<1> DEFINE field == FieldTags[t][n + 1]
           Marked(m) == {j \in 1..m : FieldTags[t][j].tag = "compress"}
<1>1. field.name \in STRING
  BY Lengths
<1>2. CASE field.tag = "compress"
  <2>1. Marked(n + 1) = Marked(n) \cup {n + 1}
    BY <1>2
  <2>2. Append(names, field.name) \in Seq(STRING)
    BY <1>1
  <2> DEFINE new == Append(names, field.name)
  <2>3. {new[i] : i \in DOMAIN new} = {names[i] : i \in DOMAIN names} \cup {field.name}
    <3>1. /\ DOMAIN names = 1..Len(names) /\ Len(names) \in Nat
          /\ DOMAIN new = 1..(Len(names) + 1)
          /\ \A i \in 1..Len(names) : new[i] = names[i]
          /\ new[Len(names) + 1] = field.name
      BY <1>1
    <3> HIDE DEF new
    <3>2. DOMAIN new = DOMAIN names \cup {Len(names) + 1}
      BY <3>1
    <3>3. QED
      BY <3>1, <3>2
  <2>4. {FieldTags[t][i].name : i \in Marked(n + 1)}
            = {FieldTags[t][i].name : i \in Marked(n)} \cup {field.name}
    BY <2>1
  <2>5. QED
    BY <1>2, <2>2, <2>3, <2>4 DEF IsCompressed
<1>3. CASE field.tag # "compress"
  <2>1. Marked(n + 1) = Marked(n)
    BY <1>3
  <2>2. QED
    BY <1>3, <2>1 DEF IsCompressed
<1>4. QED
  BY <1>2, <1>3

-----------------------------------------------------------------------------
(* What a step leaves alone. *)

\* The goroutines that do not move are where they were.
LEMMA OthersKept ==
    ASSUME TagInv, NEW g \in Goroutines,
           \A h \in Goroutines \ {g} :
               /\ pc'[h] = pc[h] /\ arg'[h] = arg[h] /\ pos'[h] = pos[h]
               /\ compressFields'[h] = compressFields[h],
           \A h \in Goroutines \ {g}, t \in Types : heap'[<<h, t>>] = heap[<<h, t>>]
    PROVE  \A h \in Goroutines \ {g} : ParseInv(h)'
<1> SUFFICES ASSUME NEW h \in Goroutines \ {g} PROVE ParseInv(h)'
  OBVIOUS
<1>1. /\ pc'[h] = pc[h] /\ arg'[h] = arg[h] /\ pos'[h] = pos[h]
      /\ compressFields'[h] = compressFields[h] /\ arg[h] \in Types
  BY DEF TagInv, TypeOK
<1>2. Mine(h)' = Mine(h) /\ heap'[Mine(h)] = heap[Mine(h)]
  BY <1>1 DEF Mine
<1>3. ParseInv(h)
  BY DEF TagInv
<1>4. QED
  BY <1>1, <1>2, <1>3 DEF ParseInv

\* The entries in the cache are not touched by one who parses its own.
LEMMA EntriesKept ==
    ASSUME TagInv, NEW g \in Goroutines,
           pc[g] \in Parsing \/ tagCache[arg[g]] = Nil,
           UNCHANGED <<tagCache, got>>,
           \A h \in Goroutines \ {g} : pc'[h] = pc[h] /\ arg'[h] = arg[h],
           arg'[g] = arg[g],
           \A p \in Ptrs \ {Mine(g)} : heap'[p] = heap[p]
    PROVE  \A t \in Types : CacheInv(t)'
<1> SUFFICES ASSUME NEW t \in Types PROVE CacheInv(t)'
  OBVIOUS
<1>1. CacheInv(t) /\ tagCache[t] \in Ptrs \cup {Nil} /\ arg[g] \in Types
  BY DEF TagInv, TypeOK
<1>2. CASE tagCache[t] = Nil
  <2>1. \A h \in Goroutines : tagCache[t] # <<h, t>>
    BY <1>2 DEF Nil
  <2>2. QED
    BY <1>1, <1>2, <2>1 DEF CacheInv
<1>3. CASE tagCache[t] # Nil
  <2>1. PICK h \in Goroutines : tagCache[t] = <<h, t>>
    BY <1>1, <1>3 DEF Ptrs, CacheInv
  <2>2. tagCache[t] # Mine(g)
    BY <1>1, <1>3, <2>1 DEF CacheInv, Mine, Parsing
  <2>3. heap'[tagCache[t]] = heap[tagCache[t]]
    BY <1>1, <1>3, <2>2
  <2>4. h # g \/ arg[g] # t
    BY <2>1, <2>2 DEF Mine
  <2>5. \A f \in Goroutines : tagCache[t] = <<f, t>> => f = h
    BY <2>1
  <2>6. pc'[h] \in Parsing => arg'[h] # t
    BY <1>1, <2>1, <2>4 DEF CacheInv, Parsing
  <2>7. QED
    BY <1>1, <1>3, <2>3, <2>5, <2>6 DEF CacheInv, Parsing
<1>4. QED
  BY <1>2, <1>3

\* Nor by one who does not parse.
LEMMA EntriesStay ==
    ASSUME TagInv, NEW g \in Goroutines, UNCHANGED <<tagCache, heap>>,
           \A t \in Types : got'[t] \subseteq {tagCache[t]} \ {Nil},
           pc'[g] \notin Parsing,
           \A h \in Goroutines \ {g} : pc'[h] = pc[h] /\ arg'[h] = arg[h]
    PROVE  \A t \in Types : CacheInv(t)'
<1> SUFFICES ASSUME NEW t \in Types PROVE CacheInv(t)'
  OBVIOUS
<1>1. CacheInv(t)
  BY DEF TagInv
<1>2. QED
  BY <1>1 DEF CacheInv, Parsing

-----------------------------------------------------------------------------
LEMMA TagInit == Init => TagInv
<1> SUFFICES ASSUME Init PROVE TagInv
  OBVIOUS
<1>1. TypeOK
  <2>1. (CHOOSE t \in Types : TRUE) \in Types
    BY TagCacheAssumption
  <2>2. arg \in [Goroutines -> Types]
    BY <2>1 DEF Init
  <2>3. DOMAIN heap = Ptrs /\ \A p \in Ptrs : DOMAIN heap[p] = DOMAIN modelTags
    BY DEF Init
  <2>4. compressFields \in [Goroutines -> Seq(STRING)]
    BY DEF Init
  <2>5. QED
    BY <2>2, <2>3, <2>4 DEF Init, TypeOK
<1>2. \A g \in Goroutines : ParseInv(g)
  BY DEF Init, ParseInv
<1>3. \A t \in Types : CacheInv(t)
  BY DEF Init, CacheInv, Nil
<1>4. QED
  BY <1>1, <1>2, <1>3 DEF TagInv

\* How Goto changes what a goroutine does.
LEMMA GotoEffect ==
    ASSUME TypeOK, NEW g \in Goroutines, NEW label, Goto(g, label)
    PROVE  /\ pc'[g] = label /\ pos'[g] = 0
           /\ pos' \in [Goroutines -> Nat]
           /\ label \in {"idle", "load", "clauses", "fields", "store"} =>
                 pc' \in [Goroutines -> {"idle", "load", "clauses", "fields", "store"}]
           /\ \A h \in Goroutines \ {g} : pc'[h] = pc[h] /\ pos'[h] = pos[h]
  BY DEF TypeOK, Goto

LEMMA CallStep ==
    ASSUME TagInv, NEW g \in Goroutines, NEW t \in Types, Call(g, t)
    PROVE  TagInv'
<1> USE DEF TagInv
<1>1. /\ pc[g] = "idle" /\ arg' = [arg EXCEPT ![g] = t] /\ Goto(g, "load")
      /\ UNCHANGED <<tagCache, heap, compressFields, got>>
  BY DEF Call
<1>2. TypeOK'
  BY <1>1, GotoEffect DEF TypeOK
<1>3. /\ pc'[g] = "load" /\ arg'[g] = t
      /\ \A h \in Goroutines \ {g} : pc'[h] = pc[h] /\ pos'[h] = pos[h] /\ arg'[h] = arg[h]
  BY <1>1, GotoEffect DEF TypeOK
<1>4. \A h \in Goroutines \ {g} : ParseInv(h)'
  BY <1>1, <1>3, OthersKept
<1>5. ParseInv(g)'
  BY <1>1, <1>3 DEF ParseInv
<1>6. \A u \in Types : CacheInv(u)'
  <2>1. \A u \in Types : got'[u] \subseteq {tagCache[u]} \ {Nil}
    BY <1>1 DEF CacheInv
  <2>2. QED
    BY <1>1, <1>3, <2>1, EntriesStay DEF Parsing
<1>7. QED
  BY <1>2, <1>4, <1>5, <1>6

LEMMA HitStep ==
    ASSUME TagInv, NEW g \in Goroutines, Hit(g)
    PROVE  TagInv'
<1> USE DEF TagInv
<1>1. /\ pc[g] = "load" /\ tagCache[arg[g]] # Nil /\ Goto(g, "idle")
      /\ got' = [got EXCEPT ![arg[g]] = @ \cup {tagCache[arg[g]]}]
      /\ UNCHANGED <<tagCache, heap, arg, compressFields>>
  BY DEF Hit, Return
<1>2. arg[g] \in Types /\ tagCache[arg[g]] \in Ptrs
  BY <1>1 DEF TypeOK
<1>3. got' \in [Types -> SUBSET Ptrs]
  BY <1>1, <1>2 DEF TypeOK
<1>4. TypeOK'
  BY <1>1, <1>3, GotoEffect DEF TypeOK
<1>5. /\ pc'[g] = "idle"
      /\ \A h \in Goroutines \ {g} : pc'[h] = pc[h] /\ pos'[h] = pos[h] /\ arg'[h] = arg[h]
  BY <1>1, GotoEffect DEF TypeOK
<1>6. \A h \in Goroutines \ {g} : ParseInv(h)'
  BY <1>1, <1>5, OthersKept
<1>7. ParseInv(g)'
  BY <1>1, <1>5 DEF ParseInv
<1>8. \A u \in Types : CacheInv(u)'
  <2>1. \A u \in Types : got'[u] \subseteq {tagCache[u]} \ {Nil}
    BY <1>1, <1>2 DEF CacheInv, TypeOK
  <2>2. QED
    BY <1>1, <1>5, <2>1, EntriesStay DEF Parsing
<1>9. QED
  BY <1>4, <1>6, <1>7, <1>8

LEMMA PanicStep ==
    ASSUME TagInv, NEW g \in Goroutines, Panic(g)
    PROVE  TagInv'
<1> USE DEF TagInv
<1>1. /\ pc[g] = "load" /\ Goto(g, "idle")
      /\ UNCHANGED <<tagCache, heap, arg, compressFields, got>>
  BY DEF Panic
<1>2. TypeOK'
  BY <1>1, GotoEffect DEF TypeOK
<1>3. /\ pc'[g] = "idle"
      /\ \A h \in Goroutines \ {g} : pc'[h] = pc[h] /\ pos'[h] = pos[h] /\ arg'[h] = arg[h]
  BY <1>1, GotoEffect DEF TypeOK
<1>4. \A h \in Goroutines \ {g} : ParseInv(h)'
  BY <1>1, <1>3, OthersKept
<1>5. ParseInv(g)'
  BY <1>1, <1>3 DEF ParseInv
<1>6. \A u \in Types : CacheInv(u)'
  <2>1. \A u \in Types : got'[u] \subseteq {tagCache[u]} \ {Nil}
    BY <1>1 DEF CacheInv
  <2>2. QED
    BY <1>1, <1>3, <2>1, EntriesStay DEF Parsing
<1>7. QED
  BY <1>2, <1>4, <1>5, <1>6

LEMMA MissStep ==
    ASSUME TagInv, NEW g \in Goroutines, Miss(g)
    PROVE  TagInv'
<1> USE DEF TagInv
<1>1. /\ pc[g] = "load" /\ tagCache[arg[g]] = Nil /\ arg[g] \in Embeds /\ Goto(g, "clauses")
      /\ heap' = [heap EXCEPT ![Mine(g)] = modelTags]
      /\ UNCHANGED <<tagCache, arg, compressFields, got>>
  BY DEF Miss
<1>2. arg[g] \in Types /\ Mine(g) \in Ptrs /\ Mine(g)' = Mine(g)
  BY <1>1 DEF TypeOK, Mine, Ptrs
<1>3. /\ DOMAIN heap' = Ptrs /\ heap'[Mine(g)] = modelTags
      /\ \A p \in Ptrs \ {Mine(g)} : heap'[p] = heap[p]
  BY <1>1, <1>2 DEF TypeOK
<1>4. TypeOK'
  <2>1. \A p \in Ptrs : DOMAIN heap'[p] = DOMAIN modelTags
    BY <1>3 DEF TypeOK
  <2>2. QED
    BY <1>1, <1>3, <2>1, GotoEffect DEF TypeOK
<1>5. /\ pc'[g] = "clauses" /\ pos'[g] = 0
      /\ \A h \in Goroutines \ {g} : pc'[h] = pc[h] /\ pos'[h] = pos[h] /\ arg'[h] = arg[h]
  BY <1>1, GotoEffect DEF TypeOK
<1>6. \A h \in Goroutines \ {g} : ParseInv(h)'
  <2>1. \A h \in Goroutines \ {g}, t \in Types : heap'[<<h, t>>] = heap[<<h, t>>]
    BY <1>3 DEF Mine, Ptrs
  <2>2. QED
    BY <1>1, <1>5, <2>1, OthersKept
<1>7. ParseInv(g)'
  <2>1. IsKeys(modelTags, arg[g], 0) /\ Len(ModelTag[arg[g]]) \in Nat
    BY <1>2, NothingParsed, Lengths
  <2>2. compressFields[g] = <<>>
    BY <1>1 DEF ParseInv
  <2>3. QED
    BY <1>1, <1>2, <1>3, <1>5, <2>1, <2>2 DEF ParseInv
<1>8. \A t \in Types : CacheInv(t)'
  BY <1>1, <1>3, <1>5, EntriesKept
<1>9. QED
  BY <1>4, <1>6, <1>7, <1>8

LEMMA ClauseStep ==
    ASSUME TagInv, NEW g \in Goroutines, Clause(g)
    PROVE  TagInv'
<1> USE DEF TagInv
<1> DEFINE t == arg[g]
           n == pos[g]
           clause == ModelTag[t][n + 1]
           old == heap[Mine(g)]
           pk == IF clause.key = "pk" THEN splitFields(clause.names) ELSE old.pkFields
           sk == IF clause.key = "sk" THEN splitFields(clause.names) ELSE old.skFields
           new == [[old EXCEPT !.pkFields = pk] EXCEPT !.skFields = sk]
<1>1. t \in Types /\ n \in Nat /\ Mine(g) \in Ptrs /\ Mine(g)' = Mine(g)
      /\ Len(ModelTag[t]) \in Nat
  BY Lengths DEF TypeOK, Mine, Ptrs, Clause
<1>2. /\ pc[g] = "clauses" /\ n < Len(ModelTag[t]) /\ pos' = [pos EXCEPT ![g] = n + 1]
      /\ UNCHANGED <<tagCache, pc, arg, compressFields, got>>
  BY DEF Clause
<1>3. pos'[g] = n + 1 /\ pos' \in [Goroutines -> Nat]
      /\ \A h \in Goroutines \ {g} : pos'[h] = pos[h]
  BY <1>1, <1>2 DEF TypeOK
<1>4. heap' = [heap EXCEPT ![Mine(g)] = new]
  BY <1>1, <1>3 DEF Clause, TypeOK
<1>5. new.pkFields = pk /\ new.skFields = sk /\ DOMAIN new = DOMAIN modelTags
  <2>1. DOMAIN old = DOMAIN modelTags /\ "pkFields" \in DOMAIN old /\ "skFields" \in DOMAIN old
    BY <1>1 DEF TypeOK, modelTags
  <2> HIDE DEF old, pk, sk
  <2>2. QED
    BY <2>1
<1> HIDE DEF new
<1>6. /\ DOMAIN heap' = Ptrs /\ heap'[Mine(g)] = new
      /\ \A p \in Ptrs \ {Mine(g)} : heap'[p] = heap[p]
  BY <1>1, <1>4 DEF TypeOK
<1>7. TypeOK'
  <2>1. \A p \in Ptrs : DOMAIN heap'[p] = DOMAIN modelTags
    BY <1>5, <1>6 DEF TypeOK
  <2>2. QED
    BY <1>2, <1>3, <1>6, <2>1 DEF TypeOK
<1>8. \A h \in Goroutines \ {g} : ParseInv(h)'
  <2>1. \A h \in Goroutines \ {g}, u \in Types : heap'[<<h, u>>] = heap[<<h, u>>]
    BY <1>6 DEF Mine, Ptrs
  <2>2. QED
    BY <1>2, <1>3, <2>1, OthersKept
<1>9. ParseInv(g)'
  <2>1. IsKeys(old, t, n) /\ t \in Embeds /\ compressFields[g] = <<>>
    BY <1>2 DEF ParseInv
  <2>2. IsFields(pk, t, "pk", n + 1)
    BY <1>1, <1>2, <2>1, OneMoreClause DEF IsKeys
  <2>3. IsFields(sk, t, "sk", n + 1)
    BY <1>1, <1>2, <2>1, OneMoreClause DEF IsKeys
  <2>4. IsKeys(new, t, n + 1)
    BY <1>5, <2>2, <2>3 DEF IsKeys
  <2>5. pc'[g] = "clauses" /\ arg'[g] = t /\ compressFields'[g] = <<>> /\ n + 1 <= Len(ModelTag[t])
    BY <1>1, <1>2, <2>1
  <2> HIDE DEF t, n
  <2>6. QED
    BY <1>1, <1>3, <1>6, <2>1, <2>4, <2>5 DEF ParseInv
<1>10. \A u \in Types : CacheInv(u)'
  BY <1>2, <1>6, EntriesKept DEF Parsing
<1>11. QED
  BY <1>7, <1>8, <1>9, <1>10

LEMMA ClausesDoneStep ==
    ASSUME TagInv, NEW g \in Goroutines, ClausesDone(g)
    PROVE  TagInv'
<1> USE DEF TagInv
<1>1. /\ pc[g] = "clauses" /\ pos[g] = Len(ModelTag[arg[g]]) /\ Goto(g, "fields")
      /\ UNCHANGED <<tagCache, heap, arg, compressFields, got>>
  BY DEF ClausesDone
<1>2. TypeOK'
  BY <1>1, GotoEffect DEF TypeOK
<1>3. /\ pc'[g] = "fields" /\ pos'[g] = 0 /\ Mine(g)' = Mine(g)
      /\ \A h \in Goroutines \ {g} : pc'[h] = pc[h] /\ pos'[h] = pos[h] /\ arg'[h] = arg[h]
  BY <1>1, GotoEffect DEF TypeOK, Mine
<1>4. \A h \in Goroutines \ {g} : ParseInv(h)'
  BY <1>1, <1>3, OthersKept
<1>5. ParseInv(g)'
  <2>1. arg[g] \in Types
    BY DEF TypeOK
  <2>2. IsCompressed(<<>>, arg[g], 0) /\ Len(FieldTags[arg[g]]) \in Nat
    BY <2>1, NothingParsed, Lengths
  <2>3. compressFields[g] = <<>> /\ arg[g] \in Embeds /\ IsKeys(heap[Mine(g)], arg[g], pos[g])
    BY <1>1 DEF ParseInv
  <2>4. QED
    BY <1>1, <1>3, <2>2, <2>3 DEF ParseInv
<1>6. \A u \in Types : CacheInv(u)'
  BY <1>1, <1>3, EntriesKept DEF Parsing
<1>7. QED
  BY <1>2, <1>4, <1>5, <1>6

LEMMA FieldStep ==
    ASSUME TagInv, NEW g \in Goroutines, Field(g)
    PROVE  TagInv'
<1> USE DEF TagInv
<1> DEFINE t == arg[g]
           n == pos[g]
           names == compressFields[g]
           field == FieldTags[t][n + 1]
           new == IF field.tag = "compress" THEN Append(names, field.name) ELSE names
<1>1. t \in Types /\ n \in Nat /\ Len(FieldTags[t]) \in Nat /\ names \in Seq(STRING)
  BY Lengths DEF TypeOK
<1>2. /\ pc[g] = "fields" /\ n < Len(FieldTags[t]) /\ pos' = [pos EXCEPT ![g] = n + 1]
      /\ UNCHANGED <<tagCache, heap, pc, arg, got>>
  BY DEF Field
<1>3. /\ pos'[g] = n + 1 /\ pos' \in [Goroutines -> Nat]
      /\ \A h \in Goroutines \ {g} : pos'[h] = pos[h]
  BY <1>1, <1>2 DEF TypeOK
<1>4. compressFields' = [compressFields EXCEPT ![g] = new]
  BY <1>3 DEF Field
<1>5. /\ IsKeys(heap[Mine(g)], t, Len(ModelTag[t])) /\ t \in Embeds
      /\ IsCompressed(names, t, n)
  BY <1>2 DEF ParseInv
<1>6. new \in Seq(STRING) /\ IsCompressed(new, t, n + 1)
  BY <1>1, <1>2, <1>5, OneMoreField
<1> HIDE DEF new, t, n
<1>7. /\ compressFields'[g] = new /\ compressFields' \in [Goroutines -> Seq(STRING)]
      /\ \A h \in Goroutines \ {g} : compressFields'[h] = compressFields[h]
  BY <1>4, <1>6 DEF TypeOK
<1>8. TypeOK'
  BY <1>2, <1>3, <1>7 DEF TypeOK
<1>9. \A h \in Goroutines \ {g} : ParseInv(h)'
  BY <1>2, <1>3, <1>7, OthersKept
<1>10. ParseInv(g)'
  <2>1. pc'[g] = "fields" /\ arg'[g] = t /\ n + 1 <= Len(FieldTags[t]) /\ Mine(g)' = Mine(g)
    BY <1>1, <1>2 DEF t, Mine
  <2>2. QED
    BY <1>2, <1>3, <1>5, <1>6, <1>7, <2>1 DEF ParseInv
<1>11. \A u \in Types : CacheInv(u)'
  BY <1>2, EntriesKept DEF Parsing
<1>12. QED
  BY <1>8, <1>9, <1>10, <1>11

LEMMA FieldsDoneStep ==
    ASSUME TagInv, NEW g \in Goroutines, FieldsDone(g)
    PROVE  TagInv'
<1> USE DEF TagInv
<1> DEFINE t == arg[g]
           old == heap[Mine(g)]
           new == [old EXCEPT !.compressFields = compressFields[g]]
<1>1. /\ t \in Types /\ Mine(g) \in Ptrs
  BY DEF TypeOK, Mine, Ptrs
<1>2. /\ pc[g] = "fields" /\ pos[g] = Len(FieldTags[t]) /\ Goto(g, "store")
      /\ heap' = [heap EXCEPT ![Mine(g)] = new]
      /\ compressFields' = [compressFields EXCEPT ![g] = <<>>]
      /\ UNCHANGED <<tagCache, arg, got>>
  BY DEF FieldsDone
<1>3. /\ new.pkFields = old.pkFields /\ new.skFields = old.skFields
      /\ new.compressFields = compressFields[g] /\ DOMAIN new = DOMAIN modelTags
  <2>1. /\ DOMAIN old = DOMAIN modelTags /\ "compressFields" \in DOMAIN old
        /\ "pkFields" \in DOMAIN old /\ "skFields" \in DOMAIN old
    BY <1>1 DEF TypeOK, modelTags
  <2> HIDE DEF old
  <2>2. QED
    BY <2>1
<1>4. /\ IsKeys(old, t, Len(ModelTag[t])) /\ t \in Embeds
      /\ IsCompressed(compressFields[g], t, pos[g])
  BY <1>2 DEF ParseInv
<1>5. Complete(new, t)
  BY <1>2, <1>3, <1>4 DEF Complete, IsKeys
<1> HIDE DEF new, t
<1>6. /\ DOMAIN heap' = Ptrs /\ heap'[Mine(g)] = new
      /\ \A p \in Ptrs \ {Mine(g)} : heap'[p] = heap[p]
  BY <1>1, <1>2 DEF TypeOK
<1>7. /\ pc'[g] = "store" /\ pos'[g] = 0 /\ arg'[g] = t /\ Mine(g)' = Mine(g)
      /\ \A h \in Goroutines \ {g} : pc'[h] = pc[h] /\ pos'[h] = pos[h] /\ arg'[h] = arg[h]
  BY <1>2, GotoEffect DEF TypeOK, Mine, t
<1>8. /\ compressFields'[g] = <<>> /\ compressFields' \in [Goroutines -> Seq(STRING)]
      /\ \A h \in Goroutines \ {g} : compressFields'[h] = compressFields[h]
  BY <1>2 DEF TypeOK
<1>9. TypeOK'
  <2>1. \A p \in Ptrs : DOMAIN heap'[p] = DOMAIN modelTags
    BY <1>3, <1>6 DEF TypeOK
  <2>2. QED
    BY <1>2, <1>6, <1>8, <2>1, GotoEffect DEF TypeOK
<1>10. \A h \in Goroutines \ {g} : ParseInv(h)'
  <2>1. \A h \in Goroutines \ {g}, u \in Types : heap'[<<h, u>>] = heap[<<h, u>>]
    BY <1>6 DEF Mine, Ptrs
  <2>2. QED
    BY <1>7, <1>8, <2>1, OthersKept
<1>11. ParseInv(g)'
  BY <1>4, <1>5, <1>6, <1>7, <1>8 DEF ParseInv
<1>12. \A u \in Types : CacheInv(u)'
  BY <1>2, <1>6, <1>7, EntriesKept DEF Parsing
<1>13. QED
  BY <1>9, <1>10, <1>11, <1>12

LEMMA LoadOrStoreStep ==
    ASSUME TagInv, NEW g \in Goroutines, LoadOrStore(g)
    PROVE  TagInv'
<1> USE DEF TagInv
<1> DEFINE t == arg[g]
<1>1. /\ t \in Types /\ Mine(g) \in Ptrs /\ Mine(g) = <<g, t>>
  BY DEF TypeOK, Mine, Ptrs
<1>2. /\ pc[g] = "store" /\ Goto(g, "idle")
      /\ tagCache' = [tagCache EXCEPT ![t] = IF @ = Nil THEN Mine(g) ELSE @]
      /\ got' = [got EXCEPT ![t] = @ \cup {tagCache'[t]}]
      /\ UNCHANGED <<heap, arg, compressFields>>
  BY DEF LoadOrStore, Return
<1>3. /\ tagCache' \in [Types -> Ptrs \cup {Nil}] /\ tagCache'[t] \in Ptrs
      /\ tagCache[t] = Nil => tagCache'[t] = Mine(g)
      /\ tagCache[t] # Nil => tagCache'[t] = tagCache[t]
      /\ \A u \in Types \ {t} : tagCache'[u] = tagCache[u]
  BY <1>1, <1>2 DEF TypeOK
<1>4. /\ got' \in [Types -> SUBSET Ptrs] /\ got'[t] = got[t] \cup {tagCache'[t]}
      /\ \A u \in Types \ {t} : got'[u] = got[u]
  BY <1>1, <1>2, <1>3 DEF TypeOK
<1>5. TypeOK'
  BY <1>2, <1>3, <1>4, GotoEffect DEF TypeOK
<1>6. /\ pc'[g] = "idle"
      /\ \A h \in Goroutines \ {g} : pc'[h] = pc[h] /\ pos'[h] = pos[h] /\ arg'[h] = arg[h]
  BY <1>2, GotoEffect DEF TypeOK
<1>7. \A h \in Goroutines \ {g} : ParseInv(h)'
  BY <1>2, <1>6, OthersKept
<1>8. ParseInv(g) /\ ParseInv(g)'
  BY <1>2, <1>6 DEF ParseInv
<1>9. \A u \in Types \ {t} : CacheInv(u)'
  BY <1>2, <1>3, <1>4, <1>6 DEF CacheInv
<1>10. CacheInv(t) /\ Complete(heap[Mine(g)], t) /\ t \in Embeds
  BY <1>1, <1>2, <1>8 DEF ParseInv
<1> HIDE DEF t
<1>11. CacheInv(t)'
  <2>1. CASE tagCache[t] = Nil
    <3>1. tagCache'[t] = <<g, t>> /\ got'[t] = {<<g, t>>} /\ <<g, t>> # Nil
      BY <1>1, <1>3, <1>4, <1>10, <2>1 DEF CacheInv, Nil
    <3>2. \A h \in Goroutines : tagCache'[t] = <<h, t>> => h = g
      BY <3>1
    <3>3. t' = t
      BY <1>2 DEF t
    <3>4. QED
      BY <1>1, <1>2, <1>6, <1>10, <3>1, <3>2, <3>3 DEF CacheInv
  <2>2. CASE tagCache[t] # Nil
    <3>1. tagCache'[t] = tagCache[t] /\ got'[t] \subseteq {tagCache[t]} \ {Nil}
      BY <1>3, <1>4, <1>10, <2>2 DEF CacheInv
    <3>2. t' = t
      BY <1>2 DEF t
    <3>3. QED
      BY <1>1, <1>2, <1>6, <1>10, <3>1, <3>2 DEF CacheInv
  <2>3. QED
    BY <2>1, <2>2
<1>12. QED
  <2>1. t' = t
    BY <1>2 DEF t
  <2>2. QED
    BY <1>5, <1>7, <1>8, <1>9, <1>11, <2>1

LEMMA TagStep == TagInv /\ [Next]_vars => TagInv'
<1> SUFFICES ASSUME TagInv, [Next]_vars PROVE TagInv'
  OBVIOUS
<1>1. ASSUME NEW g \in Goroutines, Step(g) PROVE TagInv'
  BY <1>1, HitStep, PanicStep, MissStep, ClauseStep, ClausesDoneStep, FieldStep,
     FieldsDoneStep, LoadOrStoreStep DEF Step
<1>2. ASSUME NEW g \in Goroutines, NEW t \in Types, Call(g, t) PROVE TagInv'
  BY <1>2, CallStep
<1>3. CASE UNCHANGED vars
  <2>1. UNCHANGED <<tagCache, heap, pc, arg, pos, compressFields, got>>
    BY <1>3 DEF vars
  <2>2. TypeOK'
    BY <2>1 DEF TagInv, TypeOK
  <2>3. \A g \in Goroutines : ParseInv(g)'
    BY <2>1 DEF TagInv, ParseInv, Mine
  <2>4. \A t \in Types : CacheInv(t)'
    BY <2>1 DEF TagInv, CacheInv
  <2>5. QED
    BY <2>2, <2>3, <2>4 DEF TagInv
<1>4. QED
  BY <1>1, <1>2, <1>3 DEF Next

\* The inductive invariant of parseTags: the entry in the cache is complete and
\* its maker is done with it (tags.go 72-88).
THEOREM TagInvariance == Spec => []TagInv
  BY TagInit, TagStep, PTL DEF Spec

\* All calls for a type get the same entry, however many goroutines parse it at
\* the same time (tags.go 70-71 and 86).
THEOREM EntryIsUnique == Spec => []OneEntry
<1>1. TagInv => OneEntry
  <2> SUFFICES ASSUME TagInv, NEW t \in Types PROVE Cardinality(got[t]) <= 1
    BY DEF OneEntry
  <2>1. got[t] \subseteq {tagCache[t]}
    BY DEF TagInv, CacheInv
  <2>2. IsFiniteSet({tagCache[t]}) /\ Cardinality({tagCache[t]}) = 1
    BY FS_Singleton
  <2>3. Cardinality(got[t]) <= Cardinality({tagCache[t]})
    BY <2>1, <2>2, FS_Subset
  <2>4. QED
    BY <2>2, <2>3
<1>2. QED
  BY <1>1, TagInvariance, PTL

\* An entry a caller got is complete, for a type that embeds Model, and stays so
\* (tags.go 72-88).
THEOREM EntriesAreComplete == Spec => []EntryComplete
<1>1. TagInv => EntryComplete
  BY DEF TagInv, CacheInv, EntryComplete
<1>2. QED
  BY <1>1, TagInvariance, PTL
-----------------------------------------------------------------------------
(* Compressed fields. *)

\* The SDK and this package agree on the name of a field's attribute.
LEMMA NamesAgree ==
    ASSUME NEW f \in Fields
    PROVE  AttrName(f) = resolveAttrName(f) /\ resolveAttrName(f) \in Names
  BY DEF AttrName, resolveAttrName, Skipped, Names

\* What MarshalMap, and then marshalItem, put under the name of a field.
LEMMA MarshalMapAt ==
    ASSUME DistinctNames, NEW vals, NEW f \in Fields
    PROVE  MarshalMap(vals)[resolveAttrName(f)]
               = IF Skipped(f) THEN None ELSE Native(f, vals[f])
<1> DEFINE n == resolveAttrName(f)
           Has(g) == ~Skipped(g) /\ AttrName(g) = n
<1>1. n \in Names /\ \A g \in Fields : Has(g) => g = f
  BY NamesAgree DEF DistinctNames
<1>2. AttrName(f) = n
  BY NamesAgree
<1>3. CASE Skipped(f)
  <2>1. ~\E g \in Fields : Has(g)
    BY <1>1, <1>3
  <2>2. QED
    BY <1>1, <1>3, <2>1 DEF MarshalMap
<1>4. CASE ~Skipped(f)
  <2>1. \E g \in Fields : Has(g)
    BY <1>2, <1>4
  <2>2. (CHOOSE g \in Fields : Has(g)) = f
    BY <1>1, <2>1
  <2>3. QED
    BY <1>1, <1>4, <2>1, <2>2 DEF MarshalMap
<1>5. QED
  BY <1>3, <1>4

LEMMA MarshalItemAt ==
    ASSUME DistinctNames, NEW p \in Programs, NEW vals,
           NEW f \in Fields
    PROVE  marshalItem(p, vals)[resolveAttrName(f)]
               = IF f \in Compressed[p] THEN compressJSON(vals[f])
                 ELSE IF Skipped(f) THEN None ELSE Native(f, vals[f])
<1> DEFINE n == resolveAttrName(f)
           Has(g) == resolveAttrName(g) = n
<1>1. n \in Names /\ \A g \in Compressed[p] : Has(g) => g = f
  BY NamesAgree, CompressAssumption DEF DistinctNames
<1>2. CASE f \in Compressed[p]
  <2>1. (CHOOSE g \in Compressed[p] : Has(g)) = f
    BY <1>1, <1>2
  <2>2. QED
    BY <1>1, <1>2, <2>1 DEF marshalItem
<1>3. CASE f \notin Compressed[p]
  <2>1. ~\E g \in Compressed[p] : Has(g)
    BY <1>1, <1>3
  <2>2. marshalItem(p, vals)[n] = MarshalMap(vals)[n]
    BY <1>1, <2>1 DEF marshalItem
  <2>3. QED
    BY <1>3, <2>2, MarshalMapAt
<1>4. QED
  BY <1>2, <1>3

\* Native and compressed attributes have the type of an attribute.
LEMMA AttrTypes ==
    ASSUME NEW f \in Fields, NEW v \in Values \cup {Zero}
    PROVE  Native(f, v) \in Attr /\ compressJSON(v) \in Attr
  BY DEF Native, compressJSON, Attr

LEMMA MarshalType ==
    ASSUME NEW p \in Programs,
           NEW vals \in [Fields -> Values]
    PROVE  marshalItem(p, vals) \in [Names -> Attr]
<1>1. \A f \in Fields : vals[f] \in Values \cup {Zero}
  OBVIOUS
<1>2. ASSUME NEW n \in Names PROVE MarshalMap(vals)[n] \in Attr
  <2> DEFINE Has(g) == ~Skipped(g) /\ AttrName(g) = n
  <2>1. CASE \E g \in Fields : Has(g)
    <3> DEFINE f == CHOOSE g \in Fields : Has(g)
    <3>1. f \in Fields
      BY <2>1
    <3>2. MarshalMap(vals)[n] = Native(f, vals[f])
      BY <2>1 DEF MarshalMap
    <3> HIDE DEF f
    <3>3. QED
      BY <1>1, <3>1, <3>2, AttrTypes
  <2>2. CASE ~\E g \in Fields : Has(g)
    BY <2>2 DEF MarshalMap, Attr
  <2>3. QED
    BY <2>1, <2>2
<1>3. ASSUME NEW n \in Names PROVE marshalItem(p, vals)[n] \in Attr
  <2> DEFINE Has(g) == resolveAttrName(g) = n
  <2>1. CASE \E g \in Compressed[p] : Has(g)
    <3> DEFINE f == CHOOSE g \in Compressed[p] : Has(g)
    <3>1. f \in Compressed[p] /\ f \in Fields
      BY <2>1, CompressAssumption
    <3>2. marshalItem(p, vals)[n] = compressJSON(vals[f])
      BY <2>1 DEF marshalItem
    <3> HIDE DEF f
    <3>3. QED
      BY <1>1, <3>1, <3>2, AttrTypes
  <2>2. CASE ~\E g \in Compressed[p] : Has(g)
    BY <1>2, <2>2 DEF marshalItem
  <2>3. QED
    BY <2>1, <2>2
<1>4. QED
  BY <1>3 DEF marshalItem

\* What a program finds under the name of a field: compressed fields are set
\* aside exactly if it has them tagged.
LEMMA Extracted ==
    ASSUME DistinctNames, TaggedIsText,
           NEW p \in Programs, NEW f \in Fields, FieldInv(f)
    PROVE  LET n == resolveAttrName(f)
           IN  /\ f \in extractCompressedFields(p)
                      <=> f \in Compressed[p] /\ row[n] = compressJSON(last[f])
               /\ filtered(p)[n] = IF f \in extractCompressedFields(p)
                                     THEN None ELSE row[n]
<1> DEFINE n == resolveAttrName(f)
<1>1. /\ None.type = "none" /\ compressJSON(last[f]).type = "B"
      /\ f \in Compressed[p] => Native(f, last[f]).type = "S"
  BY DEF None, compressJSON, Native, TaggedIsText
<1>2. f \in extractCompressedFields(p)
          <=> f \in Compressed[p] /\ row[n] = compressJSON(last[f])
  BY <1>1 DEF extractCompressedFields, FieldInv
<1>3. \A g \in extractCompressedFields(p) : resolveAttrName(g) = n => g = f
  BY CompressAssumption DEF extractCompressedFields, DistinctNames
<1>4. filtered(p)[n] = IF f \in extractCompressedFields(p)
                         THEN None ELSE row[n]
  BY <1>3, NamesAgree DEF filtered
<1>5. QED
  BY <1>2, <1>4

\* A program that has tagged what any program has reads the row.
LEMMA NewestUnmarshals ==
    ASSUME DistinctNames, TaggedIsText,
           \A f \in Fields : FieldInv(f), NEW p \in Programs, Newest(p)
    PROVE  Unmarshals(p)
<1>1. ASSUME NEW f \in Fields PROVE Fits(f, filtered(p)[AttrName(f)])
  <2> DEFINE a == filtered(p)[AttrName(f)]
             b == row[resolveAttrName(f)]
  <2>1. /\ f \in extractCompressedFields(p)
               <=> f \in Compressed[p] /\ b = compressJSON(last[f])
        /\ a = IF f \in extractCompressedFields(p) THEN None ELSE b
    BY NamesAgree, Extracted
  <2>2. b = compressJSON(last[f]) /\ a # None => a = Native(f, last[f])
    BY <2>1, CompressAssumption DEF FieldInv, Newest
  <2>3. a = None \/ a = Native(f, last[f])
    BY <2>1, <2>2 DEF FieldInv
  <2> HIDE DEF a
  <2>4. Fits(f, a)
    BY <2>3 DEF Fits, Native
  <2>5. QED
    BY <2>4 DEF a
<1>2. ASSUME NEW f \in extractCompressedFields(p) PROVE Decompresses(f)
  <2>1. f \in Fields
    BY CompressAssumption DEF extractCompressedFields
  <2>2. row[resolveAttrName(f)] = compressJSON(last[f])
    BY <2>1, Extracted
  <2>3. QED
    BY <2>2 DEF Decompresses, compressJSON
<1>3. QED
  BY <1>1, <1>2 DEF Unmarshals

\* What a program reads, if it reads the row, is what was written last.
LEMMA UnmarshalsLast ==
    ASSUME DistinctNames, TaggedIsText,
           \A f \in Fields : FieldInv(f), NEW p \in Programs, Unmarshals(p),
           NEW f \in Fields, ~Skipped(f)
    PROVE  unmarshalItemInto(p)[f] = last[f]
<1> DEFINE a == filtered(p)[AttrName(f)]
           b == row[resolveAttrName(f)]
<1>1. /\ f \in extractCompressedFields(p)
             <=> f \in Compressed[p] /\ b = compressJSON(last[f])
      /\ a = IF f \in extractCompressedFields(p) THEN None ELSE b
  BY NamesAgree, Extracted
<1>2. CASE f \in extractCompressedFields(p)
  BY <1>1, <1>2 DEF unmarshalItemInto, compressJSON
<1>3. CASE f \notin extractCompressedFields(p)
  <2>1. unmarshalItemInto(p)[f] = UnmarshalMap(filtered(p), f)
    BY <1>3 DEF unmarshalItemInto
  <2>2. CASE b = None /\ last[f] = Zero
    BY <1>1, <1>3, <2>1, <2>2 DEF UnmarshalMap
  <2>3. CASE b = Native(f, last[f])
    <3>1. b.form = "native" /\ b.val = last[f] /\ b.type # "none"
      BY <2>3 DEF Native
    <3>2. b # None
      BY <3>1 DEF None
    <3>3. QED
      BY <1>1, <1>3, <2>1, <3>1, <3>2 DEF UnmarshalMap
  <2>4. ASSUME NEW q \in Programs, f \in Compressed[q], b = compressJSON(last[f])
        PROVE  FALSE
    <3>1. a = b /\ b.type = "B" /\ Kind[f] = "text"
      BY <1>1, <1>3, <2>4 DEF compressJSON, TaggedIsText
    <3>2. b # None
      BY <3>1 DEF None
    <3>3. ~Fits(f, a)
      BY <3>1, <3>2 DEF Fits
    <3>4. QED
      BY <3>3 DEF Unmarshals
  <2>5. QED
    BY <2>2, <2>3, <2>4 DEF FieldInv
<1>4. QED
  BY <1>2, <1>3

LEMMA CompressInvInit ==
    CompressInit => CompressInv
<1> SUFFICES ASSUME CompressInit PROVE CompressInv
  OBVIOUS
<1>1. CompressTypeOK
  BY DEF CompressInit, CompressTypeOK, Attr, Vals
<1>2. \A f \in Fields : FieldInv(f)
  BY NamesAgree DEF CompressInit, FieldInv
<1>3. NewestReadsAll
  BY DEF CompressInit, NewestReadsAll
<1>4. QED
  BY <1>1, <1>2, <1>3 DEF CompressInv

LEMMA CompressInvStep ==
    ASSUME DistinctNames, TaggedIsText,
           CompressInv, [CompressNext]_compressVars
    PROVE  CompressInv'
<1>0. CompressTypeOK /\ (\A f \in Fields : FieldInv(f)) /\ NewestReadsAll
  BY DEF CompressInv
<1>1. ASSUME NEW p \in Programs, NEW vals \in [Fields -> Values], Put(p, vals)
      PROVE  CompressInv'
  <2>1. row' = marshalItem(p, vals) /\ last' = vals /\ read' = read
    BY <1>1 DEF Put
  <2>2. CompressTypeOK'
    BY <1>0, <2>1, MarshalType DEF CompressTypeOK, Vals
  <2>3. \A f \in Fields : FieldInv(f)'
    BY <2>1, MarshalItemAt DEF FieldInv
  <2>4. QED
    BY <1>0, <2>1, <2>2, <2>3 DEF CompressInv, NewestReadsAll
<1>2. ASSUME NEW g \in Fields, NEW v \in Values, Set(g, v)
      PROVE  CompressInv'
  <2>1. /\ row' = [row EXCEPT ![resolveAttrName(g)] = Native(g, v)]
        /\ last' = [last EXCEPT ![g] = v] /\ read' = read
    BY <1>2 DEF Set
  <2>2. CompressTypeOK'
    <3>1. Native(g, v) \in Attr
      BY AttrTypes
    <3>2. QED
      BY <1>0, <2>1, <3>1 DEF CompressTypeOK, Vals
  <2>3. ASSUME NEW f \in Fields PROVE FieldInv(f)'
    <3>1. resolveAttrName(f) \in Names /\ resolveAttrName(g) \in Names
      BY NamesAgree
    <3>2. CASE f = g
      BY <1>0, <2>1, <3>1, <3>2 DEF FieldInv, CompressTypeOK, Vals
    <3>3. CASE f # g
      <4>1. resolveAttrName(f) # resolveAttrName(g)
        BY <3>3 DEF DistinctNames
      <4>2. /\ row'[resolveAttrName(f)] = row[resolveAttrName(f)]
            /\ last'[f] = last[f]
        BY <1>0, <2>1, <3>1, <3>3, <4>1 DEF CompressTypeOK, Vals
      <4>3. QED
        BY <1>0, <4>2 DEF FieldInv
    <3>4. QED
      BY <3>2, <3>3
  <2>4. QED
    BY <1>0, <2>1, <2>2, <2>3 DEF CompressInv, NewestReadsAll
<1>3. ASSUME NEW p \in Programs, Read(p) PROVE CompressInv'
  <2>1. /\ read' = [by |-> p, err |-> ~Unmarshals(p),
                    vals |-> IF Unmarshals(p) THEN unmarshalItemInto(p)
                                                ELSE [f \in Fields |-> Zero]]
        /\ UNCHANGED <<row, last>>
    BY <1>3 DEF Read
  <2>2. unmarshalItemInto(p) \in [Fields -> Values \cup {Zero, Gzipped}]
    <3>1. ASSUME NEW f \in Fields
          PROVE  unmarshalItemInto(p)[f] \in Values \cup {Zero, Gzipped}
      <4>1. last[f] \in Values \cup {Zero}
        BY <1>0 DEF CompressTypeOK, Vals
      <4>2. CASE f \in extractCompressedFields(p)
        <5>1. row[resolveAttrName(f)] = compressJSON(last[f])
          BY <1>0, <4>2, Extracted
        <5>2. row[resolveAttrName(f)].val = last[f]
          BY <5>1 DEF compressJSON
        <5>3. QED
          BY <4>1, <4>2, <5>2 DEF unmarshalItemInto
      <4>3. CASE f \notin extractCompressedFields(p)
        <5> DEFINE a == filtered(p)[AttrName(f)]
        <5>1. a \in {None, Native(f, last[f]), compressJSON(last[f])}
          BY <1>0, <4>3, NamesAgree, Extracted DEF FieldInv
        <5>2. a = None \/ a.val = last[f]
          BY <5>1 DEF Native, compressJSON
        <5>3. UnmarshalMap(filtered(p), f) \in Values \cup {Zero, Gzipped}
          BY <4>1, <5>2 DEF UnmarshalMap
        <5>4. QED
          BY <4>3, <5>3 DEF unmarshalItemInto
      <4>4. QED
        BY <4>2, <4>3
    <3>2. QED
      BY <3>1 DEF unmarshalItemInto
  <2>3. CompressTypeOK'
    <3>1. (~Unmarshals(p)) \in BOOLEAN
      OBVIOUS
    <3>2. QED
      BY <1>0, <2>1, <2>2, <3>1 DEF CompressTypeOK
  <2>4. NewestReadsAll'
    <3>1. Newest(p) => Unmarshals(p)
      BY <1>0, NewestUnmarshals
    <3>2. read'.by = p /\ read'.err = ~Unmarshals(p)
      BY <2>1
    <3>3. QED
      BY <3>1, <3>2 DEF NewestReadsAll, Newest
  <2>5. QED
    BY <1>0, <2>1, <2>3, <2>4 DEF CompressInv, FieldInv
<1>4. CASE UNCHANGED compressVars
  BY <1>0, <1>4 DEF compressVars, CompressInv, CompressTypeOK, FieldInv, NewestReadsAll
<1>5. QED
  BY <1>1, <1>2, <1>3, <1>4 DEF CompressNext

\* Each attribute holds what was written last, in a form some program gives it
\* (compress.go 54-79), and the newest program has not failed to read.
THEOREM CompressInvariance ==
    ASSUME DistinctNames, TaggedIsText
    PROVE  CompressSpec => []CompressInv
<1>1. CompressInit => CompressInv
  BY CompressInvInit
<1>2. CompressInv /\ [CompressNext]_compressVars => CompressInv'
  BY CompressInvStep
<1>3. QED
  BY <1>1, <1>2, PTL DEF CompressSpec

\* A program with all tags reads every row, also the ones that were written
\* before a tag (compress.go 153-156, 173-176).
THEOREM NewestReads ==
    ASSUME DistinctNames, TaggedIsText
    PROVE  CompressSpec => []NewestReadsAll
<1>1. CompressInv => NewestReadsAll
  BY DEF CompressInv
<1>2. QED
  BY <1>1, CompressInvariance, PTL

\* A read that succeeds returns what was written last, whichever of the programs
\* wrote and reads, and with whatever tags (compress.go 81-106).
THEOREM LastIsRead ==
    ASSUME DistinctNames, TaggedIsText
    PROVE  CompressSpec => ReadsLastWritten
<1>1. ASSUME CompressInv, NEW p \in Programs, Read(p), ~read'.err,
             NEW f \in Fields, ~Skipped(f)
      PROVE  read'.vals[f] = last[f]
  <2>1. Unmarshals(p) /\ read'.vals = unmarshalItemInto(p)
    BY <1>1 DEF Read
  <2>2. QED
    BY <1>1, <2>1, UnmarshalsLast DEF CompressInv
<1>2. CompressInv /\ [CompressNext]_compressVars =>
          \A p \in Programs : Read(p) /\ ~read'.err =>
              \A f \in Fields : ~Skipped(f) => read'.vals[f] = last[f]
  BY <1>1
<1>3. QED
  BY <1>2, CompressInvariance, PTL DEF CompressSpec, ReadsLastWritten
=============================================================================
