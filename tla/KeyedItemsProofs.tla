-------------------------- MODULE KeyedItemsProofs --------------------------
(***************************************************************************)
(* Proofs about KeyedItems, for any types, tags and values of the fields:  *)
(* that keys tell items apart, and what follows for the stored rows.       *)
(***************************************************************************)
EXTENDS KeyedItems, WellFoundedInduction, TLAPS

-----------------------------------------------------------------------------
(* Induction over the numbers, as facts about sets. *)

\* A set of numbers that is not empty has a smallest member.
LEMMA Smallest ==
    ASSUME NEW S \in SUBSET Nat, S # {}
    PROVE  \E x \in S : \A y \in S : x <= y
<1> DEFINE R == OpToRel(<, Nat)
<1>1. IsWellFoundedOn(R, Nat)
  BY NatLessThanWellFounded
<1>2. \A x \in Nat, y \in Nat : y < x => <<y, x>> \in R
  BY DEF OpToRel
<1> HIDE DEF R
<1>3. PICK x \in S : \A y \in S : ~(<<y, x>> \in R)
  BY <1>1, WFMin
<1>4. ASSUME NEW y \in S PROVE x <= y
  <2>1. x \in Nat /\ y \in Nat /\ <<y, x>> \notin R
    BY <1>3
  <2>2. ~(y < x)
    BY <1>2, <2>1
  <2>3. QED
    BY <2>1, <2>2
<1>5. QED
  BY <1>4

\* Induction, of which the set is the numbers with the property in question.
LEMMA Induction ==
    ASSUME NEW S, 0 \in S, \A n \in Nat : n \in S => n + 1 \in S
    PROVE  Nat \subseteq S
<1>1. SUFFICES ASSUME Nat \ S # {} PROVE FALSE
  OBVIOUS
<1>2. PICK x \in Nat \ S : \A y \in Nat \ S : x <= y
  BY <1>1, Smallest
<1>3. x # 0 /\ x - 1 \in Nat /\ x - 1 < x
  BY <1>2
<1>4. x - 1 \in S
  BY <1>2, <1>3
<1>5. QED
  BY <1>2, <1>3, <1>4

-----------------------------------------------------------------------------
(* Flattening, of which SequencesExt has the recursion. *)

\* f is what the recursion computes for the first m sequences.
Flattens(f, seqs, m) ==
    f = [i \in 1..m |-> IF i = 1 THEN seqs[i] ELSE f[i - 1] \o seqs[i]]

\* For every length there is such a function.
LEMMA FlatteningExists ==
    ASSUME NEW seqs, NEW n \in Nat
    PROVE  \E f : Flattens(f, seqs, n)
<1> DEFINE Good == {m \in Nat : \E f : Flattens(f, seqs, m)}
<1>1. 0 \in Good
  <2>1. Flattens(<<>>, seqs, 0)
    BY DEF Flattens
  <2>2. QED
    BY <2>1
<1>2. ASSUME NEW m \in Nat, m \in Good PROVE m + 1 \in Good
  <2>1. PICK f : Flattens(f, seqs, m)
    BY <1>2
  <2>2. \A i \in 1..m : f[i] = IF i = 1 THEN seqs[i] ELSE f[i - 1] \o seqs[i]
    BY <2>1 DEF Flattens
  <2> DEFINE g == [i \in 1..(m + 1) |->
                      IF i = m + 1 THEN IF i = 1 THEN seqs[i] ELSE f[m] \o seqs[i]
                      ELSE f[i]]
             h == [i \in 1..(m + 1) |-> IF i = 1 THEN seqs[i] ELSE g[i - 1] \o seqs[i]]
  <2>3. ASSUME NEW i \in 1..(m + 1) PROVE g[i] = h[i]
    <3>1. CASE i = m + 1
      BY <3>1
    <3>2. CASE i # m + 1
      <4>1. i \in 1..m /\ g[i] = f[i]
        BY <3>2
      <4>2. i # 1 => i - 1 \in 1..m /\ g[i - 1] = f[i - 1]
        BY <4>1
      <4>3. QED
        BY <2>2, <4>1, <4>2
    <3>3. QED
      BY <3>1, <3>2
  <2>4. g = h
    BY <2>3
  <2>5. Flattens(g, seqs, m + 1)
    BY <2>4 DEF Flattens
  <2>6. QED
    BY <2>5
<1> HIDE DEF Good
<1>3. n \in Good
  BY <1>1, <1>2, Induction
<1>4. QED
  BY <1>3 DEF Good

\* What FlattenSeq returns is a sequence that ends as the last one ends.
LEMMA Flattened ==
    ASSUME NEW S, NEW seqs \in Seq(Seq(S)), seqs # <<>>
    PROVE  /\ FlattenSeq(seqs) \in Seq(S)
           /\ \A x \in S : seqs[Len(seqs)] = <<x>> =>
                 /\ FlattenSeq(seqs) # <<>>
                 /\ FlattenSeq(seqs)[Len(FlattenSeq(seqs))] = x
<1> DEFINE n == Len(seqs)
           flatten == CHOOSE f : Flattens(f, seqs, n)
<1>1. n \in Nat /\ n > 0
  OBVIOUS
<1>2. Flattens(flatten, seqs, n)
  BY <1>1, FlatteningExists
<1>3. FlattenSeq(seqs) = flatten[n]
  BY <1>1 DEF FlattenSeq, Flattens
<1> HIDE DEF flatten
<1>4. \A i \in 1..n : flatten[i] = IF i = 1 THEN seqs[i] ELSE flatten[i - 1] \o seqs[i]
  BY <1>2 DEF Flattens
<1>5. \A i \in 1..n : seqs[i] \in Seq(S)
  OBVIOUS
<1> DEFINE Typed == {m \in Nat : m \in 1..n => flatten[m] \in Seq(S)}
<1>6. \A i \in 1..n : flatten[i] \in Seq(S)
  <2>1. 0 \in Typed
    OBVIOUS
  <2>2. ASSUME NEW m \in Nat, m \in Typed, m + 1 \in 1..n
        PROVE  flatten[m + 1] \in Seq(S)
    <3>1. seqs[m + 1] \in Seq(S)
      BY <1>5, <2>2
    <3>2. CASE m = 0
      BY <1>4, <2>2, <3>1, <3>2
    <3>3. CASE m # 0
      <4>1. flatten[m] \in Seq(S)
        BY <2>2, <3>3
      <4>2. flatten[m + 1] = flatten[m] \o seqs[m + 1]
        <5>1. m + 1 # 1 /\ (m + 1) - 1 = m
          BY <3>3
        <5>2. QED
          BY <1>4, <2>2, <5>1
      <4>3. QED
        BY <3>1, <4>1, <4>2
    <3>4. QED
      BY <3>2, <3>3
  <2>3. \A m \in Nat : m \in Typed => m + 1 \in Typed
    BY <2>2
  <2> HIDE DEF Typed
  <2>4. Nat \subseteq Typed
    BY <2>1, <2>3, Induction
  <2>5. QED
    BY <2>4 DEF Typed
<1>7. FlattenSeq(seqs) \in Seq(S)
  BY <1>1, <1>3, <1>6
<1> HIDE DEF n
<1>8. ASSUME NEW x \in S, seqs[n] = <<x>>
      PROVE  FlattenSeq(seqs) # <<>> /\ FlattenSeq(seqs)[Len(FlattenSeq(seqs))] = x
  <2>1. CASE n = 1
    <3>1. FlattenSeq(seqs) = <<x>>
      BY <1>1, <1>3, <1>4, <1>8, <2>1
    <3>2. QED
      BY <3>1
  <2>2. CASE n # 1
    <3>1. PICK start \in Seq(S) : FlattenSeq(seqs) = start \o <<x>>
      <4>1. n - 1 \in 1..n
        BY <1>1, <2>2
      <4>2. flatten[n] = flatten[n - 1] \o <<x>>
        <5>1. n \in 1..n
          BY <1>1
        <5>2. flatten[n] = flatten[n - 1] \o seqs[n]
          BY <1>4, <2>2, <5>1
        <5>3. QED
          BY <1>8, <5>2
      <4>3. QED
        BY <1>3, <1>6, <4>1, <4>2
    <3>2. start \o <<x>> \in Seq(S) /\ Len(start \o <<x>>) = Len(start) + 1
          /\ (start \o <<x>>)[Len(start) + 1] = x
      OBVIOUS
    <3>3. QED
      BY <3>1, <3>2
  <2>3. QED
    BY <2>1, <2>2
<1>9. QED
  BY <1>7, <1>8 DEF n

-----------------------------------------------------------------------------
(* Keys. *)

\* What a key is made of.
Text == Types \cup Ids \cup STRING \cup {""}

\* What has a key: an item, or a value of which only the ID and the fields are set.
Keyed(item) ==
    item.type \in Types /\ item.id \in Ids /\ item.fields \in [Fields -> Values \cup {<<"">>}]

LEMMA ItemsAreKeyed == \A item \in Item : Keyed(item)
  BY DEF Item, Keyed

LEMMA Widened ==
    ASSUME NEW S, NEW T, S \subseteq T
    PROVE  /\ Seq(S) \subseteq Seq(T)
           /\ \A x \in S : <<x>> \in Seq(T)
<1>1. ASSUME NEW s \in Seq(S) PROVE s \in Seq(T)
  <2>1. s \in [1..Len(s) -> T] /\ Len(s) \in Nat
    OBVIOUS
  <2>2. QED
    BY <2>1
<1>2. QED
  BY <1>1

LEMMA PartsTypes ==
    ASSUME NEW item, Keyed(item), NEW name \in Fields \cup {"ID"}
    PROVE  Parts(item, name) \in Seq(Text)
<1>1. CASE name = "ID"
  <2>1. item.id \in Text
    BY DEF Keyed, Text
  <2> HIDE DEF Text
  <2>2. <<item.id>> \in Seq(Text)
    BY <2>1
  <2>3. QED
    BY <1>1, <2>2 DEF Parts
<1>2. CASE name # "ID"
  <2>1. item.fields[name] \in Values \cup {<<"">>}
    BY <1>2 DEF Keyed
  <2>2. STRING \subseteq Text /\ {""} \subseteq Text
    BY DEF Text
  <2>3. Seq(STRING) \subseteq Seq(Text)
    BY <2>2, Widened
  <2>4. <<"">> \in Seq(Text)
    BY <2>2, Widened, Zenon
  <2>5. QED
    BY <1>2, <2>1, <2>3, <2>4, KeyedAssumption DEF Parts
<1>3. QED
  BY <1>1, <1>2

\* A key begins with the name of the type, and ends with the ID if the fields do.
LEMMA BuiltKey ==
    ASSUME NEW item, Keyed(item), NEW names \in Seq(Fields \cup {"ID"}),
           names # <<>>, names[Len(names)] = "ID"
    PROVE  LET key == buildKey(item, names)
           IN  key[1] = item.type /\ key[Len(key)] = item.id
<1> DEFINE seqs == [i \in DOMAIN names |-> Parts(item, names[i])]
<1>1. seqs \in Seq(Seq(Text)) /\ Len(seqs) = Len(names) /\ seqs # <<>>
  <2>1. \A i \in DOMAIN names : Parts(item, names[i]) \in Seq(Text)
    BY PartsTypes
  <2>2. DOMAIN names = 1..Len(names) /\ Len(names) \in Nat /\ Len(names) > 0
    OBVIOUS
  <2>3. QED
    BY <2>1, <2>2
<1>2. seqs[Len(seqs)] = <<item.id>>
  <2>1. Len(names) \in DOMAIN names
    OBVIOUS
  <2>2. QED
    BY <1>1, <2>1 DEF Parts
<1>3. item.id \in Text /\ item.type \in Text
  BY DEF Keyed, Text
<1> DEFINE flat == FlattenSeq(seqs)
<1> HIDE DEF seqs
<1>4. flat \in Seq(Text) /\ flat # <<>> /\ flat[Len(flat)] = item.id
  BY <1>1, <1>2, <1>3, Flattened
<1>5. buildKey(item, names) = <<item.type>> \o flat
  BY DEF buildKey, seqs
<1> HIDE DEF flat
<1>6. LET key == <<item.type>> \o flat IN key[1] = item.type /\ key[Len(key)] = flat[Len(flat)]
  BY <1>3, <1>4
<1>7. QED
  BY <1>4, <1>5, <1>6

\* The sort key tells the items apart, whatever is in their fields (keys.go
\* 36-43).
LEMMA KeysTellApart ==
    ASSUME NEW i, NEW j, Keyed(i), Keyed(j), SK(i) = SK(j)
    PROVE  SameItem(i, j)
<1>1. ASSUME NEW item, Keyed(item)
      PROVE  SK(item)[1] = item.type /\ SK(item)[Len(SK(item))] = item.id
  <2> DEFINE clause == skFields[item.type]
             names == IF clause = <<>> \/ Last(clause) # "ID" THEN Append(clause, "ID")
                      ELSE clause
  <2>1. clause \in Seq(Fields \cup {"ID"})
    BY <1>1, KeyedAssumption DEF Keyed
  <2> HIDE DEF clause
  <2>2. names \in Seq(Fields \cup {"ID"}) /\ names # <<>> /\ names[Len(names)] = "ID"
    <3>1. CASE clause = <<>> \/ Last(clause) # "ID"
      <4>1. names = Append(clause, "ID")
        BY <3>1
      <4>2. QED
        BY <2>1, <4>1
    <3>2. CASE clause # <<>> /\ Last(clause) = "ID"
      <4>1. names = clause
        BY <3>2
      <4>2. clause[Len(clause)] = "ID"
        BY <3>2 DEF Last
      <4>3. QED
        BY <2>1, <3>2, <4>1, <4>2
    <3>3. QED
      BY <3>1, <3>2
  <2>3. SK(item) = buildKey(item, names)
    BY DEF SK, clause
  <2> HIDE DEF names
  <2>4. QED
    BY <1>1, <2>2, <2>3, BuiltKey
<1>2. QED
  BY <1>1 DEF SameItem

\* The key of a type without clauses is made of the type and the ID alone.
LEMMA DefaultKey ==
    ASSUME NEW i, NEW j, SameItem(i, j), requiresDefaultKey(i.type)
    PROVE  PK(i) = PK(j) /\ SK(i) = SK(j)
<1>1. pkFields[i.type] = <<>> /\ skFields[i.type] = <<>> /\ i.type = j.type /\ i.id = j.id
  BY DEF requiresDefaultKey, SameItem
<1>2. buildKey(i, <<"ID">>) = buildKey(j, <<"ID">>)
  <2>1. \A n \in DOMAIN <<"ID">> : Parts(i, <<"ID">>[n]) = Parts(j, <<"ID">>[n])
    BY <1>1 DEF Parts
  <2>2. [n \in DOMAIN <<"ID">> |-> Parts(i, <<"ID">>[n])] = [n \in DOMAIN <<"ID">> |-> Parts(j, <<"ID">>[n])]
    BY <2>1
  <2>3. QED
    BY <1>1, <2>2 DEF buildKey
<1>3. Append(<<>>, "ID") = <<"ID">>
  OBVIOUS
<1>4. QED
  BY <1>1, <1>2, <1>3 DEF PK, SK

\* A key is made of the type, the ID and the fields alone.
LEMMA SameKey ==
    ASSUME NEW i, NEW j, i.type = j.type, i.id = j.id, i.fields = j.fields
    PROVE  PK(i) = PK(j) /\ SK(i) = SK(j)
<1>1. \A name : Parts(i, name) = Parts(j, name)
  BY DEF Parts
<1>2. \A names : buildKey(i, names) = buildKey(j, names)
  <2> SUFFICES ASSUME NEW names PROVE buildKey(i, names) = buildKey(j, names)
    OBVIOUS
  <2>1. [n \in DOMAIN names |-> Parts(i, names[n])] = [n \in DOMAIN names |-> Parts(j, names[n])]
    BY <1>1
  <2>2. QED
    BY <2>1 DEF buildKey
<1>3. QED
  BY <1>2 DEF PK, SK

LEMMA ZeroVersion == 0 \in 0..MaxVersion
<1>1. MaxVersion \in Nat
  BY KeyedAssumption
<1>2. QED
  BY <1>1

LEMMA NewItemFacts ==
    ASSUME NEW t \in Types, NEW id \in Ids, NEW fields \in [Fields -> Values \cup {<<"">>}]
    PROVE  LET item == NewItem(t, id, fields)
           IN  item \in Item /\ Keyed(item) /\ item.type = t /\ item.id = id
  BY ZeroVersion DEF NewItem, Item, Keyed

-----------------------------------------------------------------------------
(* The stored rows. *)

LEMMA RowTypes ==
    ASSUME KeyedInv
    PROVE  /\ \A r \in rows : /\ r.item \in Item /\ Keyed(r.item)
                              /\ r = RowOf(r.item)
                              /\ r.pk = PK(r.item) /\ r.sk = SK(r.item)
                              /\ <<r.item.type, r.item.id>> \in used
           /\ \A c \in Callers : held[c] \in Item \cup {NoItem}
<1>1. \A r \in rows : r.item \in Item /\ r = RowOf(r.item) /\ <<r.item.type, r.item.id>> \in used
  BY DEF KeyedInv, TypeOK, RowsInv
<1>2. \A item : RowOf(item).pk = PK(item) /\ RowOf(item).sk = SK(item)
  BY DEF RowOf
<1>3. \A r \in rows : r.pk = PK(r.item) /\ r.sk = SK(r.item)
  BY <1>1, <1>2
<1>4. QED
  BY <1>1, <1>3, ItemsAreKeyed DEF KeyedInv, TypeOK

\* What is under the key of an item is that item.
LEMMA AtIsTheItem ==
    ASSUME KeyedInv, NEW item, Keyed(item), NEW r \in At(PK(item), SK(item))
    PROVE  SameItem(r.item, item) /\ r \in rows
<1>1. r \in rows /\ r.sk = SK(item)
  BY DEF At
<1>2. Keyed(r.item) /\ SK(r.item) = SK(item)
  BY <1>1, RowTypes
<1>3. QED
  BY <1>1, <1>2, KeysTellApart

LEMMA KeyedInit == Init => KeyedInv
  BY DEF Init, KeyedInv, TypeOK, RowsInv, OneRowPerKey, OneRowPerItem

\* A row that is written takes the place of those under its key.
LEMMA WriteStep ==
    ASSUME KeyedInv, NEW item \in Item,
           rows' = (rows \ At(PK(item), SK(item))) \cup {RowOf(item)},
           OwnIds => \A r \in rows \ At(PK(item), SK(item)) : ~SameItem(r.item, item),
           used \subseteq used', used' \subseteq Types \X Ids,
           <<item.type, item.id>> \in used',
           held' \in [Callers -> Item \cup {NoItem}]
    PROVE  KeyedInv'
<1>1. RowOf(item).item = item /\ RowOf(item).pk = PK(item) /\ RowOf(item).sk = SK(item)
  BY DEF RowOf
<1>2. \A r \in rows' : \/ r \in rows /\ ~(r.pk = PK(item) /\ r.sk = SK(item))
                       \/ r = RowOf(item)
  BY DEF At
<1>3. TypeOK'
  BY <1>1, <1>2 DEF KeyedInv, TypeOK
<1>4. ASSUME NEW r \in rows'
      PROVE  r = RowOf(r.item) /\ <<r.item.type, r.item.id>> \in used'
  <2>1. CASE r \in rows
    BY <2>1 DEF KeyedInv, RowsInv
  <2>2. CASE r = RowOf(item)
    BY <1>1, <2>2
  <2>3. QED
    BY <1>2, <2>1, <2>2
<1>5. OneRowPerKey'
  BY <1>1, <1>2 DEF KeyedInv, OneRowPerKey
<1>6. ASSUME OwnIds PROVE OneRowPerItem'
  <2>1. \A r \in rows' : (r \in rows /\ ~SameItem(r.item, item)) \/ r = RowOf(item)
    BY <1>6
  <2>2. QED
    BY <1>1, <1>6, <2>1 DEF KeyedInv, OneRowPerItem, SameItem
<1>7. QED
  BY <1>3, <1>4, <1>5, <1>6 DEF KeyedInv, RowsInv, RowOf, PK, SK, buildKey, Parts

\* A step that writes nothing, and may remove rows.
LEMMA RemoveStep ==
    ASSUME KeyedInv, rows' \subseteq rows,
           used \subseteq used', used' \subseteq Types \X Ids,
           held' \in [Callers -> Item \cup {NoItem}]
    PROVE  KeyedInv'
<1>1. TypeOK'
  BY DEF KeyedInv, TypeOK
<1>2. RowsInv'
  BY DEF KeyedInv, RowsInv, RowOf, PK, SK, buildKey, Parts
<1>3. OneRowPerKey' /\ (OwnIds => OneRowPerItem')
  BY DEF KeyedInv, OneRowPerKey, OneRowPerItem
<1>4. QED
  BY <1>1, <1>2, <1>3 DEF KeyedInv

\* What a Put makes of an item: the next version of it, under the same key.
LEMMA PutFacts ==
    ASSUME KeyedInv, NEW c \in Callers, NEW item \in Item, Put(c, item)
    PROVE  LET new == [item EXCEPT !.version = @ + 1]
           IN  /\ new \in Item /\ SameItem(item, new) /\ new.version = item.version + 1
               /\ PK(new) = PK(item) /\ SK(new) = SK(item)
               /\ item.version \in Nat
<1> DEFINE new == [item EXCEPT !.version = item.version + 1]
<1>1. item.version \in 0..MaxVersion /\ item.version < MaxVersion /\ MaxVersion \in Nat
  BY KeyedAssumption DEF Put, Item
<1> DEFINE v == item.version
<1>2. v \in Nat /\ v + 1 \in 0..MaxVersion
  <2>1. v \in 0..MaxVersion /\ v < MaxVersion /\ MaxVersion \in Nat
    BY <1>1
  <2> HIDE DEF v
  <2>2. QED
    BY <2>1
<1>3. new \in Item
  BY <1>2 DEF Item
<1>4. /\ new.type = item.type /\ new.id = item.id /\ new.fields = item.fields
      /\ new.version = item.version + 1
  BY DEF Item
<1>5. new = [item EXCEPT !.version = @ + 1]
  OBVIOUS
<1> HIDE DEF new
<1>6. PK(new) = PK(item) /\ SK(new) = SK(item)
  BY <1>4, SameKey
<1>7. QED
  BY <1>2, <1>3, <1>4, <1>5, <1>6 DEF SameItem

LEMMA PutStep ==
    ASSUME KeyedInv, NEW c \in Callers, NEW item \in Item, Put(c, item)
    PROVE  KeyedInv'
<1> DEFINE new == [item EXCEPT !.version = @ + 1]
           under == At(PK(item), SK(item))
<1>1. /\ held' = [held EXCEPT ![c] = new] /\ used' = used \cup {<<item.type, item.id>>}
      /\ item.version = 0 => MayCreate(item)
      /\ \/ Met(item) /\ rows' = (rows \ under) \cup {RowOf(new)}
         \/ rows' = rows
  BY DEF Put, Holds
<1>2. /\ new \in Item /\ SameItem(item, new)
      /\ PK(new) = PK(item) /\ SK(new) = SK(item)
  BY PutFacts
<1> HIDE DEF new
<1>3. /\ used \subseteq used' /\ used' \subseteq Types \X Ids
      /\ <<new.type, new.id>> \in used' /\ held' \in [Callers -> Item \cup {NoItem}]
  <2>1. item.type \in Types /\ item.id \in Ids
    BY DEF Item
  <2>2. new.type = item.type /\ new.id = item.id
    BY <1>2 DEF SameItem
  <2>3. used \subseteq Types \X Ids /\ held \in [Callers -> Item \cup {NoItem}]
    BY DEF KeyedInv, TypeOK
  <2>4. held' \in [Callers -> Item \cup {NoItem}]
    BY <1>1, <1>2, <2>3
  <2>5. used \subseteq used' /\ used' \subseteq Types \X Ids
    BY <1>1, <2>1, <2>3
  <2>6. <<new.type, new.id>> \in used'
    BY <1>1, <2>2
  <2>7. QED
    BY <2>4, <2>5, <2>6
<1>4. CASE Met(item) /\ rows' = (rows \ under) \cup {RowOf(new)}
  <2>1. ASSUME OwnIds, NEW r \in rows \ under, SameItem(r.item, new) PROVE FALSE
    <3>1. /\ <<r.item.type, r.item.id>> \in used /\ r.pk = PK(r.item) /\ r.sk = SK(r.item)
          /\ SameItem(r.item, item)
      BY <1>2, <2>1, RowTypes DEF SameItem
    <3>2. CASE item.version = 0
      <4>1. requiresDefaultKey(r.item.type)
        BY <1>1, <2>1, <3>1, <3>2 DEF MayCreate, SameItem
      <4>2. r.pk = PK(item) /\ r.sk = SK(item)
        BY <3>1, <4>1, DefaultKey
      <4>3. QED
        BY <2>1, <4>2 DEF At
    <3>3. CASE item.version # 0
      <4>1. PICK q \in under : TRUE
        BY <1>4, <3>3 DEF Met
      <4>2. SameItem(q.item, item) /\ q \in rows
        BY <4>1, AtIsTheItem, ItemsAreKeyed
      <4>3. r = q
        BY <2>1, <3>1, <4>2 DEF KeyedInv, OneRowPerItem, SameItem
      <4>4. QED
        BY <2>1, <4>1, <4>3
    <3>4. QED
      BY <3>2, <3>3
  <2>2. QED
    BY <1>2, <1>3, <1>4, <2>1, WriteStep
<1>5. CASE rows' = rows
  BY <1>3, <1>5, RemoveStep
<1>6. QED
  BY <1>1, <1>4, <1>5

\* An item of which fields were changed is an item.
LEMMA Changed ==
    ASSUME NEW item \in Item, NEW fields \in [Fields -> Values]
    PROVE  [item EXCEPT !.fields = fields] \in Item
<1>1. fields \in [Fields -> Values \cup {<<"">>}]
  OBVIOUS
<1>2. QED
  BY <1>1 DEF Item

LEMMA PutCases ==
    ASSUME KeyedInv, NEW c \in Callers,
           \/ \E t \in Types, id \in Ids, fields \in [Fields -> Values] : PutNew(c, t, id, fields)
           \/ \E fields \in [Fields -> Values] : PutHeld(c, fields)
    PROVE  \E item \in Item : Put(c, item)
<1>1. ASSUME NEW t \in Types, NEW id \in Ids, NEW fields \in [Fields -> Values],
             PutNew(c, t, id, fields)
      PROVE  \E item \in Item : Put(c, item)
  <2>1. fields \in [Fields -> Values \cup {<<"">>}]
    OBVIOUS
  <2>2. QED
    BY <1>1, <2>1, NewItemFacts DEF PutNew
<1>2. ASSUME NEW fields \in [Fields -> Values], PutHeld(c, fields)
      PROVE  \E item \in Item : Put(c, item)
  <2>1. held[c] \in Item
    BY <1>2, RowTypes DEF PutHeld
  <2>2. QED
    BY <1>2, <2>1, Changed DEF PutHeld
<1>3. QED
  BY <1>1, <1>2

LEMMA TransactGetStep ==
    ASSUME KeyedInv, NEW c \in Callers, NEW dst \in Item, TransactGet(c, dst)
    PROVE  KeyedInv'
<1>1. /\ rows' = rows /\ used' = used
      /\ \/ held' = [held EXCEPT ![c] = dst]
         \/ \E r \in rows : held' = [held EXCEPT ![c] = r.item]
  BY DEF TransactGet, Holds, At
<1>2. held' \in [Callers -> Item \cup {NoItem}] /\ used \subseteq Types \X Ids
  BY <1>1, RowTypes DEF KeyedInv, TypeOK
<1>3. QED
  BY <1>1, <1>2, RemoveStep

\* Get, Delete and TransactWrite's Delete write no row, and hold what they read.
LEMMA OtherSteps ==
    ASSUME KeyedInv, NEW c \in Callers,
           \/ \E t \in Types, id \in Ids : Get(c, t, id) \/ Delete(c, t, id)
           \/ \E fields \in [Fields -> Values] : TransactDelete(c, fields)
    PROVE  KeyedInv'
<1>1. rows' \subseteq rows /\ used' = used
  BY DEF Get, Delete, TransactDelete
<1>2. held' \in [Callers -> Item \cup {NoItem}]
  <2>1. held \in [Callers -> Item \cup {NoItem}]
    BY DEF KeyedInv, TypeOK
  <2>2. \/ held' = held
        \/ \E r \in rows : held' = [held EXCEPT ![c] = r.item]
    BY DEF Get, Delete, TransactDelete, Holds, ZeroAt, At
  <2>3. QED
    BY <2>1, <2>2, RowTypes
<1>3. used \subseteq Types \X Ids
  BY DEF KeyedInv, TypeOK
<1>4. QED
  BY <1>1, <1>2, <1>3, RemoveStep

\* What a step is.
LEMMA StepCases ==
    ASSUME KeyedInv, Next
    PROVE  \E c \in Callers :
               \/ \E item \in Item : Put(c, item) \/ TransactGet(c, item)
               \/ \E t \in Types, id \in Ids : Get(c, t, id) \/ Delete(c, t, id)
               \/ \E fields \in [Fields -> Values] : TransactDelete(c, fields)
<1>1. ASSUME NEW c \in Callers, NEW t \in Types, NEW id \in Ids, NEW fields \in [Fields -> Values]
      PROVE  NewItem(t, id, fields) \in Item
  <2>1. fields \in [Fields -> Values \cup {<<"">>}]
    OBVIOUS
  <2>2. QED
    BY <2>1, NewItemFacts
<1>2. ASSUME NEW c \in Callers, NEW fields \in [Fields -> Values], held[c] # NoItem
      PROVE  [held[c] EXCEPT !.fields = fields] \in Item
  BY <1>2, RowTypes, Changed
<1>3. QED
  BY <1>1, <1>2, PutCases DEF Next

LEMMA KeyedStep == KeyedInv /\ [Next]_vars => KeyedInv'
<1> SUFFICES ASSUME KeyedInv, [Next]_vars PROVE KeyedInv'
  OBVIOUS
<1>1. CASE UNCHANGED vars
  BY <1>1, RemoveStep DEF vars, KeyedInv, TypeOK
<1>2. CASE Next
  BY <1>2, StepCases, PutStep, TransactGetStep, OtherSteps
<1>3. QED
  BY <1>1, <1>2

\* The inductive invariant of the stored items and their keys, for any types,
\* tags and values, also values whose text contains "#" (keys.go 20-50).
THEOREM KeyedInvariance == Spec => []KeyedInv
  BY KeyedInit, KeyedStep, PTL DEF Spec

\* An item has one row, whatever fields of its key its callers change between
\* two calls (crud.go 156-157).
THEOREM ItemsHaveOneRow == ASSUME OwnIds PROVE Spec => []OneRowPerItem
<1>1. KeyedInv => OneRowPerItem
  BY DEF KeyedInv
<1>2. QED
  BY <1>1, KeyedInvariance, PTL

\* For a type without pk and sk clauses the key made of the ID alone is the key
\* of the item's row, and of no other (crud.go 45-54).
THEOREM ZeroKeyFinds == Spec => []ZeroKeyIsTheKey
<1>1. ASSUME KeyedInv, NEW r \in rows, requiresDefaultKey(r.item.type)
      PROVE  ZeroAt(r.item.type, r.item.id) = {r}
  <2> DEFINE zero == NewItem(r.item.type, r.item.id, [f \in Fields |-> <<"">>])
  <2>1. Keyed(r.item) /\ r.pk = PK(r.item) /\ r.sk = SK(r.item)
    BY <1>1, RowTypes
  <2>2. Keyed(zero) /\ SameItem(r.item, zero)
    <3>1. r.item.type \in Types /\ r.item.id \in Ids
      BY <1>1 DEF KeyedInv, TypeOK, Item
    <3>2. [f \in Fields |-> <<"">>] \in [Fields -> Values \cup {<<"">>}]
      OBVIOUS
    <3>3. Keyed(zero) /\ zero.type = r.item.type /\ zero.id = r.item.id
      BY <3>1, <3>2, NewItemFacts
    <3> HIDE DEF zero
    <3>4. QED
      BY <3>3 DEF SameItem
  <2>3. ZeroAt(r.item.type, r.item.id) = At(PK(zero), SK(zero))
    BY DEF ZeroAt
  <2> HIDE DEF zero
  <2>4. r.pk = PK(zero) /\ r.sk = SK(zero)
    BY <1>1, <2>1, <2>2, DefaultKey
  <2>5. \A s \in rows : s.pk = PK(zero) /\ s.sk = SK(zero) => s = r
    BY <1>1, <2>4 DEF KeyedInv, OneRowPerKey
  <2>6. QED
    BY <1>1, <2>3, <2>4, <2>5 DEF At
<1>2. KeyedInv => ZeroKeyIsTheKey
  BY <1>1 DEF ZeroKeyIsTheKey
<1>3. QED
  BY <1>2, KeyedInvariance, PTL

\* No write replaces the row of another item: the ID, the last part of every sort
\* key, keeps apart what the texts of the fields do not (keys.go 36-43).
THEOREM OthersAreNotReplaced == Spec => NeverReplacesAnother
<1>1. ASSUME KeyedInv, KeyedInv'
      PROVE  \A r \in rows, s \in rows' : r.pk = s.pk /\ r.sk = s.sk => SameItem(r.item, s.item)
  <2>1. SUFFICES ASSUME NEW r \in rows, NEW s \in rows', r.sk = s.sk
                 PROVE  SameItem(r.item, s.item)
    OBVIOUS
  <2>2. Keyed(r.item) /\ r.sk = SK(r.item)
    BY <1>1, RowTypes
  <2>3. Keyed(s.item) /\ s.sk = SK(s.item)
    <3>1. s.item \in Item /\ s = RowOf(s.item)
      BY <1>1 DEF KeyedInv, TypeOK, RowsInv, RowOf, PK, SK, buildKey, Parts
    <3>2. RowOf(s.item).sk = SK(s.item)
      BY DEF RowOf
    <3>3. QED
      BY <3>1, <3>2, ItemsAreKeyed
  <2>4. QED
    BY <2>1, <2>2, <2>3, KeysTellApart
<1>2. QED
  BY <1>1, KeyedInvariance, PTL DEF NeverReplacesAnother

\* A Put whose fields were changed since the item was read, or whose row is gone,
\* leaves no row that is not the next version of the one it replaces (crud.go
\* 101-105).
THEOREM PutsFollow == Spec => SuccessorsInPlace
<1>1. ASSUME KeyedInv, [Next]_vars, NEW s \in rows' \ rows
      PROVE  IF s.item.version = 1
             THEN \A r \in rows : ~(r.pk = s.pk /\ r.sk = s.sk)
             ELSE \E r \in rows : /\ r.pk = s.pk /\ r.sk = s.sk /\ SameItem(r.item, s.item)
                                  /\ s.item.version = r.item.version + 1
  <2>1. PICK c \in Callers, item \in Item : Put(c, item)
    <3>1. ~(rows' \subseteq rows)
      BY <1>1
    <3>2. Next
      BY <1>1, <3>1 DEF vars
    <3>3. PICK c \in Callers :
              \/ \E item \in Item : Put(c, item) \/ TransactGet(c, item)
              \/ \E t \in Types, id \in Ids : Get(c, t, id) \/ Delete(c, t, id)
              \/ \E fields \in [Fields -> Values] : TransactDelete(c, fields)
      BY <1>1, <3>2, StepCases
    <3>4. QED
      BY <3>1, <3>3 DEF TransactGet, Get, Delete, TransactDelete
  <2> DEFINE new == [item EXCEPT !.version = @ + 1]
  <2>2. /\ SameItem(item, new) /\ new.version = item.version + 1 /\ item.version \in Nat
        /\ PK(new) = PK(item) /\ SK(new) = SK(item)
    BY <1>1, <2>1, PutFacts
  <2>3. Met(item) /\ s = RowOf(new)
    BY <1>1, <2>1 DEF Put
  <2> HIDE DEF new
  <2>4. s.item = new /\ s.pk = PK(item) /\ s.sk = SK(item)
    BY <2>2, <2>3 DEF RowOf
  <2>5. CASE item.version = 0
    BY <2>2, <2>3, <2>4, <2>5 DEF Met, At
  <2>6. CASE item.version # 0
    <3>1. PICK r \in At(PK(item), SK(item)) : r.item.version = item.version
      BY <2>3, <2>6 DEF Met
    <3>2. SameItem(r.item, item) /\ r \in rows /\ r.pk = PK(item) /\ r.sk = SK(item)
      BY <1>1, <3>1, AtIsTheItem, ItemsAreKeyed DEF At
    <3>3. SameItem(r.item, s.item) /\ s.item.version = r.item.version + 1
      BY <2>2, <2>4, <3>1, <3>2 DEF SameItem
    <3>4. s.item.version # 1
      BY <2>2, <2>4, <2>6
    <3>5. QED
      BY <2>4, <3>2, <3>3, <3>4
  <2>7. QED
    BY <2>5, <2>6
<1>2. KeyedInv /\ [Next]_vars =>
          [\A s \in rows' \ rows :
              IF s.item.version = 1
              THEN \A r \in rows : ~(r.pk = s.pk /\ r.sk = s.sk)
              ELSE \E r \in rows : /\ r.pk = s.pk /\ r.sk = s.sk /\ SameItem(r.item, s.item)
                                   /\ s.item.version = r.item.version + 1]_vars
  BY <1>1
<1>3. QED
  BY <1>2, KeyedInvariance, PTL DEF Spec, SuccessorsInPlace
=============================================================================
