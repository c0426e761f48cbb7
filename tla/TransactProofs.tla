--------------------------- MODULE TransactProofs ---------------------------
(***************************************************************************)
(* Proofs about Transact, for any items, callers and sizes.                *)
(***************************************************************************)
EXTENDS Transact, FiniteSetTheorems, TLAPS

-----------------------------------------------------------------------------
(* Items, entries and copies. *)

LEMMA ItemFacts ==
    /\ \A k \in Ids : /\ NewItem(k) \in Item /\ IsNew(NewItem(k))
                      /\ NewItem(k).edits = {} /\ NewItem(k).version = 0
                      /\ NewItem(k).id = k
    /\ Absent \in Row /\ Absent.item = NoItem /\ NoItem.edits = {} /\ IsNew(NoItem)
    /\ ~Exists(Absent)
  BY DEF NewItem, NoItem, Absent, Row, Item, IsNew, Exists, Unset

\* What stampAndMarshal makes of a copy that was edited.
LEMMA StampFacts ==
    ASSUME NEW copy \in Item, NEW at \in Nat, at # 0
    PROVE  LET item == Stamp(Edit(copy, at), at, NoId)
           IN  /\ item \in Item /\ ~IsNew(item) /\ item.edits = copy.edits \cup {at}
               /\ IsNew(copy) => item.version = 1 /\ item.created = at
               /\ ~IsNew(copy) => item.version = copy.version + 1
<1> DEFINE e == Edit(copy, at)
<1>1. /\ e \in Item /\ e.edits = copy.edits \cup {at} /\ e.created = copy.created
      /\ e.version = copy.version /\ copy.version \in Nat /\ copy.created \in Nat
      /\ (IsNew(e) <=> IsNew(copy))
  BY DEF Edit, Item, IsNew
<1> HIDE DEF e
<1>2. CASE IsNew(copy)
  <2>1. SetType(e) \in Item /\ SetType(e).edits = e.edits /\ SetType(e).id = e.id
    BY <1>1 DEF SetType, Item
  <2>2. LET item == StampCreate(e, at, NoId)
        IN  item \in Item /\ item.edits = e.edits /\ item.version = 1 /\ item.created = at
    BY <1>1, <2>1 DEF StampCreate, Item
  <2>3. QED
    BY <1>1, <1>2, <2>2 DEF Stamp, IsNew, e
<1>3. CASE ~IsNew(copy)
  <2>1. e.version + 1 \in Nat
    BY <1>1
  <2>2. StampUpdate(e, at) \in Item
    BY <1>1, <2>1 DEF StampUpdate, Item
  <2>3. /\ StampUpdate(e, at).edits = e.edits /\ StampUpdate(e, at).version = e.version + 1
        /\ StampUpdate(e, at).created = e.created
    BY <1>1 DEF StampUpdate, Item
  <2>4. QED
    BY <1>1, <1>3, <2>2, <2>3 DEF Stamp, IsNew, e
<1>4. QED
  BY <1>2, <1>3

\* The three kinds of entries.
LEMMA PutEntryFacts ==
    ASSUME NEW copy \in Item, NEW at, at \in Nat, at # 0
    PROVE  /\ Entry("put", copy, at) \in Entries
           /\ Entry("put", copy, at).kind = "put" /\ Entry("put", copy, at).copy = copy
           /\ Entry("put", copy, at).row.item = Stamp(Edit(copy, at), at, NoId)
           /\ Entry("put", copy, at).cond = Condition(copy)
<1>1. Condition(copy) \in Conditions
  BY DEF Item, Conditions, Condition
<1>2. Condition(Edit(copy, at)) = Condition(copy)
  BY DEF Condition, Edit, Item, IsNew
<1>3. Marshal(Edit(copy, at), at, NoId) \in Row
  BY StampFacts DEF Marshal, Row, TypeName, Unset
<1>4. Marshal(Edit(copy, at), at, NoId).item = Stamp(Edit(copy, at), at, NoId)
  BY DEF Marshal
<1>5. QED
  BY <1>1, <1>2, <1>3, <1>4 DEF Entry, PutEntry, Entries

LEMMA OtherEntryFacts ==
    ASSUME NEW copy \in Item, NEW at
    PROVE  /\ Entry("delete", copy, at) \in Entries
           /\ Entry("delete", copy, at).kind = "delete" /\ Entry("delete", copy, at).copy = copy
           /\ Entry("delete", copy, at).row = Absent
           /\ Entry("check", copy, at) \in Entries
           /\ Entry("check", copy, at).kind = "check" /\ Entry("check", copy, at).copy = copy
           /\ Entry("check", copy, at).cond.kind = "version"
           /\ Entry("check", copy, at).cond.version = copy.version
<1>1. /\ copy.version \in Nat /\ Absent \in Row /\ NoCondition \in Conditions
      /\ [kind |-> "version", version |-> copy.version] \in Conditions
  BY ItemFacts DEF Item, NoCondition, Conditions
<1>2. QED
  BY <1>1 DEF Entry, DeleteEntry, CheckEntry, Entries

\* A new item is a good copy, and so is a row.
LEMMA GoodNew ==
    ASSUME NEW k \in Ids, NEW row, NEW l
    PROVE  GoodFor(NewItem(k), k, row, l)
  BY ItemFacts DEF GoodFor

LEMMA GoodRow ==
    ASSUME NEW k \in Ids, NEW row \in Row, NEW l, Exists(row), ~IsNew(row.item),
           \A n \in row.item.edits : n \in DOMAIN l /\ k \in l[n].puts
    PROVE  GoodFor(row.item, k, row, l)
<1>1. row.item \in Item /\ row.item.version \in Nat
  BY DEF Row, Item
<1>2. QED
  BY <1>1 DEF GoodFor

\* More is logged, and the row is the same one, deleted or a newer one.
LEMMA GoodKept ==
    ASSUME NEW k \in Ids, NEW copy, NEW row \in Row, NEW row2 \in Row, NEW l, NEW l2,
           GoodFor(copy, k, row, l), DOMAIN l2 = DOMAIN l,
           \A n \in DOMAIN l : l[n].puts \subseteq l2[n].puts /\ l[n].deletes \subseteq l2[n].deletes,
           \/ row2 = row
           \/ k \in DeletedIn(l2)
           \/ ~Exists(row)
           \/ Exists(row2) /\ row2.item.version > row.item.version
    PROVE  GoodFor(copy, k, row2, l2)
<1>1. k \notin DeletedIn(l2) => k \notin DeletedIn(l)
  BY DEF DeletedIn
<1>2. copy \in Item /\ copy.version \in Nat /\ row.item.version \in Nat /\ row2.item.version \in Nat
  BY DEF GoodFor, Item, Row
<1>3. ASSUME k \notin DeletedIn(l2), ~IsNew(copy)
      PROVE  /\ Exists(row2) /\ copy.version <= row2.item.version
             /\ copy.version = row2.item.version => copy = row2.item
  BY <1>1, <1>2, <1>3 DEF GoodFor
<1>4. QED
  BY <1>3 DEF GoodFor

-----------------------------------------------------------------------------
Calls ==
    [op : {"none", "get", "write"}, at : 0..MaxClock, keys : SUBSET Ids, puts : SUBSET Ids,
     answer : {"none", "ok", "condfail", "conflict"}]

\* What SnapshotRead says of one caller.
Snapshot(c) ==
    status[c] = "ok" /\ call[c].op = "get" =>
        \A n \in DOMAIN log : \A j, k \in (log[n].puts \cap call[c].keys) \ Deleted :
            n \in held[c][j].edits <=> n \in held[c][k].edits

LEMMA TransactInit == Init => TransactInv
<1> SUFFICES ASSUME Init PROVE TransactInv
  OBVIOUS
<1>1. NoCall \in Calls
  BY TransactAssumption DEF NoCall, Calls
<1>2. TypeOK
  <2>1. table \in [Ids -> Row] /\ held \in [Callers -> [Ids -> Item]]
    BY ItemFacts DEF Init
  <2>2. log \in [1..MaxClock -> [puts : SUBSET Ids, deletes : SUBSET Ids]]
    BY DEF Init
  <2>3. clock \in 0..MaxClock
    BY TransactAssumption DEF Init
  <2>4. call \in [Callers -> Calls]
    BY <1>1 DEF Init
  <2>5. QED
    BY <2>1, <2>2, <2>3, <2>4 DEF Init, TypeOK, Calls
<1>3. \A k \in Ids : RowInv(k)
  BY ItemFacts DEF Init, RowInv
<1>4. \A c \in Callers : HeldInv(c)
  BY GoodNew DEF Init, HeldInv, Good
<1>5. \A c \in Callers : CallInv(c)
  BY DEF Init, CallInv, NoCall
<1>6. SnapshotRead
  BY DEF Init, SnapshotRead, NoCall
<1>7. \A n \in DOMAIN log : log[n] = NoLog
  BY DEF Init, NoLog
<1>8. QED
  BY <1>2, <1>3, <1>4, <1>5, <1>6, <1>7 DEF TransactInv, Init

LEMMA NoCallFacts ==
    /\ NoCall \in Calls /\ NoCall.op = "none" /\ NoCall.puts = {} /\ NoCall.answer = "none"
    /\ \A keys \in SUBSET Ids :
          LET r == [NoCall EXCEPT !.op = "get", !.keys = keys]
          IN  r \in Calls /\ r.op = "get" /\ r.keys = keys /\ r.puts = {}
<1>1. 0 \in 0..MaxClock /\ 1..MaxClock \subseteq 0..MaxClock
  BY TransactAssumption
<1>2. QED
  BY <1>1 DEF NoCall, Calls

WriteCall(at, keys, puts) ==
    [NoCall EXCEPT !.op = "write", !.at = at, !.keys = keys, !.puts = puts]

LEMMA WriteCallFacts ==
    ASSUME NEW at, at \in 1..MaxClock, NEW keys \in SUBSET Ids, NEW puts \in SUBSET Ids
    PROVE  LET r == WriteCall(at, keys, puts)
           IN  r \in Calls /\ r.op = "write" /\ r.at = at /\ r.puts = puts /\ r.answer = "none"
<1>1. at \in 0..MaxClock
  BY TransactAssumption
<1>2. QED
  BY <1>1 DEF NoCall, Calls, WriteCall

\* The parts of the types.
LEMMA Types ==
    ASSUME TypeOK
    PROVE  /\ call \in [Callers -> Calls]
           /\ \A k \in Ids : table[k] \in Row /\ table[k].item \in Item
           /\ \A c \in Callers : /\ held[c] \in [Ids -> Item] /\ call[c] \in Calls
                                 /\ call[c].keys \subseteq Ids /\ call[c].puts \subseteq Ids
  BY DEF TypeOK, Calls, Row

\* A call returns, or a read is made: only its caller learns something.
LEMMA QuietStep ==
    ASSUME TransactInv, NEW c \in Callers, NEW h \in [Ids -> Item], NEW r \in Calls,
           NEW s \in {"ok", "lock", "err"},
           UNCHANGED <<table, net, log>>, clock' \in clock..MaxClock,
           held' = [held EXCEPT ![c] = h], call' = [call EXCEPT ![c] = r],
           status' = [status EXCEPT ![c] = s],
           \A k \in Ids : GoodFor(h[k], k, table[k], log),
           r.op = "write" => /\ call[c].op = "write" /\ r.at = call[c].at
                             /\ r.puts = call[c].puts /\ r.answer = "none"
                             /\ s = "ok" => log[r.at].puts = r.puts
                             /\ s = "lock" => call[c].answer = "condfail",
           s = "lock" => r.op = "write",
           s = "ok" /\ r.op = "get" =>
               \A n \in DOMAIN log : \A j, k \in (log[n].puts \cap r.keys) \ Deleted :
                   n \in h[j].edits <=> n \in h[k].edits
    PROVE  TransactInv'
<1>a. /\ clock \in Nat /\ MaxClock \in Nat /\ clock' \in 0..MaxClock /\ clock <= clock'
      /\ clock' \in Nat
  BY TransactAssumption DEF TransactInv, TypeOK
<1>1. TypeOK'
  BY <1>a, Types DEF TransactInv, TypeOK, Calls
<1>2. /\ held'[c] = h /\ call'[c] = r /\ status'[c] = s
      /\ \A d \in Callers \ {c} : held'[d] = held[d] /\ call'[d] = call[d] /\ status'[d] = status[d]
  BY Types DEF TransactInv, TypeOK
<1>3. Deleted' = Deleted
  BY DEF Deleted
<1>4. SnapshotRead'
  <2>1. \A d \in Callers \ {c} : Snapshot(d)'
    BY <1>2, <1>3 DEF TransactInv, SnapshotRead, Snapshot
  <2>2. Snapshot(c)'
    BY <1>2, <1>3 DEF Snapshot
  <2>3. QED
    BY <2>1, <2>2 DEF SnapshotRead, Snapshot
<1>5. \A k \in Ids : RowInv(k)'
  BY <1>3 DEF TransactInv, RowInv
<1>6. \A d \in Callers : HeldInv(d)'
  <2>1. HeldInv(c)'
    BY <1>2 DEF HeldInv, Good
  <2>2. \A d \in Callers \ {c} : HeldInv(d)'
    BY <1>2 DEF TransactInv, HeldInv, Good, Open
  <2>3. QED
    BY <2>1, <2>2
<1>7. \A d \in Callers : CallInv(d)'
  <2>1. \A d \in Callers : CallInv(d)
    BY DEF TransactInv
  <2>2. net' = net /\ log' = log /\ \A n : n \in 1..clock => n \in 1..clock'
    BY <1>a
  <2>3. CallInv(c)'
    <3>1. CASE r.op = "write"
      <4>1. /\ call[c].op = "write" /\ r.at = call[c].at /\ r.puts = call[c].puts
            /\ r.answer = "none" /\ CallInv(c)
        BY <2>1, <3>1
      <4>2. r.at \in 1..clock /\ log[r.at].puts \in {{}, r.puts}
        BY <4>1 DEF CallInv
      <4>3. s = "ok" => log[r.at].puts = r.puts
        BY <3>1
      <4>4. s = "lock" => log[r.at].puts = {} /\ \A w \in net : w.at # r.at
        <5>1. s = "lock" => call[c].answer = "condfail"
          BY <3>1
        <5>2. QED
          BY <4>1, <5>1 DEF CallInv
      <4>5. QED
        BY <1>2, <2>2, <3>1, <4>1, <4>2, <4>3, <4>4 DEF CallInv
    <3>2. CASE r.op # "write"
      BY <1>2, <3>2 DEF CallInv
    <3>3. QED
      BY <3>1, <3>2
  <2>4. ASSUME NEW d \in Callers \ {c} PROVE CallInv(d)'
    <3>1. CallInv(d) /\ call'[d] = call[d] /\ status'[d] = status[d]
      BY <1>2, <2>1
    <3>2. QED
      BY <2>2, <3>1 DEF CallInv
  <2>5. QED
    BY <2>3, <2>4
<1>8. \A w \in net : WriteInv(w)'
  <2> SUFFICES ASSUME NEW w \in net PROVE WriteInv(w)'
    OBVIOUS
  <2>1. WriteInv(w) /\ w.at <= clock'
    BY <1>a DEF TransactInv, WriteInv, TypeOK
  <2>2. \A k \in DOMAIN w.entries : Good(w.entries[k].copy, k)' <=> Good(w.entries[k].copy, k)
    BY DEF Good
  <2>3. \A d \in Callers : call'[d].op = "write" /\ call'[d].at = w.at =>
            /\ call'[d].puts = Of(w, "put")
            /\ status'[d] = "pending" /\ call'[d].answer = "none" =>
                  \A k \in call'[d].puts : held'[d][k] = w.entries[k].row.item
    BY <1>2, <2>1 DEF WriteInv
  <2>4. QED
    BY <2>1, <2>2, <2>3 DEF WriteInv
<1>9. \A n \in DOMAIN log' : n > clock' => log'[n] = NoLog
  BY <1>a DEF TransactInv, TypeOK
<1>10. QED
  BY <1>1, <1>4, <1>5, <1>6, <1>7, <1>8, <1>9 DEF TransactInv

\* A call that takes no reading of the clock.
LEMMA SameClock ==
    ASSUME TransactInv, clock' = clock PROVE clock' \in clock..MaxClock
  BY TransactAssumption DEF TransactInv, TypeOK

\* An idle caller has good copies.
LEMMA IdleGood ==
    ASSUME TransactInv, NEW c \in Callers, Idle(c), NEW k \in Ids
    PROVE  GoodFor(held[c][k], k, table[k], log)
  BY DEF TransactInv, HeldInv, Open, Idle, Good

LEMMA TooManyStep ==
    ASSUME TransactInv, NEW c \in Callers, NEW size, TooMany(c, size)
    PROVE  TransactInv'
<1>1. /\ status' = [status EXCEPT ![c] = "err"] /\ call' = [call EXCEPT ![c] = NoCall]
      /\ UNCHANGED <<table, clock, net, log>> /\ held' = held /\ Idle(c)
  BY DEF TooMany
<1>2. held[c] \in [Ids -> Item] /\ held' = [held EXCEPT ![c] = held[c]]
  BY <1>1 DEF TransactInv, TypeOK
<1>3. \A k \in Ids : GoodFor(held[c][k], k, table[k], log)
  BY <1>1, IdleGood
<1> DEFINE h == held[c]
<1> HIDE DEF h
<1>4. h \in [Ids -> Item] /\ held' = [held EXCEPT ![c] = h]
      /\ \A k \in Ids : GoodFor(h[k], k, table[k], log)
  BY <1>2, <1>3 DEF h
<1>5. QED
  BY <1>1, <1>4, NoCallFacts, SameClock, QuietStep

\* What a careful caller goes on with after a failed write.
LEMMA LeftGood ==
    ASSUME CarefulUse, NEW items, NEW keys \in SUBSET Ids,
           \A k \in Ids \ keys : items[k] \in Item /\ GoodFor(items[k], k, table[k], log)
    PROVE  /\ LeftStamped(items, keys) \in [Ids -> Item]
           /\ \A k \in Ids : GoodFor(LeftStamped(items, keys)[k], k, table[k], log)
<1>1. \A k \in Ids : LeftStamped(items, keys)[k] = IF k \in keys THEN NewItem(k) ELSE items[k]
  BY DEF LeftStamped, AfterError
<1>2. LeftStamped(items, keys) = [k \in Ids |-> LeftStamped(items, keys)[k]]
  BY DEF LeftStamped
<1>3. ASSUME NEW k \in Ids PROVE LeftStamped(items, keys)[k] \in Item
  <2>1. NewItem(k) \in Item
    BY ItemFacts
  <2>2. LeftStamped(items, keys)[k] = IF k \in keys THEN NewItem(k) ELSE items[k]
    BY <1>1
  <2>3. k \notin keys => items[k] \in Item
    OBVIOUS
  <2>4. QED
    BY <2>1, <2>2, <2>3
<1>4. QED
  BY <1>1, <1>2, <1>3, GoodNew

LEMMA UnmarshalableStep ==
    ASSUME TransactInv, CarefulUse, NEW c \in Callers, WriteUnmarshalable(c)
    PROVE  TransactInv'
<1> DEFINE stamped(keys) == StampedBy(held[c], keys, clock')
           left(keys) == LeftStamped(stamped(keys), keys)
<1>1. PICK keys \in SUBSET Ids : held' = [held EXCEPT ![c] = left(keys)]
  BY DEF WriteUnmarshalable
<1>2. /\ status' = [status EXCEPT ![c] = "err"] /\ call' = [call EXCEPT ![c] = NoCall]
      /\ UNCHANGED <<table, net, log>> /\ Idle(c) /\ clock < MaxClock /\ clock' = clock + 1
  BY DEF WriteUnmarshalable
<1>3. clock' \in clock..MaxClock
  BY <1>2, TransactAssumption DEF TransactInv, TypeOK
<1>4. \A k \in Ids \ keys : /\ stamped(keys)[k] = held[c][k] /\ held[c][k] \in Item
                            /\ GoodFor(held[c][k], k, table[k], log)
  BY <1>2, IdleGood, Types DEF TransactInv, StampedBy
<1> HIDE DEF stamped
<1> DEFINE h == left(keys)
<1>5. h \in [Ids -> Item] /\ \A k \in Ids : GoodFor(h[k], k, table[k], log)
  BY <1>4, LeftGood
<1> HIDE DEF h
<1>6. held' = [held EXCEPT ![c] = h]
  BY <1>1 DEF h
<1>7. QED
  BY <1>2, <1>3, <1>5, <1>6, NoCallFacts, QuietStep

\* What a read fills in are good copies.
LEMMA FilledGood ==
    ASSUME TransactInv, NEW c \in Callers, Idle(c), NEW keys \in SUBSET Ids,
           NEW some \in SUBSET Found(keys)
    PROVE  /\ Filled(c, some) \in [Ids -> Item]
           /\ \A k \in Ids : GoodFor(Filled(c, some)[k], k, table[k], log)
<1>1. Filled(c, some) \in [Ids -> Item]
  BY Types DEF TransactInv, Filled
<1>2. \A k \in some : k \in Ids /\ Exists(table[k])
  BY DEF Found
<1>3. \A k \in Ids : k \in some => GoodFor(table[k].item, k, table[k], log)
  BY <1>2, GoodRow, Types DEF TransactInv, RowInv
<1>4. QED
  BY <1>1, <1>3, IdleGood DEF Filled

LEMMA GetReturnsStep ==
    ASSUME TransactInv, NEW c \in Callers, NEW keys \in SUBSET Ids, GetReturns(c, keys)
    PROVE  TransactInv'
<1> DEFINE h == Filled(c, Found(keys))
           r == [NoCall EXCEPT !.op = "get", !.keys = keys]
<1>1. /\ Idle(c) /\ held' = [held EXCEPT ![c] = h]
      /\ status' = [status EXCEPT ![c] = "ok"] /\ call' = [call EXCEPT ![c] = r]
      /\ UNCHANGED <<table, clock, net, log>>
  BY DEF GetReturns
<1>2. h \in [Ids -> Item] /\ \A k \in Ids : GoodFor(h[k], k, table[k], log)
  BY <1>1, FilledGood
<1>3. r \in Calls /\ r.op = "get" /\ r.keys = keys
  BY NoCallFacts
<1>4. \A n \in DOMAIN log : \A k \in (log[n].puts \cap keys) \ Deleted : n \in h[k].edits
  <2> SUFFICES ASSUME NEW n \in DOMAIN log, NEW k \in (log[n].puts \cap keys) \ Deleted
               PROVE  n \in h[k].edits
    OBVIOUS
  <2>1. k \in Ids /\ RowInv(k)
    BY DEF TransactInv
  <2>2. n \in table[k].item.edits
    BY <2>1 DEF RowInv
  <2>3. Exists(table[k])
    BY <2>2, ItemFacts DEF Exists
  <2>4. QED
    BY <2>1, <2>2, <2>3 DEF Found, Filled
<1> HIDE DEF h, r
<1>5. QED
  BY <1>1, <1>2, <1>3, <1>4, SameClock, QuietStep

LEMMA GetFailsStep ==
    ASSUME TransactInv, CarefulUse, NEW c \in Callers, NEW keys \in SUBSET Ids,
           GetFails(c, keys)
    PROVE  TransactInv'
<1>1. /\ Idle(c) /\ clock' = clock /\ UNCHANGED <<table, net, log>>
      /\ status' = [status EXCEPT ![c] = "err"] /\ call' = [call EXCEPT ![c] = NoCall]
  BY DEF GetFails
<1>2. /\ Filled(c, Found(keys)) \in [Ids -> Item] /\ held[c] \in [Ids -> Item]
      /\ \A k \in Ids : /\ GoodFor(Filled(c, Found(keys))[k], k, table[k], log)
                        /\ GoodFor(held[c][k], k, table[k], log)
  <2>1. Found(keys) \in SUBSET Found(keys)
    OBVIOUS
  <2>2. QED
    BY <1>1, <2>1, FilledGood, IdleGood, Types DEF TransactInv
<1>3. \E h \in [Ids -> Item] : /\ held' = [held EXCEPT ![c] = h]
                              /\ \A k \in Ids : GoodFor(h[k], k, table[k], log)
  <2>1. CASE held' = held
    <3>1. held' = [held EXCEPT ![c] = held[c]]
      BY <2>1 DEF TransactInv, TypeOK
    <3>2. QED
      BY <1>2, <3>1
  <2>2. ASSUME NEW k \in Found(keys),
               held' = [held EXCEPT ![c] = [Filled(c, Found(keys)) EXCEPT ![k] = NewItem(k)]]
        PROVE  \E h \in [Ids -> Item] : /\ held' = [held EXCEPT ![c] = h]
                                        /\ \A i \in Ids : GoodFor(h[i], i, table[i], log)
    <3> DEFINE f == Filled(c, Found(keys))
               h == [f EXCEPT ![k] = NewItem(k)]
    <3>1. k \in Ids /\ f \in [Ids -> Item]
      BY <1>2 DEF Found
    <3> HIDE DEF f
    <3>2. h \in [Ids -> Item] /\ h[k] = NewItem(k) /\ \A i \in Ids \ {k} : h[i] = f[i]
      BY <3>1, ItemFacts
    <3>3. \A i \in Ids : GoodFor(h[i], i, table[i], log)
      BY <1>2, <3>1, <3>2, GoodNew DEF f
    <3>4. QED
      BY <2>2, <3>2, <3>3 DEF f
  <2>3. QED
    BY <2>1, <2>2 DEF GetFails, AfterError
<1>4. PICK h \in [Ids -> Item] : /\ held' = [held EXCEPT ![c] = h]
                               /\ \A k \in Ids : GoodFor(h[k], k, table[k], log)
  BY <1>3
<1>5. QED
  BY <1>1, <1>4, NoCallFacts, SameClock, QuietStep

\* The call of a write that ends keeps all but the answer.
LEMMA AnsweredCall ==
    ASSUME TypeOK, NEW c \in Callers
    PROVE  LET r == [call[c] EXCEPT !.answer = "none"]
           IN  /\ r \in Calls /\ r.op = call[c].op /\ r.at = call[c].at
               /\ r.puts = call[c].puts /\ r.keys = call[c].keys /\ r.answer = "none"
<1>1. call[c] \in Calls
  BY Types
<1>2. QED
  BY <1>1 DEF Calls

LEMMA WriteReturnsStep ==
    ASSUME TransactInv, NEW c \in Callers, WriteReturns(c)
    PROVE  TransactInv'
<1> DEFINE h == held[c]
           r == [call[c] EXCEPT !.answer = "none"]
<1>1. /\ status[c] = "pending" /\ call[c].op = "write" /\ call[c].answer = "ok"
      /\ status' = [status EXCEPT ![c] = "ok"] /\ call' = [call EXCEPT ![c] = r]
      /\ UNCHANGED <<table, clock, net, log>> /\ held' = held
  BY DEF WriteReturns, End, Pending
<1>2. /\ h \in [Ids -> Item] /\ held' = [held EXCEPT ![c] = h]
      /\ \A k \in Ids : GoodFor(h[k], k, table[k], log)
  BY <1>1 DEF TransactInv, TypeOK, HeldInv, Open, Good
<1>3. /\ r \in Calls /\ r.op = "write" /\ r.at = call[c].at /\ r.puts = call[c].puts
      /\ r.answer = "none" /\ log[r.at].puts = r.puts
  BY <1>1, AnsweredCall DEF TransactInv, CallInv
<1> HIDE DEF h, r
<1>4. QED
  BY <1>1, <1>2, <1>3, SameClock, QuietStep

LEMMA WriteFailsStep ==
    ASSUME TransactInv, CarefulUse, NEW c \in Callers, WriteFails(c)
    PROVE  TransactInv'
<1>1. /\ status[c] = "pending" /\ call[c].op = "write"
      /\ held' = [held EXCEPT ![c] = LeftStamped(held[c], call[c].puts)]
      /\ UNCHANGED <<table, clock, net, log>>
  BY DEF WriteFails, FailWrite, Pending, End
<1> DEFINE h == LeftStamped(held[c], call[c].puts)
<1>2. \A k \in Ids \ call[c].puts : /\ held[c][k] \in Item
                                   /\ GoodFor(held[c][k], k, table[k], log)
  BY Types DEF TransactInv, HeldInv, Open, Good
<1>3. h \in [Ids -> Item] /\ \A k \in Ids : GoodFor(h[k], k, table[k], log)
  BY <1>2, LeftGood, Types DEF TransactInv
<1> HIDE DEF h
<1>4. CASE /\ status' = [status EXCEPT ![c] = "err"] /\ call' = [call EXCEPT ![c] = NoCall]
  <2>1. held' = [held EXCEPT ![c] = h]
    BY <1>1 DEF h
  <2>2. QED
    BY <1>1, <1>2, <1>3, <1>4, <2>1, NoCallFacts, SameClock, QuietStep
<1>5. CASE /\ status' = [status EXCEPT ![c] = "lock"] /\ call[c].answer = "condfail"
           /\ call' = [call EXCEPT ![c] = [call[c] EXCEPT !.answer = "none"]]
  <2> DEFINE r == [call[c] EXCEPT !.answer = "none"]
  <2>1. /\ r \in Calls /\ r.op = "write" /\ r.at = call[c].at /\ r.puts = call[c].puts
        /\ r.answer = "none" /\ call' = [call EXCEPT ![c] = r]
    BY <1>1, <1>5, AnsweredCall DEF TransactInv
  <2>2. held' = [held EXCEPT ![c] = h]
    BY <1>1 DEF h
  <2> HIDE DEF r
  <2>3. QED
    BY <1>1, <1>2, <1>3, <1>5, <2>1, <2>2, SameClock, QuietStep
<1>6. QED
  BY <1>4, <1>5 DEF WriteFails, FailWrite, Pending, End

-----------------------------------------------------------------------------
(* A write begins. *)

LEMMA WriteStep ==
    ASSUME TransactInv, NEW c \in Callers, Write(c)
    PROVE  TransactInv'
<1> DEFINE at == clock + 1
<1>1. clock < MaxClock /\ clock' = at /\ table' = table /\ log' = log
  BY DEF Write
<1>2. PICK plan \in Plans(c) : \E size \in Sizes(DOMAIN plan) :
          /\ Begin(c, clock', DOMAIN plan, Puts(plan), size)
          /\ net' = net \cup {Request(plan, held[c], clock', size)}
          /\ held' = [held EXCEPT ![c] = StampedBy(@, Puts(plan), clock')]
  BY DEF Write
<1>3. PICK size \in Sizes(DOMAIN plan) :
          /\ Begin(c, at, DOMAIN plan, Puts(plan), size)
          /\ net' = net \cup {Request(plan, held[c], at, size)}
          /\ held' = [held EXCEPT ![c] = StampedBy(@, Puts(plan), at)]
  BY <1>1, <1>2
<1> DEFINE W == Request(plan, held[c], at, size)
           h == StampedBy(held[c], Puts(plan), at)
           r == WriteCall(at, DOMAIN plan, Puts(plan))
<1>4. /\ Idle(c) /\ DOMAIN plan # {} /\ size <= MaxItems
      /\ call' = [call EXCEPT ![c] = r] /\ status' = [status EXCEPT ![c] = "pending"]
  BY <1>3 DEF Begin, WriteCall
<1>5. /\ clock \in 0..MaxClock /\ at \in 1..MaxClock /\ at \in Nat /\ at # 0 /\ at > clock
      /\ MaxClock \in Nat /\ clock \in Nat
  BY <1>1, TransactAssumption DEF TransactInv, TypeOK
<1> HIDE DEF at
<1>6. /\ DOMAIN plan \subseteq Ids /\ Puts(plan) \subseteq DOMAIN plan
      /\ \A k \in DOMAIN plan : /\ plan[k] \in {"put", "delete", "check"}
                                /\ plan[k] = "check" => ~IsNew(held[c][k])
                                /\ k \in Puts(plan) <=> plan[k] = "put"
  <2>1. \A k \in DOMAIN plan : plan[k] = "check" => ~IsNew(held[c][k])
    BY DEF Plans
  <2>2. PICK S \in SUBSET Ids : plan \in [S -> Kinds]
    BY DEF Plans
  <2>3. QED
    BY <2>1, <2>2, TransactAssumption DEF Puts
<1>7. size \in 1..MaxItems
  <2>1. IsFiniteSet(DOMAIN plan)
    BY <1>6, TransactAssumption, FS_Subset
  <2>2. Cardinality(DOMAIN plan) \in Nat /\ Cardinality(DOMAIN plan) # 0
    BY <1>4, <2>1, FS_CardinalityType, FS_EmptySet
  <2>3. QED
    BY <1>4, <2>2, TransactAssumption DEF Sizes
<1>8. r \in Calls /\ r.op = "write" /\ r.at = at /\ r.puts = Puts(plan) /\ r.answer = "none"
  <2>1. DOMAIN plan \in SUBSET Ids /\ Puts(plan) \in SUBSET Ids
    BY <1>6
  <2>2. QED
    BY <1>5, <2>1, WriteCallFacts
<1> HIDE DEF r
<1>9. held[c] \in [Ids -> Item] /\ \A k \in Ids : held[c][k] \in Item
  BY Types DEF TransactInv
<1>10. /\ W.at = at /\ W.size = size /\ DOMAIN W.entries = DOMAIN plan
       /\ \A k \in DOMAIN plan : W.entries[k] = Entry(plan[k], held[c][k], at)
  BY DEF Request
<1>11. \A k \in DOMAIN plan :
           /\ W.entries[k] \in Entries /\ W.entries[k].kind = plan[k]
           /\ W.entries[k].copy = held[c][k]
           /\ plan[k] = "put" => W.entries[k].row.item = Stamp(Edit(held[c][k], at), at, NoId)
  <2> SUFFICES ASSUME NEW k \in DOMAIN plan
               PROVE  LET e == W.entries[k]
                      IN  /\ e \in Entries /\ e.kind = plan[k] /\ e.copy = held[c][k]
                          /\ plan[k] = "put" =>
                                e.row.item = Stamp(Edit(held[c][k], at), at, NoId)
    OBVIOUS
  <2> HIDE DEF W
  <2>1. plan[k] \in {"put", "delete", "check"} /\ held[c][k] \in Item
    BY <1>6, <1>9
  <2>2. W.entries[k] = Entry(plan[k], held[c][k], at)
    BY <1>10
  <2>3. QED
    BY <1>5, <2>1, <2>2, PutEntryFacts, OtherEntryFacts
<1> HIDE DEF W
<1>12. /\ \A k \in Puts(plan) : h[k] = Stamp(Edit(held[c][k], at), at, NoId)
       /\ \A k \in Ids \ Puts(plan) : h[k] = held[c][k]
       /\ h \in [Ids -> Item]
  <2>1. \A k \in Ids : Stamp(Edit(held[c][k], at), at, NoId) \in Item
    BY <1>5, <1>9, StampFacts
  <2>2. QED
    BY <1>6, <1>9, <2>1 DEF StampedBy
<1> HIDE DEF h
<1>13. net' = net \cup {W} /\ held' = [held EXCEPT ![c] = h]
  BY <1>3 DEF W, h
<1>14. /\ held'[c] = h /\ call'[c] = r /\ status'[c] = "pending"
       /\ \A d \in Callers \ {c} : held'[d] = held[d] /\ call'[d] = call[d] /\ status'[d] = status[d]
  BY <1>4, <1>13, Types DEF TransactInv, TypeOK
<1>15. TypeOK'
  <2>1. /\ held' \in [Callers -> [Ids -> Item]]
        /\ status' \in [Callers -> {"ok", "lock", "err", "pending"}]
    BY <1>4, <1>12, <1>13 DEF TransactInv, TypeOK
  <2>2. call' \in [Callers -> Calls]
    BY <1>4, <1>8, Types DEF TransactInv
  <2>3. \A w \in net' : /\ w.at \in 1..MaxClock /\ DOMAIN w.entries \in SUBSET Ids
                        /\ w.size \in 1..MaxItems
                        /\ \A k \in DOMAIN w.entries : w.entries[k] \in Entries
    BY <1>5, <1>6, <1>7, <1>10, <1>11, <1>13 DEF TransactInv, TypeOK
  <2>4. clock' \in 0..MaxClock
    BY <1>1, <1>5
  <2>5. QED
    BY <1>1, <2>1, <2>2, <2>3, <2>4 DEF TransactInv, TypeOK, Calls
<1>16. Deleted' = Deleted
  BY <1>1 DEF Deleted
<1>17. SnapshotRead'
  BY <1>1, <1>14, <1>16 DEF TransactInv, SnapshotRead
<1>18. /\ \A n \in DOMAIN log : n > clock => log[n] = NoLog
       /\ at \in DOMAIN log /\ log[at] = NoLog
  BY <1>5 DEF TransactInv, TypeOK
<1>19. \A n \in DOMAIN log' : n > clock' => log'[n] = NoLog
  BY <1>1, <1>5, <1>18 DEF TransactInv, TypeOK
<1>20. \A k \in Ids : RowInv(k)'
  BY <1>1, <1>16 DEF TransactInv, RowInv
<1>21. \A d \in Callers : HeldInv(d)'
  <2>1. HeldInv(c)'
    <3>1. Open(c)' = Puts(plan)
      BY <1>8, <1>14 DEF Open
    <3>2. \A k \in Ids \ Puts(plan) : GoodFor(h[k], k, table[k], log)
      BY <1>4, <1>12, IdleGood
    <3>3. QED
      BY <1>1, <1>14, <3>1, <3>2 DEF HeldInv, Good
  <2>2. \A d \in Callers \ {c} : HeldInv(d)'
    BY <1>1, <1>14 DEF TransactInv, HeldInv, Good, Open
  <2>3. QED
    BY <2>1, <2>2
<1>22. \A d \in Callers : CallInv(d)'
  <2>1. CallInv(c)'
    BY <1>1, <1>5, <1>8, <1>14, <1>18 DEF CallInv, NoLog
  <2>2. ASSUME NEW d \in Callers \ {c} PROVE CallInv(d)'
    <3>1. CallInv(d) /\ call'[d] = call[d] /\ status'[d] = status[d]
      BY <1>14 DEF TransactInv
    <3>2. call[d].op = "write" => call[d].at \in 1..clock /\ call[d].at \in 1..clock'
                                 /\ call[d].at # W.at
      BY <1>1, <1>5, <1>10, <3>1 DEF CallInv
    <3>3. QED
      BY <1>1, <1>13, <3>1, <3>2 DEF CallInv
  <2>3. QED
    BY <2>1, <2>2
<1>23. ASSUME NEW w \in net PROVE WriteInv(w)'
  <2>1. WriteInv(w) /\ w.at \in Nat
    BY DEF TransactInv, TypeOK
  <2>2. w.at <= clock /\ w.at <= clock' /\ w.at # W.at /\ w.at # r.at
    BY <1>1, <1>5, <1>8, <1>10, <2>1 DEF WriteInv
  <2>3. \A k \in DOMAIN w.entries : Good(w.entries[k].copy, k)' <=> Good(w.entries[k].copy, k)
    BY <1>1 DEF Good
  <2>4. \A v \in net' : v.at = w.at => v = w
    BY <1>13, <2>1, <2>2 DEF WriteInv
  <2>5. \A d \in Callers : call'[d].op = "write" /\ call'[d].at = w.at =>
            /\ call'[d].puts = Of(w, "put")
            /\ status'[d] = "pending" /\ call'[d].answer = "none" =>
                  \A k \in call'[d].puts : held'[d][k] = w.entries[k].row.item
    BY <1>14, <2>1, <2>2 DEF WriteInv
  <2>6. QED
    BY <1>1, <2>1, <2>2, <2>3, <2>4, <2>5 DEF WriteInv
<1>24. \A w : w = W => WriteInv(w)'
  <2> SUFFICES ASSUME NEW w, w = W PROVE WriteInv(w)'
    OBVIOUS
  <2>1. w.at <= clock' /\ log'[w.at] = NoLog
    BY <1>1, <1>5, <1>10, <1>18
  <2>2. \A v \in net' : v.at = w.at => v = w
    <3>1. \A v \in net : v.at <= clock /\ v.at \in Nat
      BY DEF TransactInv, WriteInv, TypeOK
    <3>2. QED
      BY <1>5, <1>10, <1>13, <3>1
  <2>3. ASSUME NEW k \in DOMAIN w.entries
        PROVE  LET e == w.entries[k]
               IN  /\ e = Entry(e.kind, e.copy, w.at) /\ GoodFor(e.copy, k, table'[k], log')
                   /\ e.kind = "check" => ~IsNew(e.copy)
    <3>1. k \in DOMAIN plan /\ k \in Ids
      BY <1>6, <1>10
    <3>2. GoodFor(held[c][k], k, table[k], log)
      BY <1>4, <3>1, IdleGood
    <3>3. QED
      BY <1>1, <1>6, <1>10, <1>11, <3>1, <3>2
  <2>4. Of(w, "put") = Puts(plan)
    BY <1>6, <1>10, <1>11 DEF Of
  <2>5. \A d \in Callers \ {c} : ~(call'[d].op = "write" /\ call'[d].at = w.at)
    <3>1. \A d \in Callers : call[d].op = "write" => call[d].at \in 1..clock
      BY DEF TransactInv, CallInv
    <3>2. QED
      BY <1>5, <1>10, <1>14, <3>1
  <2>6. \A k \in Puts(plan) : held'[c][k] = w.entries[k].row.item
    BY <1>6, <1>11, <1>12, <1>14
  <2>7. QED
    BY <1>8, <1>14, <2>1, <2>2, <2>3, <2>4, <2>5, <2>6 DEF WriteInv, Good
<1>25. QED
  BY <1>13, <1>15, <1>17, <1>19, <1>20, <1>21, <1>22, <1>23, <1>24 DEF TransactInv

-----------------------------------------------------------------------------
(* The table serves a transaction. *)

\* The response changes nothing but the answer of the call that waits for it.
LEMMA AnswerFacts ==
    ASSUME TypeOK, NEW w, NEW code \in {"ok", "condfail", "conflict"}, Answer(w, code)
    PROVE  /\ call' \in [Callers -> Calls]
           /\ \A c \in Callers :
                 /\ call'[c].op = call[c].op /\ call'[c].at = call[c].at
                 /\ call'[c].keys = call[c].keys /\ call'[c].puts = call[c].puts
                 /\ IF Pending(c, "write", "none") /\ call[c].at = w.at
                    THEN call'[c].answer = code ELSE call'[c] = call[c]
<1>1. \A c \in Callers : call[c] \in Calls
  BY Types
<1>2. ASSUME NEW c \in Callers
      PROVE  LET r == [call[c] EXCEPT !.answer = code]
             IN  /\ r \in Calls /\ r.op = call[c].op /\ r.at = call[c].at
                 /\ r.keys = call[c].keys /\ r.puts = call[c].puts /\ r.answer = code
  BY <1>1 DEF Calls
<1>3. \A c \in Callers :
          call'[c] = IF Pending(c, "write", "none") /\ call[c].at = w.at
                     THEN [call[c] EXCEPT !.answer = code] ELSE call[c]
  BY DEF Answer
<1>4. /\ \A c \in Callers :
             /\ call'[c].op = call[c].op /\ call'[c].at = call[c].at
             /\ call'[c].keys = call[c].keys /\ call'[c].puts = call[c].puts
             /\ IF Pending(c, "write", "none") /\ call[c].at = w.at
                THEN call'[c].answer = code ELSE call'[c] = call[c]
      /\ \A c \in Callers : call'[c] \in Calls
  BY <1>1, <1>2, <1>3
<1>5. call' = [c \in Callers |-> call'[c]]
  BY DEF Answer
<1>6. QED
  BY <1>4, <1>5

\* Nothing is done to the other transactions.
LEMMA OthersOnTheirWay ==
    ASSUME TransactInv, NEW w \in net, net' = net \ {w},
           NEW code \in {"ok", "condfail", "conflict"}, Answer(w, code),
           UNCHANGED <<clock, held, status>>,
           \A n \in DOMAIN log \ {w.at} : log'[n] = log[n],
           \A k \in Ids : \A x : GoodFor(x, k, table[k], log) => GoodFor(x, k, table'[k], log')
    PROVE  \A v \in net' : WriteInv(v)'
<1> SUFFICES ASSUME NEW v \in net' PROVE WriteInv(v)'
  OBVIOUS
<1>1. /\ v \in net /\ WriteInv(v) /\ WriteInv(w) /\ TypeOK /\ v.at # w.at /\ v.at \in DOMAIN log
      /\ DOMAIN v.entries \subseteq Ids
  BY DEF TransactInv, WriteInv, TypeOK
<1>2. v.at <= clock' /\ log'[v.at] = NoLog
  BY <1>1 DEF WriteInv
<1>3. \A u \in net' : u.at = v.at => u = v
  BY <1>1 DEF WriteInv
<1>4. \A k \in DOMAIN v.entries :
          LET e == v.entries[k]
          IN  /\ e = Entry(e.kind, e.copy, v.at) /\ GoodFor(e.copy, k, table'[k], log')
              /\ e.kind = "check" => ~IsNew(e.copy)
  BY <1>1 DEF WriteInv, Good
<1>5. \A c \in Callers : call'[c].op = "write" /\ call'[c].at = v.at => call'[c] = call[c]
  BY <1>1, AnswerFacts
<1>6. \A c \in Callers : call'[c].op = "write" /\ call'[c].at = v.at =>
          /\ call'[c].puts = Of(v, "put")
          /\ status'[c] = "pending" /\ call'[c].answer = "none" =>
                \A k \in call'[c].puts : held'[c][k] = v.entries[k].row.item
  <2> SUFFICES ASSUME NEW c \in Callers, call'[c].op = "write", call'[c].at = v.at
               PROVE  /\ call'[c].puts = Of(v, "put")
                      /\ status'[c] = "pending" /\ call'[c].answer = "none" =>
                            \A k \in call'[c].puts : held'[c][k] = v.entries[k].row.item
    OBVIOUS
  <2>1. call'[c] = call[c] /\ held' = held /\ status' = status
    BY <1>5
  <2>2. QED
    BY <1>1, <2>1 DEF WriteInv
<1>7. QED
  BY <1>2, <1>3, <1>4, <1>6 DEF WriteInv, Good

\* The table refuses it.
LEMMA RefusedStep ==
    ASSUME TransactInv, NEW w \in net, net' = net \ {w},
           NEW code \in {"condfail", "conflict"}, Answer(w, code),
           UNCHANGED <<table, log, clock, held, status>>
    PROVE  TransactInv'
<1>1. TypeOK /\ WriteInv(w)
  BY DEF TransactInv
<1>2. call' \in [Callers -> Calls]
  BY <1>1, AnswerFacts
<1>3. TypeOK'
  BY <1>1, <1>2 DEF TypeOK, Calls
<1>4. Deleted' = Deleted
  BY DEF Deleted
<1>5. SnapshotRead'
  <2>1. \A c \in Callers : status[c] = "ok" => call'[c] = call[c]
    BY <1>1, AnswerFacts DEF Pending
  <2>2. QED
    BY <1>4, <2>1 DEF TransactInv, SnapshotRead
<1>6. \A k \in Ids : RowInv(k)'
  BY <1>4 DEF TransactInv, RowInv
<1>7. \A c \in Callers : HeldInv(c)'
  <2>1. \A c \in Callers : Open(c)' = Open(c)
    BY <1>1, AnswerFacts DEF Open, Pending
  <2>2. QED
    BY <2>1 DEF TransactInv, HeldInv, Good
<1>8. ASSUME NEW c \in Callers PROVE CallInv(c)'
  <2>1. CallInv(c) /\ \A v \in net' : v \in net /\ v.at # w.at
    BY <1>1 DEF TransactInv, WriteInv
  <2>2. CASE Pending(c, "write", "none") /\ call[c].at = w.at
    <3>1. /\ call'[c].op = "write" /\ call'[c].at = w.at /\ call'[c].puts = call[c].puts
          /\ call'[c].answer # "ok" /\ status'[c] = "pending"
      BY <1>1, <2>2, AnswerFacts DEF Pending
    <3>2. log'[w.at].puts = {}
      BY <1>1 DEF WriteInv, NoLog
    <3>3. w.at \in 1..clock'
      BY <2>1, <2>2 DEF CallInv, Pending
    <3>4. QED
      BY <2>1, <3>1, <3>2, <3>3 DEF CallInv
  <2>3. CASE ~(Pending(c, "write", "none") /\ call[c].at = w.at)
    <3>1. call'[c] = call[c]
      BY <1>1, <2>3, AnswerFacts
    <3>2. QED
      BY <2>1, <3>1 DEF CallInv
  <2>4. QED
    BY <2>2, <2>3
<1>9. \A v \in net' : WriteInv(v)'
  BY OthersOnTheirWay
<1>10. QED
  BY <1>3, <1>5, <1>6, <1>7, <1>8, <1>9 DEF TransactInv

\* The table commits it.
Committed(w) ==
    /\ net' = net \ {w} /\ Commits(w) /\ Answer(w, "ok")
    /\ table' = [k \in Ids |-> IF k \in DOMAIN w.entries
                               THEN Effect(w.entries[k], table[k]) ELSE table[k]]
    /\ log' = [log EXCEPT ![w.at] = [puts    |-> @.puts \cup Of(w, "put"),
                                     deletes |-> @.deletes \cup Of(w, "delete")]]
    /\ UNCHANGED <<clock, held, status>>

LEMMA LogFacts ==
    ASSUME TransactInv, NEW w \in net, Committed(w)
    PROVE  /\ w.at \in DOMAIN log /\ DOMAIN log' = DOMAIN log
           /\ log' \in [1..MaxClock -> [puts : SUBSET Ids, deletes : SUBSET Ids]]
           /\ log'[w.at].puts = Of(w, "put") /\ log'[w.at].deletes = Of(w, "delete")
           /\ log[w.at].puts = {} /\ log[w.at].deletes = {}
           /\ \A n \in DOMAIN log \ {w.at} : log'[n] = log[n]
           /\ \A n \in DOMAIN log : /\ log[n].puts \subseteq log'[n].puts
                                    /\ log[n].deletes \subseteq log'[n].deletes
           /\ Deleted \subseteq Deleted' /\ Of(w, "delete") \subseteq Deleted'
<1>1. /\ log \in [1..MaxClock -> [puts : SUBSET Ids, deletes : SUBSET Ids]]
      /\ w.at \in 1..MaxClock /\ DOMAIN w.entries \subseteq Ids
  BY DEF TransactInv, TypeOK
<1>2. log[w.at].puts = {} /\ log[w.at].deletes = {}
  BY DEF TransactInv, WriteInv, NoLog
<1>3. Of(w, "put") \subseteq Ids /\ Of(w, "delete") \subseteq Ids
  BY <1>1 DEF Of
<1>4. log' = [log EXCEPT ![w.at] = [puts |-> Of(w, "put"), deletes |-> Of(w, "delete")]]
  BY <1>2 DEF Committed
<1>5. /\ DOMAIN log' = DOMAIN log /\ w.at \in DOMAIN log
      /\ log' \in [1..MaxClock -> [puts : SUBSET Ids, deletes : SUBSET Ids]]
      /\ log'[w.at].puts = Of(w, "put") /\ log'[w.at].deletes = Of(w, "delete")
      /\ \A n \in DOMAIN log \ {w.at} : log'[n] = log[n]
  BY <1>1, <1>3, <1>4
<1>6. \A n \in DOMAIN log : /\ log[n].puts \subseteq log'[n].puts
                           /\ log[n].deletes \subseteq log'[n].deletes
  BY <1>2, <1>5
<1>7. Deleted \subseteq Deleted' /\ Of(w, "delete") \subseteq Deleted'
  BY <1>5, <1>6 DEF Deleted, DeletedIn
<1>8. QED
  BY <1>2, <1>5, <1>6, <1>7

\* An entry of a transaction that commits: what it found and what it did.
LEMMA EntryCommitted ==
    ASSUME TransactInv, NEW w \in net, Commits(w), NEW k \in DOMAIN w.entries
    PROVE  LET e == w.entries[k]
           IN  /\ k \in Ids /\ e.copy \in Item /\ e.row \in Row
               /\ GoodFor(e.copy, k, table[k], log)
               /\ e.kind \in {"put", "delete", "check"}
               /\ e.kind = "delete" => e.row = Absent
               /\ e.kind = "put" =>
                     /\ Exists(e.row) /\ ~IsNew(e.row.item)
                     /\ e.row.item.edits = e.copy.edits \cup {w.at}
                     /\ IsNew(e.copy) => /\ ~Exists(table[k]) /\ e.copy = NewItem(k)
                                         /\ e.row.item.version = 1
                                         /\ e.row.item.created = w.at
                     /\ ~IsNew(e.copy) => /\ Exists(table[k])
                                          /\ table[k].item.version = e.copy.version
                                          /\ e.row.item.version = e.copy.version + 1
               /\ e.kind = "check" => /\ ~IsNew(e.copy) /\ Exists(table[k])
                                      /\ table[k].item.version = e.copy.version
<1> DEFINE e == w.entries[k]
           copy == e.copy
<1>1. /\ k \in Ids /\ e \in Entries /\ w.at \in Nat /\ w.at # 0
  BY DEF TransactInv, TypeOK
<1>2. /\ e.kind \in {"put", "delete", "check"} /\ copy \in Item /\ e.row \in Row
  BY <1>1 DEF Entries
<1>3. /\ e = Entry(e.kind, copy, w.at) /\ GoodFor(copy, k, table[k], log)
      /\ e.kind = "check" => ~IsNew(copy)
  BY DEF TransactInv, WriteInv, Good
<1>4. Holds(e.cond, table[k])
  BY DEF Commits
<1> HIDE DEF e, copy
<1>5. CASE e.kind = "put"
  <2>1. e.row.item = Stamp(Edit(copy, w.at), w.at, NoId) /\ e.cond = Condition(copy)
    BY <1>1, <1>2, <1>3, <1>5, PutEntryFacts
  <2>2. /\ ~IsNew(e.row.item) /\ e.row.item.edits = copy.edits \cup {w.at}
        /\ IsNew(copy) => e.row.item.version = 1 /\ e.row.item.created = w.at
        /\ ~IsNew(copy) => e.row.item.version = copy.version + 1
    BY <1>1, <1>2, <2>1, StampFacts
  <2>3. Exists(e.row)
    BY <2>2, ItemFacts DEF Exists
  <2>4. /\ IsNew(copy) => ~Exists(table[k])
        /\ ~IsNew(copy) => Exists(table[k]) /\ table[k].item.version = copy.version
    BY <1>4, <2>1 DEF Holds, Condition
  <2>5. IsNew(copy) => copy = NewItem(k)
    BY <1>3 DEF GoodFor
  <2>6. QED
    BY <1>1, <1>2, <1>3, <1>5, <2>2, <2>3, <2>4, <2>5 DEF e, copy
<1>6. CASE e.kind = "delete"
  <2>1. e.row = Absent
    BY <1>2, <1>3, <1>6, OtherEntryFacts
  <2>2. QED
    BY <1>1, <1>2, <1>3, <1>6, <2>1 DEF e, copy
<1>7. CASE e.kind = "check"
  <2>1. e.cond.kind = "version" /\ e.cond.version = copy.version
    BY <1>2, <1>3, <1>7, OtherEntryFacts
  <2>2. Exists(table[k]) /\ table[k].item.version = copy.version
    BY <1>4, <2>1 DEF Holds
  <2>3. QED
    BY <1>1, <1>2, <1>3, <1>7, <2>2 DEF e, copy
<1>8. QED
  BY <1>2, <1>5, <1>6, <1>7

\* The rows: a put replaces its row, a delete leaves none, others stay.
LEMMA RowsCommitted ==
    ASSUME TransactInv, NEW w \in net, Committed(w)
    PROVE  /\ table' \in [Ids -> Row]
           /\ \A k \in Of(w, "put") : k \in DOMAIN w.entries /\ table'[k] = w.entries[k].row
           /\ \A k \in Of(w, "delete") : k \in DOMAIN w.entries /\ table'[k] = Absent
           /\ \A k \in Ids : k \notin Of(w, "put") /\ k \notin Of(w, "delete") => table'[k] = table[k]
<1>1. table \in [Ids -> Row] /\ DOMAIN w.entries \subseteq Ids /\ Commits(w)
  BY DEF TransactInv, TypeOK, Committed
<1>2. \A k \in Ids : table'[k] = IF k \in DOMAIN w.entries
                                THEN Effect(w.entries[k], table[k]) ELSE table[k]
  BY DEF Committed
<1>3. \A k \in DOMAIN w.entries :
          /\ w.entries[k].kind \in {"put", "delete", "check"} /\ w.entries[k].row \in Row
          /\ w.entries[k].kind = "delete" => w.entries[k].row = Absent
  BY <1>1, EntryCommitted
<1>4. \A k \in DOMAIN w.entries :
          Effect(w.entries[k], table[k]) = IF w.entries[k].kind = "check" THEN table[k]
                                           ELSE w.entries[k].row
  BY DEF Effect
<1>5. \A k \in Ids : table'[k] \in Row
  BY <1>1, <1>2, <1>3, <1>4
<1>6. table' = [k \in Ids |-> table'[k]]
  BY DEF Committed
<1>7. table' \in [Ids -> Row]
  BY <1>5, <1>6
<1>8. QED
  BY <1>1, <1>2, <1>3, <1>4, <1>7 DEF Of

\* What was a good copy still is one.
LEMMA CopiesStayGood ==
    ASSUME TransactInv, NEW w \in net, Committed(w), NEW k \in Ids, NEW x,
           GoodFor(x, k, table[k], log)
    PROVE  GoodFor(x, k, table'[k], log')
<1>1. table[k] \in Row /\ table'[k] \in Row /\ Commits(w)
  BY RowsCommitted DEF TransactInv, TypeOK, Committed
<1>2. \/ table'[k] = table[k] \/ k \in DeletedIn(log') \/ ~Exists(table[k])
      \/ Exists(table'[k]) /\ table'[k].item.version > table[k].item.version
  <2>1. CASE k \in Of(w, "put")
    <3>1. k \in DOMAIN w.entries /\ table'[k] = w.entries[k].row /\ w.entries[k].kind = "put"
      BY <2>1, RowsCommitted DEF Of
    <3>2. /\ Exists(w.entries[k].row) /\ w.entries[k].copy.version \in Nat
          /\ IsNew(w.entries[k].copy) => ~Exists(table[k])
          /\ ~IsNew(w.entries[k].copy) =>
                w.entries[k].row.item.version = table[k].item.version + 1
          /\ table[k].item.version \in Nat
      BY <1>1, <3>1, EntryCommitted DEF Item, Row
    <3>3. QED
      BY <3>1, <3>2
  <2>2. CASE k \in Of(w, "delete")
    BY <2>2, LogFacts DEF Deleted
  <2>3. CASE k \notin Of(w, "put") /\ k \notin Of(w, "delete")
    BY <2>3, RowsCommitted
  <2>4. QED
    BY <2>1, <2>2, <2>3
<1>3. /\ DOMAIN log' = DOMAIN log
      /\ \A n \in DOMAIN log : /\ log[n].puts \subseteq log'[n].puts
                               /\ log[n].deletes \subseteq log'[n].deletes
  BY LogFacts
<1>4. QED
  BY <1>1, <1>2, <1>3, GoodKept

LEMMA RowInvCommitted ==
    ASSUME TransactInv, NEW w \in net, Committed(w), NEW k \in Ids
    PROVE  RowInv(k)'
<1>1. RowInv(k) /\ Commits(w)
  BY DEF TransactInv, Committed
<1>2. CASE k \in Of(w, "put")
  <2> DEFINE e == w.entries[k]
  <2>1. k \in DOMAIN w.entries /\ table'[k] = e.row /\ e.kind = "put"
    BY <1>2, RowsCommitted DEF Of
  <2>2. /\ ~IsNew(e.row.item) /\ e.row.item.edits = e.copy.edits \cup {w.at}
        /\ GoodFor(e.copy, k, table[k], log)
        /\ IsNew(e.copy) => ~Exists(table[k])
        /\ ~IsNew(e.copy) => Exists(table[k]) /\ table[k].item.version = e.copy.version
    BY <1>1, <2>1, EntryCommitted
  <2> HIDE DEF e
  <2>3. \A n \in e.copy.edits \cup {w.at} : n \in DOMAIN log' /\ k \in log'[n].puts
    BY <1>2, <2>2, LogFacts DEF GoodFor
  <2>4. k \notin Deleted' => table[k].item.edits \subseteq e.copy.edits
    <3>1. k \notin Deleted' => k \notin DeletedIn(log)
      BY LogFacts DEF Deleted
    <3>2. IsNew(e.copy) => table[k].item.edits = {}
      BY <2>2, ItemFacts DEF Exists
    <3>3. QED
      BY <2>2, <3>1, <3>2 DEF GoodFor
  <2>5. k \notin Deleted' => \A n \in DOMAIN log' : k \in log'[n].puts => n \in e.copy.edits \cup {w.at}
    <3>1. k \notin Deleted' => k \notin Deleted
      BY LogFacts
    <3>2. \A n \in DOMAIN log' : n # w.at => n \in DOMAIN log /\ log'[n] = log[n]
      BY LogFacts
    <3>3. QED
      BY <1>1, <2>4, <3>1, <3>2 DEF RowInv
  <2>6. QED
    BY <2>1, <2>2, <2>3, <2>5 DEF RowInv
<1>3. CASE k \in Of(w, "delete")
  <2>1. table'[k] = Absent /\ k \in Deleted'
    BY <1>3, RowsCommitted, LogFacts
  <2>2. QED
    BY <2>1, ItemFacts DEF RowInv
<1>4. CASE k \notin Of(w, "put") /\ k \notin Of(w, "delete")
  <2>1. table'[k] = table[k]
    BY <1>4, RowsCommitted
  <2>2. /\ k \notin Deleted' => k \notin Deleted
        /\ \A n \in DOMAIN log : n \in DOMAIN log' /\ log[n].puts \subseteq log'[n].puts
        /\ \A n \in DOMAIN log' : n \in DOMAIN log /\ (k \in log'[n].puts => k \in log[n].puts)
    BY <1>4, LogFacts
  <2>3. QED
    BY <1>1, <2>1, <2>2 DEF RowInv
<1>5. QED
  BY <1>2, <1>3, <1>4

LEMMA CommittedStep ==
    ASSUME TransactInv, NEW w \in net, Committed(w)
    PROVE  TransactInv'
<1>1. /\ TypeOK /\ WriteInv(w) /\ Answer(w, "ok") /\ net' = net \ {w} /\ Commits(w)
      /\ UNCHANGED <<clock, held, status>>
  BY DEF TransactInv, Committed
<1>2. TypeOK'
  <2>1. call' \in [Callers -> Calls] /\ table' \in [Ids -> Row]
        /\ log' \in [1..MaxClock -> [puts : SUBSET Ids, deletes : SUBSET Ids]]
    BY <1>1, AnswerFacts, RowsCommitted, LogFacts
  <2>2. QED
    BY <1>1, <2>1 DEF TypeOK, Calls
<1>3. \A n \in DOMAIN log' : n > clock' => log'[n] = NoLog
  <2>1. w.at <= clock /\ w.at \in Nat /\ clock \in Nat /\ DOMAIN log = 1..MaxClock
    BY <1>1 DEF WriteInv, TypeOK
  <2>2. \A n \in DOMAIN log' : n > clock => n \in DOMAIN log \ {w.at}
    <3>1. \A n \in 1..MaxClock : n > clock => n # w.at
      BY <2>1
    <3>2. QED
      BY <2>1, <3>1, LogFacts
  <2>3. QED
    BY <1>1, <2>2, LogFacts DEF TransactInv
<1>4. \A k \in Ids : RowInv(k)'
  BY RowInvCommitted
<1>5. ASSUME NEW c \in Callers PROVE HeldInv(c)'
  <2> SUFFICES ASSUME NEW k \in Ids \ Open(c)' PROVE GoodFor(held[c][k], k, table'[k], log')
    BY <1>1 DEF HeldInv, Good
  <2>1. CASE k \notin Open(c)
    <3>1. GoodFor(held[c][k], k, table[k], log)
      BY <2>1 DEF TransactInv, HeldInv, Good
    <3>2. QED
      BY <3>1, CopiesStayGood
  <2>2. CASE k \in Open(c)
    <3>1. /\ Pending(c, "write", "none") /\ call[c].at = w.at /\ k \in call[c].puts
      BY <1>1, <2>2, AnswerFacts DEF Open
    <3>2. call[c].puts = Of(w, "put") /\ held[c][k] = w.entries[k].row.item
      BY <1>1, <3>1 DEF WriteInv, Pending
    <3>3. table'[k] = w.entries[k].row /\ table'[k] \in Row
          /\ k \in DOMAIN w.entries /\ w.entries[k].kind = "put"
      BY <3>1, <3>2, RowsCommitted DEF Of
    <3>4. Exists(table'[k]) /\ ~IsNew(table'[k].item)
      BY <1>1, <3>3, EntryCommitted
    <3>5. \A n \in table'[k].item.edits : n \in DOMAIN log' /\ k \in log'[n].puts
      BY <1>4 DEF RowInv
    <3>6. GoodFor(table'[k].item, k, table'[k], log')
      BY <3>3, <3>4, <3>5, GoodRow
    <3>7. QED
      BY <3>2, <3>3, <3>6
  <2>3. QED
    BY <2>1, <2>2
<1>6. ASSUME NEW c \in Callers PROVE CallInv(c)'
  <2>1. CallInv(c) /\ \A v \in net' : v \in net
    BY <1>1 DEF TransactInv
  <2>2. /\ call'[c].op = call[c].op /\ call'[c].at = call[c].at /\ call'[c].puts = call[c].puts
        /\ call'[c] = call[c] \/ (call'[c].answer = "ok" /\ call[c].at = w.at
                                  /\ Pending(c, "write", "none"))
    BY <1>1, AnswerFacts
  <2>3. CASE call[c].op = "write" /\ call[c].at = w.at
    <3>1. call[c].puts = Of(w, "put") /\ log'[w.at].puts = Of(w, "put")
      BY <1>1, <2>3, LogFacts DEF WriteInv
    <3>2. status[c] # "lock" /\ call[c].answer # "condfail"
      BY <2>1, <2>3 DEF CallInv
    <3>3. call'[c].answer # "condfail"
      BY <2>2, <3>2
    <3>4. w.at \in 1..clock'
      BY <1>1, <2>1, <2>3 DEF CallInv
    <3>5. QED
      BY <1>1, <2>2, <2>3, <3>1, <3>2, <3>3, <3>4 DEF CallInv
  <2>4. CASE call[c].op = "write" /\ call[c].at # w.at
    <3>1. call'[c] = call[c]
      BY <2>2, <2>4
    <3>2. log'[call[c].at] = log[call[c].at]
      <4>1. call[c].at \in 1..clock /\ clock \in 0..MaxClock /\ MaxClock \in Nat
        BY <1>1, <2>1, <2>4, TransactAssumption DEF CallInv, TypeOK
      <4>2. call[c].at \in 1..MaxClock
        BY <4>1
      <4>3. call[c].at \in DOMAIN log
        BY <1>1, <4>2 DEF TypeOK
      <4>4. QED
        BY <2>4, <4>3, LogFacts
    <3>3. QED
      BY <1>1, <2>1, <3>1, <3>2 DEF CallInv
  <2>5. CASE call[c].op # "write"
    BY <1>1, <2>1, <2>2, <2>5 DEF CallInv
  <2>6. QED
    BY <2>3, <2>4, <2>5
<1>7. ASSUME NEW c \in Callers PROVE Snapshot(c)'
  <2> SUFFICES ASSUME status[c] = "ok", call'[c].op = "get", NEW n \in DOMAIN log',
                      NEW j \in (log'[n].puts \cap call'[c].keys) \ Deleted',
                      NEW k \in (log'[n].puts \cap call'[c].keys) \ Deleted'
               PROVE  n \in held[c][j].edits <=> n \in held[c][k].edits
    BY <1>1 DEF Snapshot
  <2>1. call'[c] = call[c] /\ call[c].keys \subseteq Ids /\ n \in DOMAIN log
    BY <1>1, AnswerFacts, LogFacts, Types DEF Pending
  <2>2. CASE n = w.at
    <3>1. \A i \in Ids : GoodFor(held[c][i], i, table[i], log)
      BY IdleGood DEF Idle
    <3>2. \A i \in Ids : n \notin held[c][i].edits
      BY <2>2, <3>1, LogFacts DEF GoodFor
    <3>3. QED
      BY <2>1, <3>2
  <2>3. CASE n # w.at
    <3>1. log'[n] = log[n] /\ Deleted \subseteq Deleted'
      BY <2>1, <2>3, LogFacts
    <3>2. QED
      BY <2>1, <3>1 DEF TransactInv, SnapshotRead
  <2>4. QED
    BY <2>2, <2>3
<1>8. SnapshotRead'
  BY <1>7 DEF SnapshotRead, Snapshot
<1>9. \A v \in net' : WriteInv(v)'
  <2>1. \A n \in DOMAIN log \ {w.at} : log'[n] = log[n]
    BY LogFacts
  <2>2. \A k \in Ids : \A x : GoodFor(x, k, table[k], log) => GoodFor(x, k, table'[k], log')
    BY CopiesStayGood
  <2>3. QED
    BY <1>1, <2>1, <2>2, OthersOnTheirWay
<1>10. QED
  BY <1>2, <1>3, <1>4, <1>5, <1>6, <1>8, <1>9 DEF TransactInv

\* What the table does with a transaction.
LEMMA ServeCases ==
    ASSUME NEW w \in net, ServeWrite(w)
    PROVE  \/ Committed(w)
           \/ /\ net' = net \ {w} /\ UNCHANGED <<table, log, clock, held, status>>
              /\ Answer(w, "condfail") \/ Answer(w, "conflict")
  BY DEF ServeWrite, Committed

LEMMA TransactStep == CarefulUse /\ TransactInv /\ [Next]_vars => TransactInv'
<1> SUFFICES ASSUME CarefulUse, TransactInv, [Next]_vars PROVE TransactInv'
  OBVIOUS
<1>1. ASSUME NEW c \in Callers, NEW keys \in SUBSET Ids, GetReturns(c, keys) \/ GetFails(c, keys)
      PROVE  TransactInv'
  BY <1>1, GetReturnsStep, GetFailsStep
<1>2. ASSUME NEW c \in Callers, NEW size, TooMany(c, size) PROVE TransactInv'
  BY <1>2, TooManyStep
<1>3. ASSUME NEW c \in Callers,
             Write(c) \/ WriteUnmarshalable(c) \/ WriteReturns(c) \/ WriteFails(c)
      PROVE  TransactInv'
  BY <1>3, WriteStep, UnmarshalableStep, WriteReturnsStep, WriteFailsStep
<1>4. ASSUME NEW w \in net, ServeWrite(w) PROVE TransactInv'
  <2>1. CASE Committed(w)
    BY <2>1, CommittedStep
  <2>2. ASSUME NEW code \in {"condfail", "conflict"}, Answer(w, code), net' = net \ {w},
               UNCHANGED <<table, log, clock, held, status>>
        PROVE  TransactInv'
    BY <2>2, RefusedStep
  <2>3. QED
    BY <1>4, <2>1, <2>2, ServeCases
<1>5. CASE UNCHANGED vars
  <2>1. UNCHANGED <<table, clock, held, call, net, status, log>>
    BY <1>5 DEF vars
  <2>2. Deleted' = Deleted
    BY <2>1 DEF Deleted
  <2>3. TypeOK' /\ SnapshotRead'
    BY <2>1, <2>2 DEF TransactInv, TypeOK, SnapshotRead
  <2>4. \A k \in Ids : RowInv(k)'
    BY <2>1, <2>2 DEF TransactInv, RowInv
  <2>5. \A c \in Callers : HeldInv(c)' /\ CallInv(c)'
    BY <2>1 DEF TransactInv, HeldInv, CallInv, Open, Good
  <2>6. ASSUME NEW w \in net PROVE WriteInv(w)'
    <3>1. WriteInv(w)
      BY DEF TransactInv
    <3>2. QED
      BY <2>1, <3>1 DEF WriteInv, Good
  <2>7. QED
    BY <2>1, <2>3, <2>4, <2>5, <2>6 DEF TransactInv
<1>6. QED
  BY <1>1, <1>2, <1>3, <1>4, <1>5 DEF Next

-----------------------------------------------------------------------------
\* The inductive invariant of transactions: every copy a caller works with is the
\* row or an older version of it, and the log tells what each row shows.
THEOREM TransactInvariance == ASSUME CarefulUse PROVE Spec => []TransactInv
<1>1. TransactInv /\ [Next]_vars => TransactInv'
  BY TransactStep
<1>2. QED
  BY <1>1, TransactInit, PTL DEF Spec

\* What a row shows of a write is what the log says.
LEMMA InRowIsLogged ==
    ASSUME TransactInv, NEW c \in Callers, call[c].op = "write", NEW k \in Ids
    PROVE  /\ InRow(c, k) => k \in log[call[c].at].puts
           /\ k \notin Deleted /\ k \in log[call[c].at].puts => InRow(c, k)
<1>1. call[c].at \in 1..clock /\ clock \in 0..MaxClock /\ MaxClock \in Nat
  BY TransactAssumption DEF TransactInv, TypeOK, CallInv
<1>2. call[c].at \in 1..MaxClock
  BY <1>1
<1>3. call[c].at \in DOMAIN log
  BY <1>2 DEF TransactInv, TypeOK
<1>4. QED
  BY <1>3 DEF TransactInv, RowInv, InRow

\* The puts of a transaction are in the rows all together or not at all
\* (transact.go 239-243).
THEOREM AllPutsOrNone == ASSUME CarefulUse PROVE Spec => []AllOrNothing
<1>1. TransactInv => AllOrNothing
  <2> SUFFICES ASSUME TransactInv, NEW c \in Callers, call[c].op = "write",
                      NEW j \in call[c].puts \ Deleted, NEW k \in call[c].puts \ Deleted
               PROVE  InRow(c, j) <=> InRow(c, k)
    BY DEF AllOrNothing
  <2>1. log[call[c].at].puts \in {{}, call[c].puts} /\ j \in Ids /\ k \in Ids
    BY Types DEF TransactInv, CallInv
  <2>2. QED
    BY <2>1, InRowIsLogged
<1>2. QED
  BY <1>1, TransactInvariance, PTL

\* nil from Run tells that every put is stored, and stays stored while nothing is
\* deleted (transact.go 245-254).
THEOREM OkIsStored == ASSUME CarefulUse PROVE Spec => []OkMeansAll
<1>1. TransactInv => OkMeansAll
  <2> SUFFICES ASSUME TransactInv, NEW c \in Callers, status[c] = "ok", call[c].op = "write",
                      NEW k \in call[c].puts \ Deleted
               PROVE  InRow(c, k)
    BY DEF OkMeansAll
  <2>1. log[call[c].at].puts = call[c].puts /\ k \in Ids
    BY Types DEF TransactInv, CallInv
  <2>2. QED
    BY <2>1, InRowIsLogged
<1>2. QED
  BY <1>1, TransactInvariance, PTL

\* ErrOptimisticLock tells that nothing is stored (transact.go 245-254).
THEOREM LockIsNotStored == ASSUME CarefulUse PROVE Spec => []LockMeansNothing
<1>1. TransactInv => LockMeansNothing
  <2> SUFFICES ASSUME TransactInv, NEW c \in Callers, status[c] = "lock", NEW k \in Ids
               PROVE  ~InRow(c, k)
    BY DEF LockMeansNothing
  <2>1. call[c].op = "write" /\ log[call[c].at].puts = {}
    BY DEF TransactInv, CallInv
  <2>2. QED
    BY <2>1, InRowIsLogged
<1>2. QED
  BY <1>1, TransactInvariance, PTL

\* A TransactGet that returns nil has all of what a transaction wrote to the items
\* it asked for, or nothing of it (transact.go 65-69).
THEOREM ReadsAreSnapshots == ASSUME CarefulUse PROVE Spec => []SnapshotRead
<1>1. TransactInv => SnapshotRead
  BY DEF TransactInv
<1>2. QED
  BY <1>1, TransactInvariance, PTL

\* Only the table changes rows.
LEMMA OnlyServedRows ==
    ASSUME TransactInv, [Next]_vars, table' # table
    PROVE  \E w \in net : Committed(w)
<1>1. ASSUME NEW w \in net, ServeWrite(w) PROVE Committed(w)
  BY <1>1, ServeCases
<1>2. QED
  BY <1>1 DEF Next, GetReturns, GetFails, TooMany, Write, WriteUnmarshalable, WriteReturns,
              WriteFails, FailWrite, End, vars

\* A transaction that commits finds every item it puts or checks as the copy it was
\* built from (transact.go 204-209).
THEOREM CommitsAreCurrent == ASSUME CarefulUse PROVE Spec => CommitsOnCurrentCopies
<1>1. ASSUME TransactInv, [Next]_vars, NEW w \in net \ net', table' # table,
             NEW k \in DOMAIN w.entries \ Deleted, w.entries[k].kind # "delete"
      PROVE  IF IsNew(w.entries[k].copy) THEN ~Exists(table[k])
             ELSE table[k].item = w.entries[k].copy
  <2>1. Committed(w)
    <3>1. PICK v \in net : Committed(v)
      BY <1>1, OnlyServedRows
    <3>2. v = w
      BY <1>1, <3>1 DEF Committed
    <3>3. QED
      BY <3>1, <3>2
  <2>2. Commits(w)
    BY <2>1 DEF Committed
  <2> DEFINE e == w.entries[k]
  <2>3. /\ GoodFor(e.copy, k, table[k], log) /\ e.kind \in {"put", "check"}
        /\ e.kind = "put" => /\ IsNew(e.copy) => ~Exists(table[k])
                             /\ ~IsNew(e.copy) => table[k].item.version = e.copy.version
        /\ e.kind = "check" => ~IsNew(e.copy) /\ table[k].item.version = e.copy.version
    BY <1>1, <2>2, EntryCommitted
  <2> HIDE DEF e
  <2>4. ~IsNew(e.copy) => table[k].item = e.copy
    BY <1>1, <2>3 DEF GoodFor, Deleted
  <2>5. QED
    BY <2>3, <2>4 DEF e
<1>2. TransactInv /\ [Next]_vars =>
          [\A w \in net \ net' : table' # table =>
               \A k \in DOMAIN w.entries \ Deleted :
                   w.entries[k].kind # "delete"
                       => IF IsNew(w.entries[k].copy) THEN ~Exists(table[k])
                          ELSE table[k].item = w.entries[k].copy]_vars
  BY <1>1
<1>3. QED
  BY <1>2, TransactInvariance, PTL DEF Spec, CommitsOnCurrentCopies

\* A row that was absent only comes back by a transaction that creates it.
THEOREM OnlyCreates == ASSUME CarefulUse PROVE Spec => OnlyCreatesAppear
<1>1. ASSUME TransactInv, [Next]_vars, NEW k \in Ids, ~Exists(table[k]), Exists(table'[k])
      PROVE  /\ table'[k].item.version = 1
             /\ table'[k].item.edits = {table'[k].item.created}
  <2>1. PICK w \in net : Committed(w)
    BY <1>1, OnlyServedRows
  <2>2. k \in Of(w, "put") /\ k \in DOMAIN w.entries /\ table'[k] = w.entries[k].row
    BY <1>1, <2>1, RowsCommitted, ItemFacts
  <2>3. w.entries[k].kind = "put" /\ Commits(w)
    BY <2>1, <2>2 DEF Of, Committed
  <2> DEFINE e == w.entries[k]
  <2>4. /\ e.row.item.edits = e.copy.edits \cup {w.at}
        /\ IsNew(e.copy) => /\ e.copy = NewItem(k) /\ e.row.item.version = 1
                            /\ e.row.item.created = w.at
        /\ ~IsNew(e.copy) => Exists(table[k])
    BY <1>1, <2>2, <2>3, EntryCommitted
  <2> HIDE DEF e
  <2>5. e.copy.edits = {}
    BY <1>1, <2>4, ItemFacts
  <2>6. QED
    BY <1>1, <2>2, <2>4, <2>5 DEF e
<1>2. TransactInv /\ [Next]_vars =>
          [\A k \in Ids : ~Exists(table[k]) /\ Exists(table'[k])
               => /\ table'[k].item.version = 1
                  /\ table'[k].item.edits = {table'[k].item.created}]_vars
  BY <1>1
<1>3. QED
  BY <1>2, TransactInvariance, PTL DEF Spec, OnlyCreatesAppear
=============================================================================
