------------------------- MODULE ParallelScanProofs -------------------------
(***************************************************************************)
(* Proofs about ParallelScan, for any table, any number of segments and    *)
(* any interleaving of their goroutines.                                   *)
(***************************************************************************)
EXTENDS ParallelScan, Descent, FiniteSetTheorems, TLAPS

\* What a page holds: the matching rows after the start, up to the last key
\* that was evaluated or, if there is none, to the end.
LEMMA PageShape ==
    ASSUME NEW reachable \in SUBSET (Nat \ {0}), NEW matching, NEW start \in Nat,
           NEW limit, NEW page \in Replies(reachable, matching, start, limit)
    PROVE  /\ page.last = NoKey \/ (page.last \in reachable /\ page.last > start)
           /\ \A k : k \in page.items <=>
                  /\ k \in reachable /\ k \in matching /\ k > start
                  /\ page.last = NoKey \/ k <= page.last
<1> DEFINE todo == {k \in reachable : k > start}
<1>1. CASE \E last \in todo :
               page = [items |-> {k \in todo : k <= last} \cap matching, last |-> last]
  BY <1>1 DEF NoKey
<1>2. CASE page = [items |-> todo \cap matching, last |-> NoKey]
  BY <1>2 DEF NoKey
<1>3. QED
  BY <1>1, <1>2 DEF Replies

LEMMA Numbers ==
    /\ Keys \subseteq Nat \ {0} /\ MaxChanges \in Nat
    /\ Totals \subseteq Nat /\ Totals \cup {0} \subseteq Nat
    /\ \A total \in Totals \cup {0} : total > 1 => total \in Totals
  BY ScanAssumption

LEMMA SegmentTypes ==
    /\ Segments \subseteq Nat /\ 0 \in Segments
    /\ \A total \in Totals : 0..(total - 1) \subseteq Segments
    /\ NoOne \notin Segments
<1>1. \A total \in Totals \cup {1} : total \in Nat
  BY Numbers
<1>2. \A total \in Totals \cup {1} : 0..(total - 1) \subseteq Segments
  BY DEF Segments
<1>3. Segments \subseteq Nat
  BY <1>1 DEF Segments
<1>4. 0 \in 0..(1 - 1)
  OBVIOUS
<1>5. QED
  BY <1>2, <1>3, <1>4 DEF NoOne

SegType == [pc : SegPc, start : Keys \cup {NoKey}, items : Bag, loaded : Bag]

LEMMA FreshTypes ==
    /\ Nothing \in Bag /\ Fresh \in SegType
    /\ Fresh.pc = "off" /\ Fresh.items = Nothing /\ Fresh.start = NoKey
    /\ \A p \in SegPc : /\ [Fresh EXCEPT !.pc = p] \in SegType
                        /\ [Fresh EXCEPT !.pc = p].pc = p
                        /\ [Fresh EXCEPT !.pc = p].items = Nothing
                        /\ [Fresh EXCEPT !.pc = p].start = NoKey
<1>1. Nothing \in Bag
  BY DEF Nothing, Bag
<1>2. "off" \in SegPc
  BY DEF SegPc
<1>3. QED
  BY <1>1, <1>2 DEF Fresh, SegType

\* The types of the parts.
LEMMA Types ==
    ASSUME TypeOK
    PROVE  /\ seg \in [Segments -> SegType] /\ items \in Bag
           /\ \A s \in Segments :
                 /\ seg[s] \in SegType /\ seg[s].pc \in SegPc
                 /\ seg[s].start \in Nat /\ seg[s].items \in Bag
                 /\ seg[s].loaded \in Bag
                 /\ \A k \in Keys : seg[s].items[k] \in Nat /\ seg[s].loaded[k] \in Nat
           /\ \A k \in Keys : /\ items[k] \in Nat /\ k \in Nat \ {0}
                              /\ hash[k] \in Segments /\ hash[k] \in Nat
           /\ b.totalSegments \in Nat
<1>1. seg \in [Segments -> SegType]
  BY DEF TypeOK, SegType
<1>2. \A s \in Segments : /\ seg[s] \in SegType /\ seg[s].pc \in SegPc
                          /\ seg[s].start \in Keys \cup {NoKey}
                          /\ seg[s].items \in Bag /\ seg[s].loaded \in Bag
  BY <1>1 DEF SegType
<1>3. Keys \cup {NoKey} \subseteq Nat
  BY Numbers DEF NoKey
<1>4. \A k \in Keys : hash[k] \in Segments /\ hash[k] \in Nat
  BY SegmentTypes DEF TypeOK
<1>5. b.totalSegments \in Nat
  <2>1. b.totalSegments \in Totals \cup {0}
    BY DEF TypeOK
  <2>2. QED
    BY <2>1, Numbers
<1>6. QED
  BY <1>1, <1>2, <1>3, <1>4, <1>5, Numbers DEF Bag, TypeOK

LEMMA ScanInit == Init => ScanInv
<1> SUFFICES ASSUME Init PROVE ScanInv
  OBVIOUS
<1>1. TypeOK
  <2>1. seg \in [Segments -> SegType] /\ hash \in [Keys -> Segments] /\ items \in Bag
    BY FreshTypes, SegmentTypes DEF Init
  <2>2. b \in [filters : SUBSET Conds, limit : Limits \cup {NoLimit},
               totalSegments : Totals \cup {0}]
    BY DEF Init
  <2>3. changes \in 0..MaxChanges /\ launched \in Nat /\ wg \in Nat
    BY Numbers DEF Init
  <2>4. QED
    BY <2>1, <2>2, <2>3 DEF Init, TypeOK, SegType
<1>2. \A s \in Segments : seg[s] = Fresh
  BY DEF Init
<1>3. On = {}
  BY <1>2, FreshTypes DEF On
<1>4. CallerInv
  BY <1>3 DEF Init, CallerInv, Running
<1>5. MutexInv
  BY <1>2, FreshTypes, SegmentTypes DEF Init, MutexInv
<1>6. \A s \in Segments : SegInv(s)
  BY <1>2, FreshTypes DEF SegInv
<1>7. QED
  BY <1>1, <1>4, <1>5, <1>6 DEF Init, ScanInv, HistoryInv, MergeInv, Running

-----------------------------------------------------------------------------
(* The caller. *)

LEMMA BuildStep ==
    ASSUME ScanInv, NEW new, Build(new),
           new \in [filters : SUBSET Conds, limit : Limits \cup {NoLimit},
                    totalSegments : Totals \cup {0}]
    PROVE  ScanInv'
<1> USE DEF ScanInv
<1>1. /\ pc \notin Running /\ b' = new
      /\ UNCHANGED <<hash, pc, launched, seg, wg, mu, items, firstErr, rows, always, ever, changes>>
  BY DEF Build, shared, table
<1>2. TypeOK'
  BY <1>1 DEF TypeOK
<1>3. On' = On
  BY <1>1 DEF On
<1>4. CallerInv'
  BY <1>1, <1>3 DEF CallerInv, Running
<1>5. MutexInv' /\ \A s \in Segments : SegInv(s)'
  BY <1>1 DEF MutexInv, SegInv
<1>6. HistoryInv' /\ MergeInv'
  BY <1>1 DEF HistoryInv, MergeInv, Running
<1>7. QED
  BY <1>2, <1>4, <1>5, <1>6

LEMMA AllStep ==
    ASSUME ScanInv, All
    PROVE  ScanInv'
<1> USE DEF ScanInv
<1>1. /\ pc \notin Running
      /\ hash' \in [Keys -> 0..(IF IsParallel THEN b.totalSegments - 1 ELSE 0)]
      /\ pc' = IF IsParallel THEN "launching" ELSE "scanning"
      /\ seg' = IF IsParallel THEN seg ELSE [seg EXCEPT ![0].pc = "scan"]
      /\ items' = Nothing
      /\ always' = Matching(rows) /\ ever' = Matching(rows)
      /\ UNCHANGED <<rows, b, launched, wg, mu, firstErr, changes>>
  BY DEF All
<1>2. On = {} /\ wg = 0 /\ mu = NoOne /\ launched = 0 /\ ~firstErr
  BY <1>1 DEF CallerInv
<1>3. \A s \in Segments : seg[s] = Fresh
  BY <1>2 DEF On, SegInv
<1>4. Matching(rows)' = Matching(rows) /\ Matching(rows) \subseteq Keys
  BY <1>1 DEF Matching
<1>5. HistoryInv'
  BY <1>1, <1>4 DEF HistoryInv
<1>6. CASE IsParallel
  <2>1. b.totalSegments \in Totals /\ b.totalSegments \in Nat /\ b.totalSegments > 1
    <3>1. b.totalSegments \in Totals \cup {0}
      BY DEF TypeOK
    <3>2. b.totalSegments \in Nat /\ b.totalSegments > 1
      BY <1>6, <3>1, Numbers DEF IsParallel
    <3>3. QED
      BY <3>1, <3>2, Numbers
  <2>2. hash' \in [Keys -> 0..(b.totalSegments - 1)]
    BY <1>1, <1>6
  <2>3. 0..(b.totalSegments - 1) \subseteq Segments
    BY <2>1, SegmentTypes
  <2>4. hash' \in [Keys -> Segments]
    BY <2>2, <2>3
  <2>5. TypeOK'
    BY <1>1, <1>4, <1>6, <2>4, FreshTypes DEF TypeOK, Running
  <2>6. On' = {}
    BY <1>1, <1>2, <1>6 DEF On
  <2>7. CallerInv'
    <3>1. Cardinality({}) = 0
      BY FS_EmptySet
    <3>2. \A k \in Keys : hash'[k] \in 0..(b.totalSegments - 1)
      BY <2>2
    <3>3. QED
      BY <1>1, <1>2, <1>6, <2>1, <2>6, <3>1, <3>2 DEF CallerInv, Running, IsParallel
  <2>8. MutexInv' /\ \A s \in Segments : SegInv(s)'
    BY <1>1, <1>2, <1>3, <1>6, FreshTypes, SegmentTypes DEF MutexInv, SegInv
  <2>9. MergeInv'
    BY <1>1, <1>2, <2>2, SegmentTypes DEF MergeInv, Merged, Nothing
  <2>10. QED
    BY <1>5, <2>5, <2>7, <2>8, <2>9
<1>7. CASE ~IsParallel
  <2>1. \A k \in Keys : hash'[k] = 0
    BY <1>1, <1>7
  <2>2. hash' \in [Keys -> Segments]
    BY <1>1, <2>1, SegmentTypes
  <2>3. /\ seg' = [seg EXCEPT ![0] = [Fresh EXCEPT !.pc = "scan"]]
        /\ "scan" \in SegPc
    BY <1>1, <1>3, <1>7, SegmentTypes DEF SegPc
  <2>4. seg' \in [Segments -> SegType]
    BY <2>3, Types, FreshTypes
  <2>5. TypeOK'
    BY <1>1, <1>4, <1>7, <2>2, <2>4, FreshTypes DEF TypeOK, Running, SegType
  <2>6. \A s \in Segments : seg'[s] = IF s = 0 THEN [Fresh EXCEPT !.pc = "scan"] ELSE Fresh
    BY <1>3, <2>3, Types
  <2>7. On' = {0}
    BY <2>3, <2>6, FreshTypes, SegmentTypes DEF On
  <2>8. CallerInv'
    BY <1>1, <1>2, <1>7, <2>1, <2>3, <2>6, <2>7, FreshTypes, SegmentTypes
       DEF CallerInv, Running, IsParallel
  <2>9. MutexInv'
    BY <1>1, <1>2, <2>3, <2>6, FreshTypes, SegmentTypes DEF MutexInv
  <2>10. \A s \in Segments : SegInv(s)'
    <3>1. \A k \in Keys : k \in Nat \ {0} /\ Nothing[k] = 0
      BY Numbers DEF Nothing
    <3>2. SegInv(0)'
      <4>1. /\ seg'[0].pc = "scan" /\ seg'[0].items = Nothing /\ seg'[0].start = 0
        <5>1. 0 \in Segments /\ "scan" \in SegPc
          BY <2>3, SegmentTypes
        <5>2. seg'[0] = [Fresh EXCEPT !.pc = "scan"]
          BY <2>6, <5>1
        <5>3. QED
          BY <5>1, <5>2, FreshTypes DEF NoKey
      <4>2. QED
        BY <3>1, <4>1 DEF SegInv
    <3>3. \A s \in Segments \ {0} : SegInv(s)'
      BY <2>6, FreshTypes DEF SegInv
    <3>4. QED
      BY <3>2, <3>3
  <2>11. MergeInv'
    BY <1>1, <1>7 DEF MergeInv
  <2>12. QED
    BY <1>5, <2>5, <2>8, <2>9, <2>10, <2>11
<1>8. QED
  BY <1>6, <1>7

-----------------------------------------------------------------------------
(* The goroutines. *)

\* Who is scanning: the caller, before it returns, or one of its goroutines.
LEMMA WhoScans ==
    ASSUME ScanInv, NEW s \in Segments, seg[s].pc # "off"
    PROVE  /\ pc \in Running
           /\ IsParallel \/ seg[s].pc \notin {"scan", "got", "failed"} =>
                 pc = "launching" /\ s < launched
<1>1. s \in On /\ s \in Nat /\ launched \in Nat
  BY SegmentTypes DEF On, ScanInv, TypeOK
<1>2. pc \in Running
  BY <1>1 DEF ScanInv, CallerInv
<1>3. CASE pc = "scanning"
  BY <1>1, <1>3 DEF ScanInv, CallerInv
<1>4. CASE pc = "launching"
  BY <1>1, <1>4 DEF ScanInv, CallerInv
<1>5. QED
  BY <1>2, <1>3, <1>4 DEF Running

\* A step of one goroutine leaves the others alone.
LEMMA OneMoves ==
    ASSUME ScanInv, NEW s \in Segments, NEW r \in SegType,
           seg' = [seg EXCEPT ![s] = r],
           UNCHANGED <<hash, b, pc, launched, rows, always, ever, changes>>,
           items' \in Bag, mu' \in Segments \cup {NoOne}, firstErr' \in BOOLEAN,
           wg' \in Nat
    PROVE  /\ TypeOK' /\ HistoryInv'
           /\ seg'[s] = r /\ \A t \in Segments \ {s} : seg'[t] = seg[t] /\ SegInv(t)'
           /\ On' = IF r.pc = "off" THEN On \ {s} ELSE On \cup {s}
<1> USE DEF ScanInv
<1>1. seg \in [Segments -> SegType] /\ seg' \in [Segments -> SegType]
  BY Types
<1>2. TypeOK'
  BY <1>1 DEF TypeOK, SegType
<1>3. HistoryInv'
  BY DEF HistoryInv, Matching
<1>4. seg'[s] = r /\ \A t \in Segments \ {s} : seg'[t] = seg[t]
  BY <1>1
<1>5. \A t \in Segments \ {s} : SegInv(t)'
  BY <1>4 DEF SegInv
<1>6. On' = IF r.pc = "off" THEN On \ {s} ELSE On \cup {s}
  BY <1>4 DEF On
<1>7. QED
  BY <1>2, <1>3, <1>4, <1>5, <1>6

\* A goroutine that goes on keeps what the caller relies on.
LEMMA CallerKept ==
    ASSUME ScanInv, NEW s \in Segments, seg[s].pc # "off", On' = On,
           UNCHANGED <<hash, b, pc, launched, wg>>,
           \/ UNCHANGED <<mu, firstErr>> /\ seg'[0].pc \in {"scan", "got", "failed"}
           \/ pc = "launching"
           \/ UNCHANGED <<mu, firstErr, seg>>
    PROVE  CallerInv'
<1>1. pc \in Running
  BY WhoScans
<1>2. CASE pc = "launching"
  BY <1>2 DEF ScanInv, CallerInv, Running, IsParallel
<1>3. CASE pc = "scanning"
  BY <1>3 DEF ScanInv, CallerInv, Running, IsParallel
<1>4. QED
  BY <1>1, <1>2, <1>3 DEF Running

LEMMA ScanPageStep ==
    ASSUME ScanInv, NEW s \in Segments, ScanPage(s)
    PROVE  ScanInv'
<1> USE DEF ScanInv
<1>1. PICK page \in Response(s) :
          seg' = [seg EXCEPT ![s].items = Collect(@, page.items),
                             ![s].start = page.last,
                             ![s].pc = IF page.last = NoKey THEN "got" ELSE "scan"]
  BY DEF ScanPage
<1>2. /\ seg[s].pc = "scan" /\ ~buildInputFails
      /\ UNCHANGED <<hash, b, pc, launched, wg, mu, items, firstErr, rows, always, ever, changes>>
  BY DEF ScanPage, shared, table
<1> DEFINE reachable == {k \in Keys : rows[k] # Absent /\ hash[k] = s}
           matching == {k \in Keys : filterExpression(b.filters, rows[k])}
           p == IF page.last = NoKey THEN "got" ELSE "scan"
           r == [pc |-> p, start |-> page.last, items |-> Collect(seg[s].items, page.items),
                 loaded |-> seg[s].loaded]
<1>3. /\ page.last = NoKey \/ (page.last \in reachable /\ page.last > seg[s].start)
      /\ \A k : k \in page.items <=>
             /\ k \in reachable /\ k \in matching /\ k > seg[s].start
             /\ page.last = NoKey \/ k <= page.last
  <2>1. reachable \in SUBSET (Nat \ {0}) /\ seg[s].start \in Nat
    BY Numbers, Types
  <2>2. page \in Replies(reachable, matching, seg[s].start, b.limit)
    BY <1>1 DEF Response
  <2> HIDE DEF reachable, matching
  <2>3. QED
    BY <2>1, <2>2, PageShape
<1>4. page.last \in Keys \cup {NoKey}
  BY <1>3
<1>5. \A k \in Keys : k \in reachable /\ k \in matching <=> k \in Matching(rows) /\ hash[k] = s
  BY DEF Matching, filterExpression, buildCondition
<1>6. r \in SegType /\ seg' = [seg EXCEPT ![s] = r]
  <2>1. seg \in [Segments -> SegType] /\ seg[s] \in SegType /\ seg[s].items \in Bag
    BY Types
  <2>2. Collect(seg[s].items, page.items) \in Bag
    BY <2>1 DEF Collect, Bag
  <2>3. r \in SegType
    BY <1>4, <2>1, <2>2 DEF SegType, SegPc
  <2>4. /\ seg' = [seg EXCEPT ![s] = seg'[s]]
        /\ seg'[s] = [seg[s] EXCEPT !.items = Collect(@, page.items), !.start = page.last,
                                    !.pc = p]
    BY <1>1, <2>1
  <2>5. seg'[s] = r
    BY <2>1, <2>4 DEF SegType
  <2>6. QED
    BY <2>3, <2>4, <2>5
<1>7. /\ TypeOK' /\ HistoryInv'
      /\ seg'[s] = r /\ \A t \in Segments \ {s} : seg'[t] = seg[t] /\ SegInv(t)'
      /\ On' = On
  <2>1. /\ items' \in Bag /\ mu' \in Segments \cup {NoOne} /\ firstErr' \in BOOLEAN
        /\ wg' \in Nat
    BY <1>2 DEF TypeOK
  <2>2. s \in On /\ r.pc # "off"
    BY <1>2 DEF On
  <2> HIDE DEF r
  <2>3. UNCHANGED <<hash, b, pc, launched, rows, always, ever, changes>>
    BY <1>2
  <2>4. On \cup {s} = On
    BY <2>2
  <2>5. QED
    BY <1>6, <2>1, <2>2, <2>3, <2>4, OneMoves
<1>8. CallerInv'
  <2>1. seg'[0].pc \in {"scan", "got", "failed"} \/ pc = "launching"
    <3>1. CASE pc = "scanning"
      BY <1>2, <1>7, <3>1, SegmentTypes DEF CallerInv, On
    <3>2. QED
      BY <1>2, <3>1, WhoScans DEF Running
  <2>2. QED
    BY <1>2, <1>7, <2>1, CallerKept
<1>9. MutexInv'
  BY <1>2, <1>7 DEF MutexInv
<1>10. SegInv(s)'
  <2>1. pc \in Running
    BY <1>2, WhoScans
  <2>2. always \subseteq Matching(rows) /\ Matching(rows) \subseteq ever
    BY <2>1 DEF HistoryInv
  <2>3. \A k \in Keys : /\ r.items[k] = seg[s].items[k] + (IF k \in page.items THEN 1 ELSE 0)
                        /\ seg[s].items[k] \in Nat /\ k \in Nat \ {0}
    <3>1. seg[s].items \in Bag
      BY Types
    <3>2. QED
      BY <3>1, Numbers DEF Bag, Collect
  <2>4. page.last \in Nat /\ seg[s].start \in Nat
    BY <1>4, Types, Numbers DEF NoKey
  <2>5. SegInv(s)
    OBVIOUS
  <2>6. \A k \in Keys :
          LET read == p # "scan" \/ k <= page.last
          IN  /\ r.items[k] <= 1
              /\ hash[k] # s \/ k \notin ever \/ ~read => r.items[k] = 0
              /\ hash[k] = s /\ k \in always /\ read => r.items[k] = 1
    <3> SUFFICES ASSUME NEW k \in Keys
                 PROVE  LET read == p # "scan" \/ k <= page.last
                        IN  /\ r.items[k] <= 1
                            /\ hash[k] # s \/ k \notin ever \/ ~read => r.items[k] = 0
                            /\ hash[k] = s /\ k \in always /\ read => r.items[k] = 1
      OBVIOUS
    <3>1. /\ seg[s].items[k] <= 1
          /\ hash[k] # s \/ k \notin ever \/ ~(k <= seg[s].start) => seg[s].items[k] = 0
          /\ hash[k] = s /\ k \in always /\ k <= seg[s].start => seg[s].items[k] = 1
      BY <1>2, <2>5 DEF SegInv
    <3>2. k \in page.items <=> /\ k \in Matching(rows) /\ hash[k] = s /\ k > seg[s].start
                               /\ page.last = NoKey \/ k <= page.last
      BY <1>3, <1>5
    <3>3. p # "scan" <=> page.last = NoKey
      OBVIOUS
    <3>4. page.last = NoKey \/ page.last > seg[s].start
      BY <1>3
    <3>5. k \in Nat \ {0} /\ seg[s].items[k] \in Nat
          /\ r.items[k] = seg[s].items[k] + (IF k \in page.items THEN 1 ELSE 0)
      BY <2>3
    <3> HIDE DEF r, p
    <3>6. QED
      BY <2>2, <2>4, <3>1, <3>2, <3>3, <3>4, <3>5 DEF NoKey
  <2>7. r.pc = p /\ p \in {"scan", "got"} /\ r.start = page.last
    OBVIOUS
  <2> HIDE DEF r, p
  <2>8. QED
    BY <1>2, <1>7, <2>6, <2>7 DEF SegInv
<1>11. MergeInv'
  <2>1. \A t \in Segments : Merged(t)' <=> Merged(t)
    BY <1>2, <1>7 DEF Merged
  <2>2. \A k \in Keys : hash[k] \in Segments
    BY Types
  <2>3. QED
    BY <1>2, <2>1, <2>2 DEF MergeInv
<1>12. QED
  BY <1>7, <1>8, <1>9, <1>10, <1>11

LEMMA ScanFailsStep ==
    ASSUME ScanInv, NEW s \in Segments, ScanFails(s)
    PROVE  ScanInv'
<1> USE DEF ScanInv
<1> DEFINE r == [Fresh EXCEPT !.pc = "failed"]
<1>1. /\ seg[s].pc = "scan" /\ seg' = [seg EXCEPT ![s] = r]
      /\ UNCHANGED <<wg, mu, items, firstErr>>
      /\ UNCHANGED <<hash, b, pc, launched, rows, always, ever, changes>>
  BY DEF ScanFails, shared, table
<1>2. r \in SegType /\ r.pc = "failed" /\ r.items = Nothing
  BY FreshTypes DEF SegPc
<1> HIDE DEF r
<1>3. /\ TypeOK' /\ HistoryInv'
      /\ seg'[s] = r /\ \A t \in Segments \ {s} : seg'[t] = seg[t] /\ SegInv(t)'
      /\ On' = On
  <2>1. /\ items' \in Bag /\ mu' \in Segments \cup {NoOne} /\ firstErr' \in BOOLEAN
        /\ wg' \in Nat
    BY <1>1 DEF TypeOK
  <2>2. On \cup {s} = On
    BY <1>1 DEF On
  <2>3. QED
    BY <1>1, <1>2, <2>1, <2>2, OneMoves
<1>4. CallerInv'
  <2>1. seg'[0].pc \in {"scan", "got", "failed"} \/ pc = "launching"
    <3>1. CASE pc = "scanning"
      BY <1>1, <1>2, <1>3, <3>1, SegmentTypes DEF CallerInv, On
    <3>2. QED
      BY <1>1, <3>1, WhoScans DEF Running
  <2>2. QED
    BY <1>1, <1>3, <2>1, CallerKept
<1>5. MutexInv'
  BY <1>1, <1>2, <1>3 DEF MutexInv
<1>6. SegInv(s)'
  BY <1>2, <1>3 DEF SegInv
<1>7. MergeInv'
  <2>1. \A t \in Segments : Merged(t)' <=> Merged(t)
    BY <1>1, <1>2, <1>3 DEF Merged
  <2>2. \A k \in Keys : hash[k] \in Segments
    BY Types
  <2>3. QED
    BY <1>1, <2>1, <2>2 DEF MergeInv
<1>8. QED
  BY <1>3, <1>4, <1>5, <1>6, <1>7

\* The steps that only change where a goroutine is.
LEMMA PcMoves ==
    ASSUME ScanInv, NEW s \in Segments, seg[s].pc # "off", NEW p \in SegPc \ {"off"},
           seg' = [seg EXCEPT ![s].pc = p],
           UNCHANGED <<hash, b, pc, launched, rows, always, ever, changes>>,
           items' = items, mu' \in Segments \cup {NoOne}, firstErr' \in BOOLEAN, wg' = wg
    PROVE  /\ TypeOK' /\ HistoryInv' /\ On' = On
           /\ seg'[s].pc = p /\ seg'[s].items = seg[s].items
           /\ \A t \in Segments \ {s} : seg'[t] = seg[t] /\ SegInv(t)'
<1> DEFINE r == [seg[s] EXCEPT !.pc = p]
<1>1. seg[s] \in SegType
  BY Types DEF ScanInv
<1>2. r \in SegType /\ r.pc = p /\ r.items = seg[s].items
  BY <1>1 DEF SegType
<1>3. items' \in Bag /\ wg' \in Nat /\ On \cup {s} = On /\ r.pc # "off"
  BY <1>2 DEF ScanInv, TypeOK, On
<1>4. seg' = [seg EXCEPT ![s] = r]
  OBVIOUS
<1> HIDE DEF r
<1>5. QED
  BY <1>2, <1>3, <1>4, OneMoves

LEMMA LockStep ==
    ASSUME ScanInv, NEW s \in Segments, Lock(s)
    PROVE  ScanInv'
<1> USE DEF ScanInv
<1> DEFINE p == IF seg[s].pc = "got" THEN "load" ELSE "record"
<1>1. /\ IsParallel /\ seg[s].pc \in {"got", "failed"} /\ mu = NoOne /\ mu' = s
      /\ seg' = [seg EXCEPT ![s].pc = p]
      /\ UNCHANGED <<wg, items, firstErr>>
      /\ UNCHANGED <<hash, b, pc, launched, rows, always, ever, changes>>
  BY DEF Lock, table
<1>2. /\ p \in SegPc \ {"off"} /\ p \in {"load", "record"}
      /\ p = "load" <=> seg[s].pc = "got"
  BY DEF SegPc
<1> HIDE DEF p
<1>3. /\ TypeOK' /\ HistoryInv' /\ On' = On
      /\ seg'[s].pc = p /\ seg'[s].items = seg[s].items
      /\ \A t \in Segments \ {s} : seg'[t] = seg[t] /\ SegInv(t)'
  <2>1. mu' \in Segments \cup {NoOne} /\ firstErr' \in BOOLEAN
    BY <1>1 DEF TypeOK
  <2>2. QED
    BY <1>1, <1>2, <2>1, PcMoves
<1>4. pc = "launching"
  BY <1>1, WhoScans
<1>5. CallerInv'
  BY <1>1, <1>3, <1>4, CallerKept
<1>6. MutexInv'
  BY <1>1, <1>2, <1>3, SegmentTypes DEF MutexInv
<1>7. SegInv(s)'
  BY <1>1, <1>2, <1>3 DEF SegInv
<1>8. MergeInv'
  <2>1. \A t \in Segments : Merged(t)' <=> Merged(t)
    BY <1>1, <1>2, <1>3 DEF Merged
  <2>2. \A k \in Keys : hash[k] \in Segments
    BY Types
  <2>3. QED
    BY <1>1, <2>1, <2>2 DEF MergeInv
<1>9. QED
  BY <1>3, <1>5, <1>6, <1>7, <1>8

LEMMA LoadStep ==
    ASSUME ScanInv, NEW s \in Segments, Load(s)
    PROVE  ScanInv'
<1> USE DEF ScanInv
<1>1. /\ seg[s].pc = "load"
      /\ seg' = [seg EXCEPT ![s].pc = "store", ![s].loaded = items]
      /\ UNCHANGED <<wg, mu, items, firstErr>>
      /\ UNCHANGED <<hash, b, pc, launched, rows, always, ever, changes>>
  BY DEF Load, shared, table
<1>2. /\ TypeOK' /\ HistoryInv' /\ On' = On
      /\ seg'[s].pc = "store" /\ seg'[s].items = seg[s].items /\ seg'[s].loaded = items
      /\ \A t \in Segments \ {s} : seg'[t] = seg[t] /\ SegInv(t)'
  <2> DEFINE r == [seg[s] EXCEPT !.pc = "store", !.loaded = items]
  <2>1. seg[s] \in SegType /\ seg \in [Segments -> SegType] /\ items \in Bag
    BY Types
  <2>2. seg' = [seg EXCEPT ![s] = r]
    BY <1>1, <2>1 DEF SegType
  <2>3. /\ r \in SegType /\ r.pc = "store" /\ r.items = seg[s].items /\ r.loaded = items
    BY <2>1 DEF SegType, SegPc
  <2>4. /\ mu' \in Segments \cup {NoOne} /\ firstErr' \in BOOLEAN /\ items' \in Bag
        /\ wg' \in Nat /\ On \cup {s} = On
    BY <1>1 DEF TypeOK, On
  <2> HIDE DEF r
  <2>5. QED
    BY <1>1, <2>2, <2>3, <2>4, OneMoves
<1>3. pc = "launching"
  BY <1>1, WhoScans
<1>4. CallerInv'
  BY <1>1, <1>2, <1>3, CallerKept
<1>5. MutexInv'
  BY <1>1, <1>2 DEF MutexInv
<1>6. SegInv(s)'
  BY <1>1, <1>2 DEF SegInv
<1>7. MergeInv'
  <2>1. \A t \in Segments : Merged(t)' <=> Merged(t)
    BY <1>1, <1>2 DEF Merged
  <2>2. \A k \in Keys : hash[k] \in Segments
    BY Types
  <2>3. QED
    BY <1>1, <2>1, <2>2 DEF MergeInv
<1>8. QED
  BY <1>2, <1>4, <1>5, <1>6, <1>7

LEMMA StoreStep ==
    ASSUME ScanInv, NEW s \in Segments, Store(s)
    PROVE  ScanInv'
<1> USE DEF ScanInv
<1> DEFINE r == [Fresh EXCEPT !.pc = "defers"]
<1>1. /\ seg[s].pc = "store" /\ seg' = [seg EXCEPT ![s] = r]
      /\ items' = [k \in Keys |-> seg[s].loaded[k] + seg[s].items[k]]
      /\ UNCHANGED <<wg, mu, firstErr>>
      /\ UNCHANGED <<hash, b, pc, launched, rows, always, ever, changes>>
  BY DEF Store, table
<1>2. r \in SegType /\ r.pc = "defers" /\ r.items = Nothing
  BY FreshTypes DEF SegPc
<1> HIDE DEF r
<1>3. pc = "launching" /\ s < launched
  BY <1>1, WhoScans
<1>4. /\ \A k \in Keys : items'[k] = items[k] + seg[s].items[k]
      /\ \A k \in Keys : items[k] \in Nat /\ seg[s].items[k] \in Nat
      /\ items' \in Bag
  <2>1. seg[s].loaded = items
    BY <1>1 DEF MutexInv
  <2>2. \A k \in Keys : items[k] \in Nat /\ seg[s].items[k] \in Nat
    BY Types
  <2>3. QED
    BY <1>1, <2>1, <2>2 DEF Bag
<1>5. /\ TypeOK' /\ HistoryInv'
      /\ seg'[s] = r /\ \A t \in Segments \ {s} : seg'[t] = seg[t] /\ SegInv(t)'
      /\ On' = On
  <2>1. /\ mu' \in Segments \cup {NoOne} /\ firstErr' \in BOOLEAN /\ wg' \in Nat
    BY <1>1 DEF TypeOK
  <2>2. On \cup {s} = On
    BY <1>1 DEF On
  <2>3. QED
    BY <1>1, <1>2, <1>4, <2>1, <2>2, OneMoves
<1>6. CallerInv'
  BY <1>1, <1>3, <1>5, CallerKept
<1>7. MutexInv'
  BY <1>1, <1>2, <1>5 DEF MutexInv
<1>8. SegInv(s)'
  BY <1>2, <1>5 DEF SegInv
<1>9. MergeInv'
  <2>1. \A t \in Segments : Merged(t)' <=> Merged(t) \/ t = s
    BY <1>1, <1>2, <1>3, <1>5 DEF Merged
  <2>2. ~Merged(s)
    BY <1>1 DEF Merged
  <2> SUFFICES ASSUME NEW k \in Keys
               PROVE  /\ items'[k] <= 1
                      /\ ~Merged(hash[k])' \/ k \notin ever => items'[k] = 0
                      /\ Merged(hash[k])' /\ k \in always /\ ~firstErr => items'[k] = 1
    BY <1>1 DEF MergeInv
  <2>3. /\ items[k] <= 1
        /\ ~Merged(hash[k]) \/ k \notin ever => items[k] = 0
        /\ Merged(hash[k]) /\ k \in always /\ ~firstErr => items[k] = 1
    BY <1>3 DEF MergeInv
  <2>4. /\ seg[s].items[k] <= 1
        /\ hash[k] # s \/ k \notin ever => seg[s].items[k] = 0
        /\ hash[k] = s /\ k \in always => seg[s].items[k] = 1
    BY <1>1 DEF SegInv
  <2>5. Merged(hash[k])' <=> Merged(hash[k]) \/ hash[k] = s
    BY <1>1, <2>1, Types DEF Merged
  <2>6. QED
    BY <1>4, <2>2, <2>3, <2>4, <2>5
<1>10. QED
  BY <1>5, <1>6, <1>7, <1>8, <1>9

LEMMA RecordStep ==
    ASSUME ScanInv, NEW s \in Segments, Record(s)
    PROVE  ScanInv'
<1> USE DEF ScanInv
<1>1. /\ seg[s].pc = "record" /\ firstErr' = TRUE
      /\ seg' = [seg EXCEPT ![s].pc = "defers"]
      /\ UNCHANGED <<wg, mu, items>>
      /\ UNCHANGED <<hash, b, pc, launched, rows, always, ever, changes>>
  BY DEF Record, table
<1>2. /\ TypeOK' /\ HistoryInv' /\ On' = On
      /\ seg'[s].pc = "defers" /\ seg'[s].items = seg[s].items
      /\ \A t \in Segments \ {s} : seg'[t] = seg[t] /\ SegInv(t)'
  <2>1. mu' \in Segments \cup {NoOne} /\ firstErr' \in BOOLEAN /\ "defers" \in SegPc \ {"off"}
    BY <1>1 DEF TypeOK, SegPc
  <2>2. QED
    BY <1>1, <2>1, PcMoves
<1>3. pc = "launching" /\ s < launched
  BY <1>1, WhoScans
<1>4. CallerInv'
  BY <1>1, <1>2, <1>3, CallerKept
<1>5. MutexInv'
  BY <1>1, <1>2 DEF MutexInv
<1>6. SegInv(s)'
  BY <1>1, <1>2 DEF SegInv
<1>7. MergeInv'
  <2>1. \A t \in Segments : Merged(t)' <=> Merged(t) \/ t = s
    BY <1>1, <1>2, <1>3 DEF Merged
  <2>2. \A k \in Keys : hash[k] \in Segments
    BY Types
  <2>3. QED
    BY <1>1, <2>1, <2>2 DEF MergeInv
<1>8. QED
  BY <1>2, <1>4, <1>5, <1>6, <1>7

LEMMA UnlockStep ==
    ASSUME ScanInv, NEW s \in Segments, Unlock(s)
    PROVE  ScanInv'
<1> USE DEF ScanInv
<1>1. /\ seg[s].pc = "defers" /\ mu' = NoOne
      /\ seg' = [seg EXCEPT ![s].pc = "unlocked"]
      /\ UNCHANGED <<wg, items, firstErr>>
      /\ UNCHANGED <<hash, b, pc, launched, rows, always, ever, changes>>
  BY DEF Unlock, table
<1>2. /\ TypeOK' /\ HistoryInv' /\ On' = On
      /\ seg'[s].pc = "unlocked" /\ seg'[s].items = seg[s].items
      /\ \A t \in Segments \ {s} : seg'[t] = seg[t] /\ SegInv(t)'
  <2>1. mu' \in Segments \cup {NoOne} /\ firstErr' \in BOOLEAN /\ "unlocked" \in SegPc \ {"off"}
    BY <1>1 DEF TypeOK, SegPc
  <2>2. QED
    BY <1>1, <2>1, PcMoves
<1>3. pc = "launching"
  BY <1>1, WhoScans
<1>4. CallerInv'
  BY <1>1, <1>2, <1>3, CallerKept
<1>5. MutexInv'
  BY <1>1, <1>2, SegmentTypes DEF MutexInv
<1>6. SegInv(s)'
  BY <1>1, <1>2 DEF SegInv
<1>7. MergeInv'
  <2>1. \A t \in Segments : Merged(t)' <=> Merged(t)
    BY <1>1, <1>2 DEF Merged
  <2>2. \A k \in Keys : hash[k] \in Segments
    BY Types
  <2>3. QED
    BY <1>1, <2>1, <2>2 DEF MergeInv
<1>8. QED
  BY <1>2, <1>4, <1>5, <1>6, <1>7

LEMMA DoneStep ==
    ASSUME ScanInv, NEW s \in Segments, Done(s)
    PROVE  ScanInv'
<1> USE DEF ScanInv
<1>1. /\ seg[s].pc = "unlocked" /\ wg' = wg - 1 /\ seg' = [seg EXCEPT ![s] = Fresh]
      /\ UNCHANGED <<mu, items, firstErr>>
      /\ UNCHANGED <<hash, b, pc, launched, rows, always, ever, changes>>
  BY DEF Done, table
<1>2. pc = "launching"
  BY <1>1, WhoScans
<1>3. s \in On /\ IsFiniteSet(On) /\ wg = Cardinality(On)
  <2>1. On \subseteq 0..(launched - 1) /\ wg = Cardinality(On) /\ launched \in Nat
    BY <1>2 DEF CallerInv, TypeOK
  <2>2. IsFiniteSet(0..(launched - 1))
    BY <2>1, FS_Interval
  <2>3. QED
    BY <1>1, <2>1, <2>2, FS_Subset DEF On
<1>4. wg' = Cardinality(On \ {s}) /\ wg' \in Nat
  <2>1. Cardinality(On \ {s}) = Cardinality(On) - 1 /\ IsFiniteSet(On \ {s})
    BY <1>3, FS_RemoveElement
  <2>2. QED
    BY <1>1, <1>3, <2>1, FS_CardinalityType
<1>5. /\ TypeOK' /\ HistoryInv'
      /\ seg'[s] = Fresh /\ \A t \in Segments \ {s} : seg'[t] = seg[t] /\ SegInv(t)'
      /\ On' = On \ {s}
  <2>1. /\ mu' \in Segments \cup {NoOne} /\ firstErr' \in BOOLEAN /\ items' \in Bag
    BY <1>1 DEF TypeOK
  <2>2. QED
    BY <1>1, <1>4, <2>1, FreshTypes, OneMoves
<1>6. CallerInv'
  BY <1>1, <1>2, <1>4, <1>5 DEF CallerInv, Running, IsParallel
<1>7. MutexInv'
  BY <1>1, <1>5, FreshTypes DEF MutexInv
<1>8. SegInv(s)'
  BY <1>5, FreshTypes DEF SegInv
<1>9. MergeInv'
  <2>1. \A t \in Segments : Merged(t)' <=> Merged(t)
    BY <1>1, <1>5, FreshTypes DEF Merged
  <2>2. \A k \in Keys : hash[k] \in Segments
    BY Types
  <2>3. QED
    BY <1>1, <2>1, <2>2 DEF MergeInv
<1>10. QED
  BY <1>5, <1>6, <1>7, <1>8, <1>9

-----------------------------------------------------------------------------
(* The loop that starts them, the returns, and the other programs. *)

LEMMA LaunchStep ==
    ASSUME ScanInv, Launch
    PROVE  ScanInv'
<1> USE DEF ScanInv
<1>1. /\ pc = "launching" /\ launched < b.totalSegments
      /\ wg' = wg + 1 /\ launched' = launched + 1
      /\ seg' = [seg EXCEPT ![launched].pc = "scan"]
      /\ UNCHANGED <<hash, b, pc, mu, items, firstErr, rows, always, ever, changes>>
  BY DEF Launch, table
<1>2. launched \in Segments /\ launched \in Nat /\ b.totalSegments \in Nat
  <2>1. b.totalSegments \in Totals \cup {0} /\ launched \in Nat /\ b.totalSegments \in Nat
    BY Types DEF TypeOK
  <2>2. b.totalSegments \in Totals
    BY <1>1, <2>1
  <2>3. 0..(b.totalSegments - 1) \subseteq Segments
    BY <2>2, SegmentTypes
  <2>4. launched \in 0..(b.totalSegments - 1)
    BY <1>1, <2>1
  <2>5. QED
    BY <2>1, <2>3, <2>4
<1>3. /\ IsFiniteSet(On) /\ wg = Cardinality(On) /\ wg \in Nat
      /\ On \subseteq 0..(launched - 1) /\ launched \notin On
  <2>1. On \subseteq 0..(launched - 1) /\ wg = Cardinality(On) /\ wg \in Nat
    BY <1>1 DEF CallerInv, TypeOK
  <2>2. IsFiniteSet(0..(launched - 1))
    BY <1>2, FS_Interval
  <2>3. IsFiniteSet(On)
    BY <2>1, <2>2, FS_Subset
  <2>4. launched \notin 0..(launched - 1)
    BY <1>2
  <2>5. QED
    BY <2>1, <2>3, <2>4
<1>4. seg[launched] = Fresh
  BY <1>2, <1>3 DEF On, SegInv
<1> DEFINE r == [Fresh EXCEPT !.pc = "scan"]
<1>5. r \in SegType /\ r.pc = "scan" /\ r.items = Nothing /\ r.start = NoKey
  BY FreshTypes DEF SegPc
<1>6. seg' = [seg EXCEPT ![launched] = r] /\ seg \in [Segments -> SegType]
  BY <1>1, <1>4, Types
<1> HIDE DEF r
<1>7. /\ seg'[launched] = r /\ seg' \in [Segments -> SegType]
      /\ \A t \in Segments \ {launched} : seg'[t] = seg[t]
  BY <1>2, <1>5, <1>6
<1>8. TypeOK'
  BY <1>1, <1>2, <1>3, <1>7 DEF TypeOK, SegType
<1>9. On' = On \cup {launched}
  BY <1>2, <1>5, <1>7 DEF On
<1>10. CallerInv'
  <2>1. Cardinality(On \cup {launched}) = wg + 1
    BY <1>3, FS_AddElement
  <2>2. On' \subseteq 0..(launched' - 1) /\ launched' <= b.totalSegments
    BY <1>1, <1>2, <1>3, <1>9
  <2>3. QED
    BY <1>1, <1>9, <2>1, <2>2 DEF CallerInv, Running, IsParallel
<1>11. MutexInv'
  BY <1>1, <1>2, <1>4, <1>5, <1>7, FreshTypes DEF MutexInv
<1>12. HistoryInv'
  BY <1>1 DEF HistoryInv, Matching
<1>13. \A t \in Segments \ {launched} : SegInv(t)'
  BY <1>1, <1>7 DEF SegInv
<1>14. \A t \in Segments : t = launched => SegInv(t)'
  <2>1. \A k \in Keys : k \in Nat \ {0} /\ Nothing[k] = 0
    BY Numbers DEF Nothing
  <2> SUFFICES ASSUME NEW t \in Segments, t = launched
               PROVE  SegInv(t)'
    OBVIOUS
  <2>2. seg'[t].pc = "scan" /\ seg'[t].items = Nothing /\ seg'[t].start = 0
    BY <1>5, <1>7 DEF NoKey
  <2>3. QED
    BY <2>1, <2>2 DEF SegInv
<1>15. MergeInv'
  <2>1. \A t \in Segments : Merged(t)' <=> Merged(t)
    BY <1>1, <1>2, <1>5, <1>7, SegmentTypes DEF Merged
  <2>2. \A k \in Keys : hash[k] \in Segments
    BY Types
  <2>3. QED
    BY <1>1, <2>1, <2>2 DEF MergeInv
<1>16. QED
  BY <1>8, <1>10, <1>11, <1>12, <1>13, <1>14, <1>15

\* When the wait is over no goroutine is left.
LEMMA NoneLeft ==
    ASSUME ScanInv, pc = "launching", wg = 0
    PROVE  On = {} /\ \A s \in Segments : seg[s] = Fresh
<1>1. On \subseteq 0..(launched - 1) /\ Cardinality(On) = 0 /\ launched \in Nat
  BY DEF ScanInv, CallerInv, TypeOK
<1>2. IsFiniteSet(0..(launched - 1))
  BY <1>1, FS_Interval
<1>3. IsFiniteSet(On)
  BY <1>1, <1>2, FS_Subset
<1>4. On = {}
  BY <1>1, <1>3, FS_EmptySet
<1>5. QED
  BY <1>4 DEF On, ScanInv, SegInv

LEMMA ParallelReturnsStep ==
    ASSUME ScanInv, ParallelReturns
    PROVE  ScanInv'
<1> USE DEF ScanInv
<1>1. /\ pc = "launching" /\ launched = b.totalSegments /\ wg = 0
      /\ pc' = IF firstErr THEN "err" ELSE "ok"
      /\ items' = IF firstErr THEN Nothing ELSE items
      /\ launched' = 0 /\ firstErr' = FALSE /\ hash' = [k \in Keys |-> 0]
      /\ UNCHANGED <<b, seg, wg, mu, rows, always, ever, changes>>
  BY DEF ParallelReturns, Waited, table
<1>2. On = {} /\ \A s \in Segments : seg[s] = Fresh
  BY <1>1, NoneLeft
<1>3. mu = NoOne
  BY <1>2, FreshTypes DEF MutexInv, TypeOK
<1>4. On' = {}
  BY <1>1, <1>2 DEF On
<1>5. hash' \in [Keys -> Segments] /\ items' \in Bag
  BY <1>1, SegmentTypes, FreshTypes DEF TypeOK
<1>6. TypeOK'
  BY <1>1, <1>5 DEF TypeOK
<1>7. CallerInv'
  BY <1>1, <1>3, <1>4 DEF CallerInv, Running
<1>8. MutexInv' /\ \A s \in Segments : SegInv(s)'
  BY <1>1, <1>2, <1>3, FreshTypes, SegmentTypes DEF MutexInv, SegInv
<1>9. HistoryInv' /\ MergeInv'
  BY <1>1 DEF HistoryInv, MergeInv, Running
<1>10. QED
  BY <1>6, <1>7, <1>8, <1>9

LEMMA SingleReturnsStep ==
    ASSUME ScanInv, SingleReturns
    PROVE  ScanInv'
<1> USE DEF ScanInv
<1>1. /\ pc = "scanning" /\ seg[0].pc \in {"got", "failed"}
      /\ pc' = IF seg[0].pc = "got" THEN "ok" ELSE "err"
      /\ items' = seg[0].items /\ seg' = [seg EXCEPT ![0] = Fresh]
      /\ UNCHANGED <<hash, b, launched, wg, mu, firstErr, rows, always, ever, changes>>
  BY DEF SingleReturns, table
<1>2. On = {0} /\ wg = 0 /\ mu = NoOne /\ launched = 0 /\ ~firstErr
  BY <1>1 DEF CallerInv
<1>3. \A s \in Segments : seg'[s] = Fresh
  BY <1>1, <1>2, Types, SegmentTypes DEF On, SegInv
<1>4. On' = {}
  BY <1>3, FreshTypes DEF On
<1>5. seg' \in [Segments -> SegType] /\ items' \in Bag
  BY <1>1, Types, FreshTypes, SegmentTypes
<1>6. TypeOK'
  BY <1>1, <1>5 DEF TypeOK, SegType
<1>7. CallerInv'
  BY <1>1, <1>2, <1>4 DEF CallerInv, Running
<1>8. MutexInv' /\ \A s \in Segments : SegInv(s)'
  BY <1>1, <1>2, <1>3, FreshTypes, SegmentTypes DEF MutexInv, SegInv
<1>9. HistoryInv' /\ MergeInv'
  BY <1>1 DEF HistoryInv, MergeInv, Running
<1>10. QED
  BY <1>6, <1>7, <1>8, <1>9

LEMMA ChangeStep ==
    ASSUME ScanInv, NEW k \in Keys, NEW row \in Rows \cup {Absent}, Change(k, row)
    PROVE  ScanInv'
<1> USE DEF ScanInv
<1>1. /\ rows' = [rows EXCEPT ![k] = row] /\ changes < MaxChanges
      /\ always' = always \cap Matching(rows') /\ ever' = ever \cup Matching(rows')
      /\ changes' = changes + 1
      /\ UNCHANGED <<hash, b, pc, launched, seg, wg, mu, items, firstErr>>
  BY DEF Change, shared
<1>2. Matching(rows)' = Matching(rows') /\ Matching(rows') \subseteq Keys
  BY <1>1 DEF Matching
<1>3. TypeOK'
  <2>1. rows' \in [Keys -> Rows \cup {Absent}] /\ always' \subseteq Keys /\ ever' \subseteq Keys
    BY <1>1, <1>2 DEF TypeOK
  <2>2. changes' \in 0..MaxChanges
    BY <1>1, Numbers DEF TypeOK
  <2>3. QED
    BY <1>1, <2>1, <2>2 DEF TypeOK
<1>4. On' = On
  BY <1>1 DEF On
<1>5. CallerInv'
  BY <1>1, <1>4 DEF CallerInv, IsParallel
<1>6. MutexInv'
  BY <1>1 DEF MutexInv
<1>7. HistoryInv'
  BY <1>1, <1>2 DEF HistoryInv
<1>8. \A s \in Segments : SegInv(s)'
  BY <1>1 DEF SegInv
<1>9. MergeInv'
  BY <1>1 DEF MergeInv, Merged
<1>10. QED
  BY <1>3, <1>5, <1>6, <1>7, <1>8, <1>9

LEMMA ScanStep == ScanInv /\ [Next]_vars => ScanInv'
<1> SUFFICES ASSUME ScanInv, [Next]_vars PROVE ScanInv'
  OBVIOUS
<1> DEFINE Builder == [filters : SUBSET Conds, limit : Limits \cup {NoLimit},
                       totalSegments : Totals \cup {0}]
<1>1. b \in Builder
  BY DEF ScanInv, TypeOK
<1>2. ASSUME NEW f \in Conds, Filter(f) PROVE ScanInv'
  <2>1. [b EXCEPT !.filters = @ \cup {f}] \in Builder
    BY <1>1
  <2>2. QED
    BY <1>2, <2>1, BuildStep DEF Filter
<1>3. ASSUME NEW n \in Limits, Limit(n) PROVE ScanInv'
  <2>1. [b EXCEPT !.limit = n] \in Builder
    BY <1>1
  <2>2. QED
    BY <1>3, <2>1, BuildStep DEF Limit
<1>4. ASSUME NEW total \in Totals, Parallel(total) PROVE ScanInv'
  <2>1. [b EXCEPT !.totalSegments = total] \in Builder
    BY <1>1
  <2>2. QED
    BY <1>4, <2>1, BuildStep DEF Parallel
<1>5. CASE All
  BY <1>5, AllStep
<1>6. CASE Caller
  BY <1>6, LaunchStep, ParallelReturnsStep, SingleReturnsStep DEF Caller
<1>7. ASSUME NEW s \in Segments, Goroutine(s) PROVE ScanInv'
  BY <1>7, ScanPageStep, ScanFailsStep, LockStep, LoadStep, StoreStep, RecordStep,
     UnlockStep, DoneStep DEF Goroutine
<1>8. ASSUME NEW k \in Keys, NEW row \in Rows \cup {Absent}, Change(k, row) PROVE ScanInv'
  BY <1>8, ChangeStep
<1>9. CASE UNCHANGED vars
  <2>1. UNCHANGED <<rows, hash, b, pc, launched, seg, wg, mu, items, firstErr, always, ever, changes>>
    BY <1>9 DEF vars
  <2>2. On' = On /\ Matching(rows)' = Matching(rows)
    BY <2>1 DEF On, Matching
  <2>3. TypeOK'
    BY <2>1 DEF ScanInv, TypeOK
  <2>4. CallerInv' /\ MutexInv'
    BY <2>1, <2>2 DEF ScanInv, CallerInv, MutexInv, IsParallel
  <2>5. HistoryInv' /\ MergeInv' /\ \A s \in Segments : SegInv(s)'
    BY <2>1, <2>2 DEF ScanInv, HistoryInv, MergeInv, Merged, SegInv
  <2>6. QED
    BY <2>3, <2>4, <2>5 DEF ScanInv
<1>10. QED
  BY <1>2, <1>3, <1>4, <1>5, <1>6, <1>7, <1>8, <1>9 DEF Next

\* The inductive invariant of a scan, for any table, any Parallel(total) and any
\* interleaving of the goroutines (scan.go 194-288).
THEOREM ScanInvariance == Spec => []ScanInv
  BY ScanInit, ScanStep, PTL DEF Spec

\* When All returns, also with an error, no goroutine is left (scan.go 209-212).
THEOREM NoGoroutineLeaks == Spec => []NoLeak
<1>1. ScanInv => NoLeak
  BY DEF ScanInv, CallerInv, On, NoLeak
<1>2. QED
  BY <1>1, ScanInvariance, PTL

-----------------------------------------------------------------------------
(* A scan returns every row that matched all the time exactly once. *)

\* What the merged slice holds when the wait is over and no error was recorded.
LEMMA AllMerged ==
    ASSUME ScanInv, pc = "launching", launched = b.totalSegments, wg = 0, ~firstErr
    PROVE  ReadAll!Promised(items)
<1>1. \A s \in Segments : seg[s].pc = "off"
  BY NoneLeft, FreshTypes
<1>2. b.totalSegments \in Nat /\ \A k \in Keys : hash[k] \in Segments /\ hash[k] < launched
  <2>1. \A k \in Keys : hash[k] \in 0..(b.totalSegments - 1)
    BY DEF ScanInv, CallerInv
  <2>2. b.totalSegments \in Nat /\ \A k \in Keys : hash[k] \in Segments
    BY Types DEF ScanInv
  <2>3. QED
    BY <2>1, <2>2
<1>3. \A k \in Keys : Merged(hash[k])
  BY <1>1, <1>2 DEF Merged
<1>4. \A k \in Keys : Once[k] = 1
  BY DEF Once
<1>5. QED
  BY <1>3, <1>4 DEF ScanInv, MergeInv, ReadAll!Promised

\* What the caller collected itself.
LEMMA AllCollected ==
    ASSUME ScanInv, pc = "scanning", seg[0].pc = "got"
    PROVE  ReadAll!Promised(seg[0].items)
<1>1. SegInv(0) /\ \A k \in Keys : hash[k] = 0
  BY SegmentTypes DEF ScanInv, CallerInv
<1>2. \A k \in Keys : Once[k] = 1
  BY DEF Once
<1>3. QED
  BY <1>1, <1>2 DEF SegInv, ReadAll!Promised

LEMMA Refines ==
    ASSUME ScanInv, ScanInv', [Next]_vars
    PROVE  ReadAll!Next \/ UNCHANGED <<Matching(rows), Once, always, ever, Status, Returned>>
<1>0. /\ TypeOK /\ TypeOK' /\ Once' = Once /\ Once \in [Keys -> Nat]
      /\ Matching(rows)' \subseteq Keys
  BY DEF ScanInv, Once, Matching
<1>1. UNCHANGED <<rows, b>> => Matching(rows)' = Matching(rows)
  BY DEF Matching
<1>2. ASSUME NEW new, Build(new) PROVE ReadAll!Build
  <2>1. /\ pc \in {"building", "ok", "err"} /\ pc' = pc
        /\ UNCHANGED <<items, rows, always, ever>>
    BY <1>0, <1>2 DEF Build, shared, table, TypeOK
  <2>2. Status' = Status /\ Returned' = Returned /\ Status # "running"
    BY <2>1 DEF Status, Returned, Running
  <2>3. QED
    BY <1>0, <2>1, <2>2 DEF ReadAll!Build, ReadAll!Bag
<1>3. CASE All
  <2>1. /\ pc \in {"building", "ok", "err"} /\ pc' \in Running
        /\ always' = Matching(rows) /\ ever' = Matching(rows) /\ UNCHANGED <<rows, b>>
    BY <1>0, <1>3 DEF All, TypeOK, Running
  <2>2. Status # "running" /\ Status' = "running" /\ Returned' = Nothing
    BY <2>1 DEF Status, Returned, Running
  <2>3. QED
    BY <1>0, <1>1, <2>1, <2>2 DEF ReadAll!Next, ReadAll!Begin, ReadAll!Nothing, Nothing
<1>4. ASSUME pc \in Running, pc' = pc, UNCHANGED <<b, rows, always, ever>>
      PROVE  UNCHANGED <<Matching(rows), Once, always, ever, Status, Returned>>
  <2>1. Status' = Status /\ Returned' = Returned
    BY <1>4 DEF Status, Returned, Running, Nothing
  <2>2. QED
    BY <1>0, <1>1, <1>4, <2>1
<1>5. CASE Launch
  <2>1. pc \in Running /\ pc' = pc /\ UNCHANGED <<b, rows, always, ever>>
    BY <1>5 DEF Launch, table, Running
  <2>2. QED
    BY <1>4, <2>1
<1>6. ASSUME NEW s \in Segments, Goroutine(s)
      PROVE  UNCHANGED <<Matching(rows), Once, always, ever, Status, Returned>>
  <2>1. seg[s].pc # "off" /\ pc' = pc /\ UNCHANGED <<b, rows, always, ever>>
    BY <1>6 DEF Goroutine, ScanPage, ScanFails, Lock, Load, Store, Record, Unlock, Done, table
  <2>2. QED
    BY <1>4, <2>1, WhoScans
<1>7. ASSUME pc \in Running, pc' = "ok", UNCHANGED <<b, rows, always, ever>>,
             items' \in Bag, ReadAll!Promised(items')
      PROVE  ReadAll!Return
  <2>1. Status = "running" /\ Status' = "ok" /\ Returned' = items'
    BY <1>7 DEF Status, Returned, Running
  <2>2. QED
    BY <1>0, <1>1, <1>7, <2>1 DEF ReadAll!Return, ReadAll!Bag, ReadAll!Promised, Bag
<1>8. ASSUME pc' = "err", items' = Nothing, UNCHANGED <<b, rows, always, ever>>
      PROVE  ReadAll!Fail
  <2>1. Status' = "err" /\ Returned' = Nothing
    BY <1>8 DEF Status, Returned, Running
  <2>2. QED
    BY <1>0, <1>1, <1>8, <2>1 DEF ReadAll!Fail, ReadAll!Nothing, Nothing
<1>9. CASE ParallelReturns
  <2>1. /\ pc = "launching" /\ launched = b.totalSegments /\ wg = 0
        /\ pc' = IF firstErr THEN "err" ELSE "ok"
        /\ items' = IF firstErr THEN Nothing ELSE items
        /\ UNCHANGED <<b, rows, always, ever>>
    BY <1>9 DEF ParallelReturns, Waited, table
  <2>2. CASE firstErr
    BY <1>8, <2>1, <2>2 DEF ReadAll!Next
  <2>3. CASE ~firstErr
    <3>1. ReadAll!Promised(items)
      BY <2>1, <2>3, AllMerged
    <3>2. items' \in Bag /\ items' = items
      BY <1>0, <2>1, <2>3 DEF TypeOK
    <3>3. QED
      BY <1>7, <2>1, <2>3, <3>1, <3>2 DEF ReadAll!Next, ReadAll!Promised, Running
  <2>4. QED
    BY <2>2, <2>3
<1>10. CASE SingleReturns
  <2>1. /\ pc = "scanning" /\ seg[0].pc \in {"got", "failed"}
        /\ pc' = IF seg[0].pc = "got" THEN "ok" ELSE "err"
        /\ items' = seg[0].items /\ UNCHANGED <<b, rows, always, ever>>
    BY <1>10 DEF SingleReturns, table
  <2>2. CASE seg[0].pc = "got"
    <3>1. ReadAll!Promised(seg[0].items)
      BY <2>1, <2>2, AllCollected
    <3>2. items' \in Bag
      BY <1>0 DEF TypeOK
    <3>3. QED
      BY <1>7, <2>1, <2>2, <3>1, <3>2 DEF ReadAll!Next, ReadAll!Promised, Running
  <2>3. CASE seg[0].pc = "failed"
    <3>1. SegInv(0)
      BY SegmentTypes DEF ScanInv
    <3>2. items' = Nothing
      BY <2>1, <2>3, <3>1 DEF SegInv
    <3>3. QED
      BY <1>8, <2>1, <2>3, <3>2 DEF ReadAll!Next
  <2>4. QED
    BY <2>1, <2>2, <2>3
<1>11. ASSUME NEW k \in Keys, NEW row \in Rows \cup {Absent}, Change(k, row)
       PROVE  ReadAll!Next
  <2>1. /\ always' = always \cap Matching(rows') /\ ever' = ever \cup Matching(rows')
        /\ UNCHANGED <<b, pc, items>>
    BY <1>11 DEF Change, shared
  <2>2. Matching(rows)' = Matching(rows')
    BY <2>1 DEF Matching
  <2>3. Status' = Status /\ Returned' = Returned
    BY <2>1 DEF Status, Returned, Nothing
  <2>4. QED
    BY <1>0, <2>1, <2>2, <2>3 DEF ReadAll!Next, ReadAll!Change
<1>12. CASE UNCHANGED vars
  <2>1. UNCHANGED <<b, rows, always, ever, pc, items>>
    BY <1>12 DEF vars
  <2>2. Status' = Status /\ Returned' = Returned
    BY <2>1 DEF Status, Returned, Nothing
  <2>3. QED
    BY <1>0, <1>1, <2>1, <2>2
<1>13. QED
  BY <1>2, <1>3, <1>5, <1>6, <1>9, <1>10, <1>11, <1>12
     DEF Next, Caller, Filter, Limit, Parallel, ReadAll!Next

\* All returns every row that matched all the time exactly once, whatever the
\* number of segments and however their goroutines interleave, or nothing and an
\* error (scan.go 194-214).
THEOREM ScanReadsAll == Spec => ImplementsReadAll
<1>1. Init => ReadAll!Init
  <2>1. ASSUME Init
        PROVE  /\ Status = "idle" /\ Returned = Nothing /\ Matching(rows) \subseteq Keys
               /\ Once \in [Keys -> Nat] /\ Nothing \in [Keys -> Nat]
               /\ always = {} /\ ever = {}
    BY <2>1 DEF Init, Status, Returned, Matching, Once, Nothing, Running
  <2>2. QED
    BY <2>1 DEF ReadAll!Init, ReadAll!TypeOK, ReadAll!Bag, ReadAll!Nothing, Nothing
<1>2. ScanInv /\ ScanInv' /\ [Next]_vars => [ReadAll!Next]_(ReadAll!vars)
  BY Refines DEF ReadAll!vars
<1>3. QED
  BY <1>1, <1>2, ScanInit, ScanStep, PTL DEF Spec, ImplementsReadAll, ReadAll!Spec

-----------------------------------------------------------------------------
(* The safe half of AllEnds: nobody waits for a mutex or a WaitGroup that is  *)
(* not going to be released, and each step leaves less to be done.            *)

\* What a goroutine, and the caller, wait for.
MayGo(s) == seg[s].pc # "off" /\ (seg[s].pc \in {"got", "failed"} => mu = NoOne)
CallerMayGo ==
    IF pc = "scanning" THEN seg[0].pc \in {"got", "failed"}
                       ELSE launched < b.totalSegments \/ Waited

NobodyStuck == pc \in Running => CallerMayGo \/ \E s \in Segments : MayGo(s)

\* Until All returns somebody can go on: who holds the mutex is on the way to
\* unlock it, and who is counted by the WaitGroup is there (scan.go 261-291).
THEOREM NobodyGetsStuck == Spec => []NobodyStuck
<1>1. ScanInv => NobodyStuck
  <2> SUFFICES ASSUME ScanInv, pc \in Running, ~CallerMayGo
               PROVE  \E s \in Segments : MayGo(s)
    BY DEF NobodyStuck
  <2>1. CASE pc = "scanning"
    <3>1. seg[0].pc = "scan"
      BY <2>1 DEF ScanInv, CallerInv, CallerMayGo
    <3>2. QED
      BY <3>1, SegmentTypes DEF MayGo
  <2>2. CASE pc = "launching"
    <3>1. On # {}
      <4>1. wg # 0 /\ wg = Cardinality(On)
        BY <2>2 DEF CallerMayGo, Waited, ScanInv, CallerInv
      <4>2. QED
        BY <4>1, FS_EmptySet
    <3>2. PICK s \in Segments : seg[s].pc # "off"
      BY <3>1 DEF On
    <3>3. CASE mu = NoOne
      BY <3>2, <3>3 DEF MayGo
    <3>4. CASE mu # NoOne
      <4>1. mu \in Segments
        BY <3>4 DEF ScanInv, TypeOK
      <4>2. seg[mu].pc \in {"load", "store", "record", "defers"}
        BY <4>1 DEF ScanInv, MutexInv
      <4>3. QED
        BY <4>1, <4>2 DEF MayGo
    <3>5. QED
      BY <3>3, <3>4
  <2>3. QED
    BY <2>1, <2>2 DEF Running
<1>2. QED
  BY <1>1, ScanInvariance, PTL

\* How far a goroutine, or the caller in its place, is from its end, and the keys
\* that it still has to go through.
Stage(s) ==
    CASE seg[s].pc = "scan"               -> 6
      [] seg[s].pc \in {"got", "failed"}  -> 5
      [] seg[s].pc \in {"load", "record"} -> 4
      [] seg[s].pc = "store"              -> 3
      [] seg[s].pc = "defers"             -> 2
      [] seg[s].pc = "unlocked"           -> 1
      [] OTHER -> IF launched <= s THEN 7 ELSE 0

ToCome(s) == {k \in Keys : k > seg[s].start}
Left(s) == <<Stage(s), Cardinality(ToCome(s))>>

Others(s) == \A t \in Segments \ {s} : Left(t)' = Left(t)
Descends(s) == <<Left(s)', Left(s)>> \in Less(2)

GoesOn ==
    pc \in Running =>
        \/ pc' \notin Running
        \/ pc' = pc /\ \E s \in Segments : Descends(s) /\ Others(s)
        \/ pc' = pc /\ changes' = changes + 1 /\ \A s \in Segments : Left(s)' = Left(s)

AllGoesOn == [][GoesOn]_vars

LEMMA Lower ==
    ASSUME NEW a1 \in Nat, NEW a2 \in Nat, NEW b1 \in Nat, NEW b2 \in Nat,
           b1 < a1 \/ (b1 = a1 /\ b2 < a2)
    PROVE  <<<<b1, b2>>, <<a1, a2>>>> \in Less(2)
<1> DEFINE before == <<a1, a2>>
           after  == <<b1, b2>>
<1>1. before \in [1..2 -> Nat] /\ after \in [1..2 -> Nat]
  OBVIOUS
<1>2. \E j \in 1..2 : /\ \A i \in 1..(j - 1) : after[i] = before[i]
                      /\ after[j] < before[j] /\ after[j] \in Nat /\ before[j] \in Nat
  <2>1. (\A i \in 1..(1 - 1) : FALSE) /\ (\A i \in 1..(2 - 1) : i = 1)
    OBVIOUS
  <2>2. QED
    BY <2>1
<1>3. QED
  BY <1>1, <1>2 DEF Less, LexProductOrdering, OpToRel

LEMMA LeftLower ==
    ASSUME IsFiniteSet(Keys), NEW s \in Segments,
           \/ Stage(s)' < Stage(s)
           \/ Stage(s)' = Stage(s) /\ Cardinality(ToCome(s)') < Cardinality(ToCome(s))
    PROVE  Descends(s)
<1>1. Stage(s) \in Nat /\ Stage(s)' \in Nat
  BY DEF Stage
<1>2. Cardinality(ToCome(s)) \in Nat /\ Cardinality(ToCome(s)') \in Nat
  <2>1. ToCome(s) \subseteq Keys /\ ToCome(s)' \subseteq Keys
    BY DEF ToCome
  <2>2. QED
    BY <2>1, FS_Subset, FS_CardinalityType
<1>3. <<<<Stage(s)', Cardinality(ToCome(s)')>>, <<Stage(s), Cardinality(ToCome(s))>>>> \in Less(2)
  BY <1>1, <1>2, Lower
<1>4. QED
  BY <1>3 DEF Left, Descends

\* A goroutine that goes on leaves what the others have to do alone.
LEMMA OthersKept ==
    ASSUME ScanInv, NEW s \in Segments, launched' = launched,
           \A t \in Segments \ {s} : seg'[t] = seg[t]
    PROVE  Others(s)
<1>1. SUFFICES ASSUME NEW t \in Segments \ {s} PROVE Left(t)' = Left(t)
  BY DEF Others
<1>2. seg'[t] = seg[t]
  OBVIOUS
<1>3. Stage(t)' = Stage(t) /\ ToCome(t)' = ToCome(t)
  BY <1>2 DEF Stage, ToCome
<1>4. QED
  BY <1>3 DEF Left

LEMMA PageDescends ==
    ASSUME IsFiniteSet(Keys), ScanInv, NEW s \in Segments, ScanPage(s)
    PROVE  Descends(s)
<1>1. PICK page \in Response(s) :
          /\ seg' = [seg EXCEPT ![s].items = Collect(@, page.items),
                                ![s].start = page.last,
                                ![s].pc = IF page.last = NoKey THEN "got" ELSE "scan"]
          /\ seg[s].pc = "scan"
  BY DEF ScanPage
<1> DEFINE reachable == {k \in Keys : rows[k] # Absent /\ hash[k] = s}
           matching == {k \in Keys : filterExpression(b.filters, rows[k])}
<1>2. page.last = NoKey \/ (page.last \in Keys /\ page.last > seg[s].start)
  <2>1. reachable \in SUBSET (Nat \ {0}) /\ seg[s].start \in Nat
    BY Numbers, Types DEF ScanInv
  <2>2. page \in Replies(reachable, matching, seg[s].start, b.limit)
    BY <1>1 DEF Response
  <2>3. reachable \subseteq Keys
    OBVIOUS
  <2> HIDE DEF reachable, matching
  <2>4. page.last = NoKey \/ (page.last \in reachable /\ page.last > seg[s].start)
    BY <2>1, <2>2, PageShape
  <2>5. QED
    BY <2>3, <2>4
<1>3. /\ seg'[s].pc = IF page.last = NoKey THEN "got" ELSE "scan"
      /\ seg'[s].start = page.last
  <2>1. seg \in [Segments -> SegType] /\ seg[s] \in SegType
    BY Types DEF ScanInv
  <2>2. QED
    BY <1>1, <2>1 DEF SegType
<1>4. CASE page.last = NoKey
  <2>1. Stage(s)' < Stage(s)
    BY <1>1, <1>3, <1>4 DEF Stage
  <2>2. QED
    BY <2>1, LeftLower
<1>5. CASE page.last # NoKey
  <2>1. Stage(s)' = Stage(s)
    BY <1>1, <1>3, <1>5 DEF Stage
  <2>2. /\ page.last \in Keys /\ page.last > seg[s].start /\ seg[s].start \in Nat
        /\ \A k \in Keys : k \in Nat
    BY <1>2, <1>5, Types, Numbers DEF ScanInv
  <2>3. ToCome(s)' = {k \in Keys : k > page.last}
    BY <1>3 DEF ToCome
  <2>4. page.last \in ToCome(s) /\ page.last \notin ToCome(s)'
    BY <2>2, <2>3 DEF ToCome
  <2>5. ToCome(s)' \subseteq ToCome(s)
    BY <2>2, <2>3 DEF ToCome
  <2>6. Cardinality(ToCome(s)') < Cardinality(ToCome(s))
    <3>1. IsFiniteSet(ToCome(s))
      BY FS_Subset DEF ToCome
    <3>2. /\ Cardinality(ToCome(s)') <= Cardinality(ToCome(s))
          /\ Cardinality(ToCome(s)') = Cardinality(ToCome(s)) => ToCome(s)' = ToCome(s)
          /\ IsFiniteSet(ToCome(s)')
      BY <2>5, <3>1, FS_Subset
    <3>3. Cardinality(ToCome(s)) \in Nat /\ Cardinality(ToCome(s)') \in Nat
      BY <3>1, <3>2, FS_CardinalityType
    <3>4. QED
      BY <2>4, <3>2, <3>3
  <2>7. QED
    BY <2>1, <2>6, LeftLower
<1>6. QED
  BY <1>4, <1>5

LEMMA GoroutineDescends ==
    ASSUME IsFiniteSet(Keys), ScanInv, NEW s \in Segments, Goroutine(s)
    PROVE  pc' = pc /\ Descends(s) /\ Others(s)
<1>1. /\ UNCHANGED <<pc, launched>>
      /\ \A t \in Segments \ {s} : seg'[t] = seg[t]
      /\ seg \in [Segments -> SegType] /\ seg[s] \in SegType
  <2>1. seg \in [Segments -> SegType] /\ seg[s] \in SegType
    BY Types DEF ScanInv
  <2>2. UNCHANGED <<pc, launched>>
    BY DEF Goroutine, ScanPage, ScanFails, Lock, Load, Store, Record, Unlock, Done
  <2>3. \A t \in Segments \ {s} : seg'[t] = seg[t]
    BY <2>1 DEF Goroutine, ScanPage, ScanFails, Lock, Load, Store, Record, Unlock, Done
  <2>4. QED
    BY <2>1, <2>2, <2>3
<1>2. Others(s)
  BY <1>1, OthersKept
<1>3. CASE ScanPage(s)
  BY <1>1, <1>2, <1>3, PageDescends
<1>4. ASSUME Stage(s)' < Stage(s) PROVE Descends(s)
  BY <1>4, LeftLower
<1>5. CASE ScanFails(s)
  <2>1. seg[s].pc = "scan" /\ seg'[s].pc = "failed"
    BY <1>1, <1>5, FreshTypes DEF ScanFails, SegPc
  <2>2. QED
    BY <1>1, <1>2, <1>4, <2>1 DEF Stage
<1>6. CASE Lock(s)
  <2>1. seg[s].pc \in {"got", "failed"} /\ seg'[s].pc \in {"load", "record"}
    BY <1>1, <1>6 DEF Lock, SegType
  <2>2. QED
    BY <1>1, <1>2, <1>4, <2>1 DEF Stage
<1>7. CASE Load(s)
  <2>1. seg[s].pc = "load" /\ seg'[s].pc = "store"
    BY <1>1, <1>7 DEF Load, SegType
  <2>2. QED
    BY <1>1, <1>2, <1>4, <2>1 DEF Stage
<1>8. CASE Store(s) \/ Record(s)
  <2>1. seg[s].pc \in {"store", "record"} /\ seg'[s].pc = "defers"
    BY <1>1, <1>8, FreshTypes DEF Store, Record, SegType, SegPc
  <2>2. QED
    BY <1>1, <1>2, <1>4, <2>1 DEF Stage
<1>9. CASE Unlock(s)
  <2>1. seg[s].pc = "defers" /\ seg'[s].pc = "unlocked"
    BY <1>1, <1>9 DEF Unlock, SegType
  <2>2. QED
    BY <1>1, <1>2, <1>4, <2>1 DEF Stage
<1>10. CASE Done(s)
  <2>1. seg[s].pc = "unlocked" /\ seg'[s].pc = "off"
    BY <1>1, <1>10, FreshTypes DEF Done
  <2>2. s < launched /\ launched \in Nat /\ s \in Nat
    BY <2>1, WhoScans, SegmentTypes DEF ScanInv, TypeOK
  <2>3. QED
    BY <1>1, <1>2, <1>4, <2>1, <2>2 DEF Stage
<1>11. QED
  BY <1>1, <1>2, <1>3, <1>5, <1>6, <1>7, <1>8, <1>9, <1>10 DEF Goroutine

LEMMA LaunchDescends ==
    ASSUME IsFiniteSet(Keys), ScanInv, Launch
    PROVE  pc' = pc /\ \E s \in Segments : Descends(s) /\ Others(s)
<1>1. /\ pc = "launching" /\ pc' = pc /\ launched < b.totalSegments
      /\ seg' = [seg EXCEPT ![launched].pc = "scan"] /\ launched' = launched + 1
  BY DEF Launch
<1>2. launched \in Segments /\ launched \in Nat /\ Segments \subseteq Nat
  <2>1. launched \in Nat /\ b.totalSegments \in Nat /\ b.totalSegments > 1
    BY <1>1, Types DEF ScanInv, TypeOK, CallerInv, IsParallel
  <2>2. b.totalSegments \in Totals
    BY <2>1, Numbers DEF ScanInv, TypeOK
  <2>3. launched \in 0..(b.totalSegments - 1)
    BY <1>1, <2>1
  <2>4. QED
    BY <2>1, <2>2, <2>3, SegmentTypes
<1>3. PICK s \in Segments : s = launched
  BY <1>2
<1>4. /\ seg[s].pc = "off" /\ seg'[s].pc = "scan"
      /\ \A t \in Segments \ {s} : seg'[t] = seg[t]
  <2>1. seg \in [Segments -> SegType] /\ seg[s] \in SegType
    BY Types DEF ScanInv
  <2>2. s \notin On
    BY <1>1, <1>2, <1>3 DEF ScanInv, CallerInv
  <2>3. QED
    BY <1>1, <1>3, <2>1, <2>2 DEF SegType, On
<1>5. Descends(s)
  <2>1. Stage(s) = 7 /\ Stage(s)' = 6
    BY <1>2, <1>3, <1>4 DEF Stage
  <2>2. QED
    BY <2>1, LeftLower
<1>6. Others(s)
  <2>1. SUFFICES ASSUME NEW t \in Segments \ {s} PROVE Left(t)' = Left(t)
    BY DEF Others
  <2>2. seg'[t] = seg[t] /\ (launched' <= t <=> launched <= t)
    <3>1. t \in Nat /\ t # launched
      BY <1>2, <1>3
    <3>2. QED
      BY <1>1, <1>2, <1>4, <3>1
  <2>3. Stage(t)' = Stage(t) /\ ToCome(t)' = ToCome(t)
    BY <2>2 DEF Stage, ToCome
  <2>4. QED
    BY <2>3 DEF Left
<1>7. QED
  BY <1>1, <1>5, <1>6

\* Each step of All, of its goroutines and of the service leaves less to be done to
\* one of them and no more to the others, in an order in which every descent ends;
\* what others do to the table does not put it back (scan.go 136-158, 261-291).
THEOREM AllNeverTurnsBack ==
    ASSUME IsFiniteSet(Keys)
    PROVE  Spec => AllGoesOn
<1>1. ScanInv /\ [Next]_vars => [GoesOn]_vars
  <2> SUFFICES ASSUME ScanInv, Next, pc \in Running PROVE GoesOn
    BY DEF GoesOn
  <2>1. CASE Launch
    BY <2>1, LaunchDescends DEF GoesOn
  <2>2. CASE ParallelReturns \/ SingleReturns
    <3>1. pc' \in {"ok", "err"}
      BY <2>2 DEF ParallelReturns, SingleReturns
    <3>2. QED
      BY <3>1 DEF GoesOn, Running
  <2>3. ASSUME NEW s \in Segments, Goroutine(s) PROVE GoesOn
    BY <2>3, GoroutineDescends DEF GoesOn
  <2>4. ASSUME NEW k \in Keys, NEW row \in Rows \cup {Absent}, Change(k, row) PROVE GoesOn
    <3>1. pc' = pc /\ seg' = seg /\ launched' = launched /\ changes' = changes + 1
      BY <2>4 DEF Change
    <3>2. \A s \in Segments : Stage(s)' = Stage(s) /\ ToCome(s)' = ToCome(s)
      BY <3>1 DEF Stage, ToCome
    <3>3. \A s \in Segments : Left(s)' = Left(s)
      BY <3>2 DEF Left
    <3>4. QED
      BY <3>1, <3>3 DEF GoesOn
  <2>5. QED
    BY <2>1, <2>2, <2>3, <2>4 DEF Next, Caller, Filter, Limit, Parallel, Build, All
<1>2. QED
  BY <1>1, ScanInvariance, PTL DEF Spec, AllGoesOn
=============================================================================
