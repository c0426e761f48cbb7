---------------------------- MODULE ParallelScan ----------------------------
(***************************************************************************)
(* ScanBuilder of scan.go: All scans the table, either itself or with one  *)
(* goroutine per segment.  The goroutines append to one slice and record   *)
(* the first error under a mutex; All waits for them with a WaitGroup.     *)
(* Other programs change rows meanwhile.                                   *)
(*                                                                         *)
(* Keys are numbers in the order in which the service walks them; the      *)
(* service (external) assigns each key to a segment.  An append is a load  *)
(* and a store, so that a race would show.                                 *)
(***************************************************************************)
EXTENDS Paging, Filters

CONSTANTS
    Keys,          \* the keys of the table
    Rows,          \* what can be at a key: records of exists and sat
    Limits,        \* the page sizes callers set
    Totals,        \* what callers pass to Parallel
    MaxInt32,      \* math.MaxInt32
    MaxChanges     \* bound: how often others change a row

Absent == [exists |-> FALSE, sat |-> {}]
Segments == UNION {0..(total - 1) : total \in Totals \cup {1}}
NoOne == -1

ASSUME ScanAssumption ==
    /\ Keys \subseteq Nat \ {0}
    /\ \A r \in Rows : r.sat \subseteq Conds
    /\ Limits \subseteq Nat \ {0}
    /\ Totals \subseteq Nat
    /\ MaxInt32 \in Nat /\ MaxChanges \in Nat

VARIABLES
    rows,      \* the row at each key
    hash,      \* the segment of each key, for the number of segments in use
    b,         \* the builder
    pc,        \* the caller: "building", "launching", "scanning", "ok" or "err"
    launched,  \* how many goroutines the loop has started
    seg,       \* per segment: pc, ExclusiveStartKey, items and the slice it loaded
    wg,        \* the counter of the WaitGroup
    mu,        \* who holds the mutex
    items,     \* the merged items, and the result
    firstErr,  \* whether an error is recorded
    always,    \* history: the keys that matched ever since the call began
    ever,      \* history: the keys that matched at some time since
    changes    \* how often others changed a row

vars == <<rows, hash, b, pc, launched, seg, wg, mu, items, firstErr, always, ever, changes>>
table == <<rows, always, ever, changes>>
shared == <<wg, mu, items, firstErr>>

Bag == [Keys -> Nat]
Nothing == [k \in Keys |-> 0]
Running == {"launching", "scanning"}

\* Where a goroutine is: "off" before its start and after its end; "scan" in
\* scanSegment; "got" and "failed" after it; "load", "store" and "record" with
\* the mutex; "defers" when its deferred calls are due, "unlocked" between them.
\* What is dead is Fresh.
SegPc == {"off", "scan", "got", "failed", "load", "store", "record", "defers",
          "unlocked"}
Fresh == [pc |-> "off", start |-> NoKey, items |-> Nothing, loaded |-> Nothing]

TypeOK ==
    /\ rows     \in [Keys -> Rows \cup {Absent}]
    /\ hash     \in [Keys -> Segments]
    /\ b        \in [filters : SUBSET Conds, limit : Limits \cup {NoLimit}, totalSegments : Totals \cup {0}]
    /\ pc       \in Running \cup {"building", "ok", "err"}
    /\ launched \in Nat
    /\ seg      \in [Segments -> [pc : SegPc, start : Keys \cup {NoKey}, items : Bag, loaded : Bag]]
    /\ wg       \in Nat
    /\ mu       \in Segments \cup {NoOne}
    /\ items    \in Bag
    /\ firstErr \in BOOLEAN
    /\ always \subseteq Keys /\ ever \subseteq Keys
    /\ changes  \in 0..MaxChanges

Init ==
    /\ rows \in [Keys -> Rows \cup {Absent}]
    /\ hash = [k \in Keys |-> 0]
    /\ b = [filters |-> {}, limit |-> NoLimit, totalSegments |-> 0]
    /\ pc = "building"
    /\ launched = 0
    /\ seg = [s \in Segments |-> Fresh]
    /\ wg = 0 /\ mu = NoOne
    /\ items = Nothing
    /\ firstErr = FALSE
    /\ always = {} /\ ever = {}
    /\ changes = 0

Matching(t) == {k \in Keys : t[k] # Absent /\ \A f \in b.filters : f \in t[k].sat}

-----------------------------------------------------------------------------
(* The builder's methods. *)

Build(new) ==
    /\ pc \notin Running
    /\ b' = new
    /\ UNCHANGED <<hash, pc, launched, seg, shared, table>>

Filter(f)       == Build([b EXCEPT !.filters = @ \cup {f}])
Limit(n)        == Build([b EXCEPT !.limit = n])
Parallel(total) == Build([b EXCEPT !.totalSegments = total])

-----------------------------------------------------------------------------
(* All, and the goroutines it starts. *)

IsParallel == b.totalSegments > 1

\* All calls scanSegment itself, or starts the loop of allParallel.
All ==
    /\ pc \notin Running
    /\ hash' \in [Keys -> 0..(IF IsParallel THEN b.totalSegments - 1 ELSE 0)]
    /\ pc' = IF IsParallel THEN "launching" ELSE "scanning"
    /\ seg' = IF IsParallel THEN seg ELSE [seg EXCEPT ![0].pc = "scan"]
    /\ items' = Nothing
    /\ always' = Matching(rows) /\ ever' = Matching(rows)
    /\ UNCHANGED <<rows, b, launched, wg, mu, firstErr, changes>>

\* One turn of the loop: wg.Add(1) and the go statement.
Launch ==
    /\ pc = "launching"
    /\ launched < b.totalSegments
    /\ wg' = wg + 1
    /\ seg' = [seg EXCEPT ![launched].pc = "scan"]
    /\ launched' = launched + 1
    /\ UNCHANGED <<hash, b, pc, mu, items, firstErr, table>>

\* The pages the service may answer with (external).
Response(s) ==
    Replies({k \in Keys : rows[k] # Absent /\ hash[k] = s},
            {k \in Keys : filterExpression(b.filters, rows[k])}, seg[s].start, b.limit)

buildInputFails == ~Builds(b.filters) \/ (IsParallel /\ b.totalSegments > MaxInt32)

\* A turn of scanSegment's loop.
ScanPage(s) ==
    /\ seg[s].pc = "scan"
    /\ ~buildInputFails
    /\ \E page \in Response(s) :
          seg' = [seg EXCEPT ![s].items = Collect(@, page.items),
                             ![s].start = page.last,
                             ![s].pc = IF page.last = NoKey THEN "got" ELSE "scan"]
    /\ UNCHANGED <<hash, b, pc, launched, shared, table>>

\* A mutant of ScanFails: wg.Done is called when an error occurs, and deferred.
ScanFailsDoneTwice(s) ==
    /\ seg[s].pc = "scan"
    /\ wg' = wg - 1
    /\ seg' = [seg EXCEPT ![s] = [Fresh EXCEPT !.pc = "failed"]]
    /\ UNCHANGED <<hash, b, pc, launched, mu, items, firstErr, table>>

\* buildInput, the call or the unmarshaling of an item fails.
ScanFails(s) ==
    /\ seg[s].pc = "scan"
    /\ seg' = [seg EXCEPT ![s] = [Fresh EXCEPT !.pc = "failed"]]
    /\ UNCHANGED <<hash, b, pc, launched, shared, table>>

\* A mutant of Lock: there is no mutex.
LockNever(s) ==
    /\ IsParallel
    /\ seg[s].pc \in {"got", "failed"}
    /\ seg' = [seg EXCEPT ![s].pc = IF @ = "got" THEN "load" ELSE "record"]
    /\ UNCHANGED <<hash, b, pc, launched, shared, table>>

Lock(s) ==
    /\ IsParallel
    /\ seg[s].pc \in {"got", "failed"}
    /\ mu = NoOne
    /\ mu' = s
    /\ seg' = [seg EXCEPT ![s].pc = IF @ = "got" THEN "load" ELSE "record"]
    /\ UNCHANGED <<hash, b, pc, launched, wg, items, firstErr, table>>

Load(s) ==
    /\ seg[s].pc = "load"
    /\ seg' = [seg EXCEPT ![s].pc = "store", ![s].loaded = items]
    /\ UNCHANGED <<hash, b, pc, launched, shared, table>>

Store(s) ==
    /\ seg[s].pc = "store"
    /\ items' = [k \in Keys |-> seg[s].loaded[k] + seg[s].items[k]]
    /\ seg' = [seg EXCEPT ![s] = [Fresh EXCEPT !.pc = "defers"]]
    /\ UNCHANGED <<hash, b, pc, launched, wg, mu, firstErr, table>>

\* A mutant of Record: the error path returns without the unlock.
RecordKeepsLock(s) ==
    /\ seg[s].pc = "record"
    /\ firstErr' = TRUE
    /\ seg' = [seg EXCEPT ![s].pc = "unlocked"]
    /\ UNCHANGED <<hash, b, pc, launched, wg, mu, items, table>>

Record(s) ==
    /\ seg[s].pc = "record"
    /\ firstErr' = TRUE
    /\ seg' = [seg EXCEPT ![s].pc = "defers"]
    /\ UNCHANGED <<hash, b, pc, launched, wg, mu, items, table>>

\* The deferred calls, last one first.
Unlock(s) ==
    /\ seg[s].pc = "defers"
    /\ mu' = NoOne
    /\ seg' = [seg EXCEPT ![s].pc = "unlocked"]
    /\ UNCHANGED <<hash, b, pc, launched, wg, items, firstErr, table>>

Done(s) ==
    /\ seg[s].pc = "unlocked"
    /\ wg' = wg - 1
    /\ seg' = [seg EXCEPT ![s] = Fresh]
    /\ UNCHANGED <<hash, b, pc, launched, mu, items, firstErr, table>>

\* A mutant of Waited: an error ends the wait.
WaitedOrFailed == firstErr \/ wg = 0

\* wg.Wait() returns.
Waited == wg = 0

\* The end of allParallel.
ParallelReturns ==
    /\ pc = "launching"
    /\ launched = b.totalSegments
    /\ Waited
    /\ pc' = IF firstErr THEN "err" ELSE "ok"
    /\ items' = IF firstErr THEN Nothing ELSE items
    /\ launched' = 0 /\ firstErr' = FALSE /\ hash' = [k \in Keys |-> 0]
    /\ UNCHANGED <<b, seg, wg, mu, table>>

\* The end of scanSegment when All called it.
SingleReturns ==
    /\ pc = "scanning"
    /\ seg[0].pc \in {"got", "failed"}
    /\ pc' = IF seg[0].pc = "got" THEN "ok" ELSE "err"
    /\ items' = seg[0].items
    /\ seg' = [seg EXCEPT ![0] = Fresh]
    /\ UNCHANGED <<hash, b, launched, wg, mu, firstErr, table>>

-----------------------------------------------------------------------------
\* Another program puts, changes or deletes a row.
Change(k, row) ==
    /\ changes < MaxChanges
    /\ row # rows[k]
    /\ rows' = [rows EXCEPT ![k] = row]
    /\ always' = always \cap Matching(rows')
    /\ ever' = ever \cup Matching(rows')
    /\ changes' = changes + 1
    /\ UNCHANGED <<hash, b, pc, launched, seg, shared>>

Goroutine(s) ==
    \/ ScanPage(s) \/ ScanFails(s)
    \/ Lock(s) \/ Load(s) \/ Store(s) \/ Record(s) \/ Unlock(s) \/ Done(s)

Caller == Launch \/ ParallelReturns \/ SingleReturns

Next ==
    \/ \E f \in Conds : Filter(f)
    \/ \E n \in Limits : Limit(n)
    \/ \E total \in Totals : Parallel(total)
    \/ All
    \/ Caller
    \/ \E s \in Segments : Goroutine(s)
    \/ \E k \in Keys, row \in Rows \cup {Absent} : Change(k, row)

\* Goroutines are scheduled, and the calls they wait for return.
Spec ==
    /\ Init /\ [][Next]_vars
    /\ WF_vars(Caller)
    /\ \A s \in Segments : WF_vars(Goroutine(s))

-----------------------------------------------------------------------------
\* What the caller sees.
Once == [k \in Keys |-> 1]
Returned == IF pc \in Running THEN Nothing ELSE items
Status == CASE pc = "building" -> "idle" [] pc \in Running -> "running" [] OTHER -> pc

ReadAll == INSTANCE ReadAll WITH
    rows <- Matching(rows), asked <- Once, items <- Returned, status <- Status

\* All returns every row that matched all the time exactly once, whatever the
\* number of segments and however their goroutines interleave, or an error if
\* one of them had one (scan.go 194-214).
ImplementsReadAll == ReadAll!Spec

\* When All returns, also with an error, every goroutine has ended (scan.go
\* 209-212: "no goroutine is leaked").
NoLeak == pc \notin Running => \A s \in Segments : seg[s].pc = "off"

\* All returns: no goroutine waits for the mutex for ever (scan.go 271-288).
AllEnds == pc \in Running ~> pc \in {"ok", "err"}

-----------------------------------------------------------------------------
(* Why they hold. *)

\* The goroutines, or the caller, that are in scanSegment or after it.
On == {s \in Segments : seg[s].pc # "off"}

\* The WaitGroup counts the goroutines that have been started and not ended.
CallerInv ==
    /\ pc \notin Running => On = {} /\ wg = 0 /\ mu = NoOne /\ launched = 0 /\ ~firstErr
    /\ pc = "scanning" =>
          /\ ~IsParallel /\ On = {0} /\ seg[0].pc \in {"scan", "got", "failed"}
          /\ wg = 0 /\ mu = NoOne /\ launched = 0 /\ ~firstErr
          /\ \A k \in Keys : hash[k] = 0
    /\ pc = "launching" =>
          /\ IsParallel /\ launched <= b.totalSegments
          /\ On \subseteq 0..(launched - 1) /\ wg = Cardinality(On)
          /\ \A k \in Keys : hash[k] \in 0..(b.totalSegments - 1)

\* At most one goroutine merges, and the slice it loaded is the current one.
MutexInv ==
    \A s \in Segments :
        /\ mu = s <=> seg[s].pc \in {"load", "store", "record", "defers"}
        /\ seg[s].pc = "store" => seg[s].loaded = items

HistoryInv ==
    pc \in Running => always \subseteq Matching(rows) /\ Matching(rows) \subseteq ever

\* A segment has read its keys up to where it is, or all of them.
SegInv(s) ==
    /\ seg[s].pc = "off" => seg[s] = Fresh
    /\ IF seg[s].pc \in {"scan", "got", "load", "store"}
       THEN \A k \in Keys :
              LET read == seg[s].pc # "scan" \/ k <= seg[s].start
              IN  /\ seg[s].items[k] <= 1
                  /\ hash[k] # s \/ k \notin ever \/ ~read => seg[s].items[k] = 0
                  /\ hash[k] = s /\ k \in always /\ read => seg[s].items[k] = 1
       ELSE seg[s].items = Nothing

\* The merged slice holds the items of the segments that have merged them, and
\* a segment that has not is known by the error.
Merged(s) == s < launched /\ seg[s].pc \in {"off", "defers", "unlocked"}

MergeInv ==
    pc = "launching" =>
        \A k \in Keys :
            /\ items[k] <= 1
            /\ ~Merged(hash[k]) \/ k \notin ever => items[k] = 0
            /\ Merged(hash[k]) /\ k \in always /\ ~firstErr => items[k] = 1

\* The inductive invariant of ScanBuilder.All.
ScanInv ==
    /\ TypeOK /\ CallerInv /\ MutexInv /\ HistoryInv /\ MergeInv
    /\ \A s \in Segments : SegInv(s)
=============================================================================
