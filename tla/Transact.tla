------------------------------ MODULE Transact ------------------------------
(***************************************************************************)
(* TransactWriteBuilder and TransactGetBuilder of transact.go, run by      *)
(* several callers on one table.                                           *)
(*                                                                         *)
(* The service (external) applies all entries of a transaction or none,    *)
(* and reads all items of a TransactGet at one moment.  It recognises a    *)
(* request the client sends again, so that none is applied twice.  A       *)
(* transaction can be canceled by a conflict with another one, and it can  *)
(* be applied after its caller gave up.                                    *)
(*                                                                         *)
(* A call that fails leaves its mark on the caller's items: those of a     *)
(* write stay stamped, and a destination that cannot be unmarshaled is     *)
(* partly the old item, partly the row.  Nothing in the code keeps a       *)
(* caller from going on with these; ReuseAfterError says whether it does.  *)
(*                                                                         *)
(* The service refuses two entries on one item, as it refuses a conflict:  *)
(* a caller queues each item once, or more entries than are allowed.       *)
(***************************************************************************)
EXTENDS Table, FiniteSets

CONSTANTS
    Callers,     \* concurrent users of the package
    Kinds,       \* the entries they queue
    MaxItems,    \* transactMaxItems
    MaxClock,    \* bound: number of transactional writes
    ReuseAfterError    \* do callers go on with what a failed call has left?

ASSUME TransactAssumption ==
    /\ IsFiniteSet(Ids)
    /\ Kinds \subseteq {"put", "delete", "check"}
    /\ MaxItems \in Nat
    /\ MaxClock \in Nat
    /\ ReuseAfterError \in BOOLEAN

VARIABLES
    table,     \* the rows, by key
    clock,     \* the last reading of db.clock
    held,      \* the items each caller works with, by key
    call,      \* the call each caller waits for
    net,       \* the write transactions on their way to the table
    status,    \* the result of the last call
    log        \* history: the items each transaction has put and deleted

vars == <<table, clock, held, call, net, status, log>>

\* An entry of a transaction: what it does to its row, on which condition.
\* The copy it was made from is kept to state properties.
Entries ==
    [kind : {"put", "delete", "check"}, row : Row, cond : Conditions, copy : Item]

\* A write is known by its clock reading at; puts are those of its entries that
\* are a put, keys all of them, or what a read asks for.
NoCall ==
    [op |-> "none", at |-> 0, keys |-> {}, puts |-> {}, answer |-> "none"]

\* No transaction is larger than transactMaxItems (transact.go 83-88, 265-270).
TypeOK ==
    /\ table  \in [Ids -> Row]
    /\ clock  \in 0..MaxClock
    /\ held   \in [Callers -> [Ids -> Item]]
    /\ call   \in [Callers -> [op : {"none", "get", "write"}, at : 0..MaxClock,
                              keys : SUBSET Ids, puts : SUBSET Ids,
                              answer : {"none", "ok", "condfail", "conflict"}]]
    /\ \A w \in net :
          /\ w.at \in 1..MaxClock
          /\ DOMAIN w.entries \in SUBSET Ids
          /\ w.size \in 1..MaxItems
          /\ \A k \in DOMAIN w.entries : w.entries[k] \in Entries
    /\ status \in [Callers -> {"ok", "lock", "err", "pending"}]
    /\ log \in [1..MaxClock -> [puts : SUBSET Ids, deletes : SUBSET Ids]]

Init ==
    /\ table  = [k \in Ids |-> Absent]
    /\ clock  = 0
    /\ held   = [c \in Callers |-> [k \in Ids |-> NewItem(k)]]
    /\ call   = [c \in Callers |-> NoCall]
    /\ net    = {}
    /\ status = [c \in Callers |-> "ok"]
    /\ log    = [n \in 1..MaxClock |-> [puts |-> {}, deletes |-> {}]]

Idle(c) == status[c] # "pending"

\* How many entries there are with these items.
Sizes(keys) == {Cardinality(keys), MaxItems + 1}

\* The early return of both Runs: nothing is stamped or sent.
TooMany(c, size) ==
    /\ Idle(c)
    /\ size > MaxItems
    /\ status' = [status EXCEPT ![c] = "err"]
    /\ call'   = [call EXCEPT ![c] = NoCall]
    /\ UNCHANGED <<table, clock, held, net, log>>

\* A mutant of Begin: the number of items is not checked.
BeginUnlimited(c, at, keys, puts, size) ==
    /\ Idle(c)
    /\ keys # {}
    /\ call'   = [call EXCEPT ![c] = [NoCall EXCEPT !.op = "write", !.at = at,
                                                  !.keys = keys, !.puts = puts]]
    /\ status' = [status EXCEPT ![c] = "pending"]

Begin(c, at, keys, puts, size) ==
    /\ Idle(c)
    /\ keys # {}
    /\ size <= MaxItems
    /\ call'   = [call EXCEPT ![c] = [NoCall EXCEPT !.op = "write", !.at = at,
                                                  !.keys = keys, !.puts = puts]]
    /\ status' = [status EXCEPT ![c] = "pending"]

\* Most of what is said below is said of a careful caller.
CarefulUse == ~ReuseAfterError

\* What the caller goes on with of an item that a failed call has stamped or
\* partly filled.  If it is careful it starts again from a new one.
AfterError(item, k) == IF CarefulUse THEN NewItem(k) ELSE item

\* Of a call that ended with an error that says nothing, nothing is kept.
End(c, result) ==
    /\ status' = [status EXCEPT ![c] = result]
    /\ call'   = [call EXCEPT ![c] =
                     IF result = "err" THEN NoCall
                     ELSE [@ EXCEPT !.answer = "none"]]
    /\ UNCHANGED <<table, clock, log>>

Pending(c, op, answer) ==
    status[c] = "pending" /\ call[c].op = op /\ call[c].answer = answer

-----------------------------------------------------------------------------
(* TransactWrite. *)

PutEntry(item, now) ==
    LET edited == Edit(item, now)
    IN  [kind |-> "put", row |-> Marshal(edited, now, NoId),
         cond |-> Condition(edited), copy |-> item]

DeleteEntry(item) ==
    [kind |-> "delete", row |-> Absent, cond |-> NoCondition, copy |-> item]

\* A mutant of CheckEntry: the check has no condition.
CheckEntryWithoutCondition(item) ==
    [kind |-> "check", row |-> Absent, cond |-> NoCondition, copy |-> item]

\* ConditionCheck(item, item.Version)
CheckEntry(item) ==
    [kind |-> "check", row |-> Absent,
     cond |-> [kind |-> "version", version |-> item.version], copy |-> item]

Entry(kind, item, now) ==
    CASE kind = "put"    -> PutEntry(item, now)
      [] kind = "delete" -> DeleteEntry(item)
      [] kind = "check"  -> CheckEntry(item)

\* The items after the first puts of a Run were stamped, all of them if it
\* sends.  Every put reads the clock; one reading stands for all of them.
StampedBy(items, keys, now) ==
    [k \in Ids |-> IF k \in keys THEN Stamp(Edit(items[k], now), now, NoId)
                                 ELSE items[k]]

\* What a caller queues: only an item it has can be checked.
Plans(c) ==
    {plan \in UNION {[S -> Kinds] : S \in SUBSET Ids} :
        \A k \in DOMAIN plan : plan[k] = "check" => ~IsNew(held[c][k])}

Puts(plan) == {k \in DOMAIN plan : plan[k] = "put"}

Request(plan, items, now, size) ==
    [at |-> now, size |-> size, entries |-> [k \in DOMAIN plan |-> Entry(plan[k], items[k], now)]]

\* A mutant of Write: every entry is sent in a call of its own.
WriteChunked(c) ==
    /\ clock < MaxClock
    /\ clock' = clock + 1
    /\ \E plan \in Plans(c) : \E size \in Sizes(DOMAIN plan) :
          /\ Begin(c, clock', DOMAIN plan, Puts(plan), size)
          /\ net' = net \cup {Request([k \in {j} |-> plan[j]], held[c], clock', 1) :
                                 j \in DOMAIN plan}
          /\ held' = [held EXCEPT ![c] = StampedBy(@, Puts(plan), clock')]
    /\ UNCHANGED <<table, log>>

Write(c) ==
    /\ clock < MaxClock
    /\ clock' = clock + 1
    /\ \E plan \in Plans(c) : \E size \in Sizes(DOMAIN plan) :
          /\ Begin(c, clock', DOMAIN plan, Puts(plan), size)
          /\ net' = net \cup {Request(plan, held[c], clock', size)}
          /\ held' = [held EXCEPT ![c] = StampedBy(@, Puts(plan), clock')]
    /\ UNCHANGED <<table, log>>

LeftStamped(items, keys) ==
    [k \in Ids |-> IF k \in keys THEN AfterError(items[k], k) ELSE items[k]]

\* marshalItem fails for one of the puts: keys are those stamped so far.
WriteUnmarshalable(c) ==
    /\ Idle(c)
    /\ clock < MaxClock
    /\ clock' = clock + 1
    /\ \E keys \in SUBSET Ids :
          /\ Cardinality(keys) \in 1..MaxItems
          /\ held' = [held EXCEPT ![c] = LeftStamped(StampedBy(@, keys, clock'), keys)]
    /\ status' = [status EXCEPT ![c] = "err"]
    /\ call'   = [call EXCEPT ![c] = NoCall]
    /\ UNCHANGED <<table, net, log>>

Commits(w) == \A k \in DOMAIN w.entries : Holds(w.entries[k].cond, table[k])

Of(w, kind) == {k \in DOMAIN w.entries : w.entries[k].kind = kind}

Effect(entry, row) == IF entry.kind = "check" THEN row ELSE entry.row

\* The response reaches the caller if it still waits.
Answer(w, code) ==
    call' = [c \in Callers |->
                IF Pending(c, "write", "none") /\ call[c].at = w.at
                THEN [call[c] EXCEPT !.answer = code] ELSE call[c]]

ServeWrite(w) ==
    /\ net' = net \ {w}
    /\ \/ /\ Commits(w)
          /\ table' = [k \in Ids |-> IF k \in DOMAIN w.entries
                                     THEN Effect(w.entries[k], table[k]) ELSE table[k]]
          /\ log' = [log EXCEPT ![w.at] = [puts    |-> @.puts \cup Of(w, "put"),
                                           deletes |-> @.deletes \cup Of(w, "delete")]]
          /\ Answer(w, "ok")
       \/ /\ ~Commits(w)
          /\ Answer(w, "condfail")
          /\ UNCHANGED <<table, log>>
       \/ /\ Answer(w, "conflict")
          /\ UNCHANGED <<table, log>>
    /\ UNCHANGED <<clock, held, status>>

\* translateTransactWriteErr: a failed condition is ErrOptimisticLock, another
\* cancellation is not.  The context may also end before there is a response.
WriteReturns(c) ==
    /\ Pending(c, "write", "ok")
    /\ End(c, "ok")
    /\ UNCHANGED <<held, net>>

\* Whatever the reason, the items stay as the Run has stamped them.
FailWrite(c, result) ==
    /\ End(c, result)
    /\ held' = [held EXCEPT ![c] = LeftStamped(@, call[c].puts)]
    /\ UNCHANGED net

\* A mutant of WriteFails: every cancellation is taken for a failed condition.
WriteFailsAsLock(c) ==
    \E answer \in {"condfail", "conflict", "none"} :
        Pending(c, "write", answer) /\ FailWrite(c, "lock")

WriteFails(c) ==
    \/ Pending(c, "write", "condfail") /\ FailWrite(c, "lock")
    \/ Pending(c, "write", "conflict") /\ FailWrite(c, "err")
    \/ Pending(c, "write", "none") /\ FailWrite(c, "err")

-----------------------------------------------------------------------------
(* TransactGet, as one step: the items are read at one moment, and nothing of *)
(* the call can be seen before or after it but its result.                    *)

Found(keys) == {k \in keys : Exists(table[k])}

\* The items found are unmarshaled into their destinations, the others stay as
\* they are.
Filled(c, keys) ==
    [k \in Ids |-> IF k \in keys THEN table[k].item ELSE held[c][k]]

\* A mutant of GetReturns: one of the items is read in a call of its own.
GetReturnsOneByOne(c, keys) ==
    /\ \/ /\ Idle(c) /\ Cardinality(keys) \in 1..MaxItems
          /\ held' = [held EXCEPT ![c] = Filled(c, Found(keys))]
          /\ status' = [status EXCEPT ![c] = "pending"]
          /\ call' = [call EXCEPT ![c] = [NoCall EXCEPT !.op = "get", !.keys = keys]]
       \/ /\ Pending(c, "get", "none") /\ call[c].keys = keys
          /\ \E k \in Found(keys) : held' = [held EXCEPT ![c] = Filled(c, {k})]
          /\ status' = [status EXCEPT ![c] = "ok"]
          /\ UNCHANGED call
    /\ UNCHANGED <<table, clock, net, log>>

GetReturns(c, keys) ==
    /\ Idle(c)
    /\ Cardinality(keys) \in 1..MaxItems
    /\ held' = [held EXCEPT ![c] = Filled(c, Found(keys))]
    /\ status' = [status EXCEPT ![c] = "ok"]
    /\ call' = [call EXCEPT ![c] = [NoCall EXCEPT !.op = "get", !.keys = keys]]
    /\ UNCHANGED <<table, clock, net, log>>

\* What unmarshalItemInto leaves when it fails part way: each field is the row's
\* or still the old one.  Which comes first is open, but compressed fields come
\* last.  Type and UpdatedAt, which decide nothing, are taken to go with CreatedAt.
Torn(old, new) ==
    {[base EXCEPT !.version = v, !.edits = e] :
        base \in {old, new}, v \in {old.version, new.version}, e \in {old.edits, new.edits}}

\* The call fails and fills nothing in, or one destination k cannot be
\* unmarshaled: keys are those up to k, which are filled.  Others stay as they are.
GetFails(c, keys) ==
    /\ Idle(c)
    /\ Cardinality(keys) \in 1..MaxItems
    /\ \/ UNCHANGED held
       \/ \E k \in Found(keys) :
          \E item \in {AfterError(torn, k) : torn \in Torn(held[c][k], table[k].item)} :
             held' = [held EXCEPT ![c] = [Filled(c, Found(keys)) EXCEPT ![k] = item]]
    /\ status' = [status EXCEPT ![c] = "err"]
    /\ call'   = [call EXCEPT ![c] = NoCall]
    /\ UNCHANGED <<table, clock, net, log>>

-----------------------------------------------------------------------------
Next ==
    \/ \E c \in Callers :
          \/ \E keys \in SUBSET Ids :
                \/ GetReturns(c, keys) \/ GetFails(c, keys)
                \/ \E size \in Sizes(keys) : TooMany(c, size)
          \/ Write(c) \/ WriteUnmarshalable(c) \/ WriteReturns(c) \/ WriteFails(c)
    \/ \E w \in net : ServeWrite(w)

Spec == Init /\ [][Next]_vars

-----------------------------------------------------------------------------
\* Items that were deleted at some time.  One that is created again starts at
\* version 1 again, so that the copies of the old one may pass for copies of it:
\* of these only OnlyCreatesAppear and LockMeansNothing speak.
DeletedIn(l) == UNION {l[n].deletes : n \in DOMAIN l}
Deleted == DeletedIn(log)

\* A transaction that commits finds every item it puts or checks as the copy it
\* was built from, also if it only checked it: two transactions that each read
\* what the other one writes do not both commit (transact.go 204-209: a check
\* guards a write "on some OTHER, unrelated item's version not having changed").
CommitsOnCurrentCopies ==
    [][\A w \in net \ net' : table' # table =>
          \A k \in DOMAIN w.entries \ Deleted :
              w.entries[k].kind # "delete"
                  => IF IsNew(w.entries[k].copy) THEN ~Exists(table[k])
                     ELSE table[k].item = w.entries[k].copy]_vars

InRow(c, k) == call[c].at \in table[k].item.edits

\* The puts of a transaction are in the rows all together or not at all
\* (transact.go 239-243).
AllOrNothing ==
    \A c \in Callers : call[c].op = "write" =>
        \A j, k \in call[c].puts \ Deleted : InRow(c, j) <=> InRow(c, k)

\* nil tells that every put is stored, and stays stored while nothing is
\* deleted (transact.go 245-254).
OkMeansAll ==
    \A c \in Callers : status[c] = "ok" /\ call[c].op = "write" =>
        \A k \in call[c].puts \ Deleted : InRow(c, k)

\* ErrOptimisticLock tells that nothing is stored (transact.go 245-254).
LockMeansNothing ==
    \A c \in Callers : status[c] = "lock" => \A k \in Ids : ~InRow(c, k)

\* A TransactGet that returns nil has all of what a transaction wrote to the
\* items it asked for, or nothing of it (transact.go 65-69: "a single consistent
\* snapshot").
SnapshotRead ==
    \A c \in Callers : status[c] = "ok" /\ call[c].op = "get" =>
        \A n \in DOMAIN log : \A j, k \in (log[n].puts \cap call[c].keys) \ Deleted :
            n \in held[c][j].edits <=> n \in held[c][k].edits

\* A deleted item only comes back by a transaction that creates it.
OnlyCreatesAppear ==
    [][\A k \in Ids : ~Exists(table[k]) /\ Exists(table'[k])
          => /\ table'[k].item.version = 1
             /\ table'[k].item.edits = {table'[k].item.created}]_vars

-----------------------------------------------------------------------------
(* Why they hold. *)

\* A copy of item k is a new item, or was the row at some time: all it shows is
\* committed, and while k was never deleted it is the row or an older version.
GoodFor(copy, k, row, l) ==
    /\ copy \in Item
    /\ IsNew(copy) => copy = NewItem(k)
    /\ \A n \in copy.edits : n \in DOMAIN l /\ k \in l[n].puts
    /\ k \notin DeletedIn(l) /\ ~IsNew(copy) =>
          /\ Exists(row)
          /\ copy.version <= row.item.version
          /\ copy.version = row.item.version => copy = row.item
Good(copy, k) == GoodFor(copy, k, table[k], log)

\* A row shows what was put into it, if it was never deleted all of it.
RowInv(k) ==
    /\ Exists(table[k]) => ~IsNew(table[k].item)
    /\ \A n \in table[k].item.edits : n \in DOMAIN log /\ k \in log[n].puts
    /\ k \notin Deleted => \A n \in DOMAIN log : k \in log[n].puts => n \in table[k].item.edits

\* The items a caller has stamped for a call of which it knows no success.
Open(c) == IF status[c] = "pending" /\ call[c].answer # "ok" THEN call[c].puts ELSE {}

HeldInv(c) == \A k \in Ids \ Open(c) : Good(held[c][k], k)

\* What a caller knows of its write, and what it may still find out.
CallInv(c) ==
    /\ status[c] = "lock" => call[c].op = "write"
    /\ call[c].op = "write" =>
          /\ call[c].at \in 1..clock
          /\ log[call[c].at].puts \in {{}, call[c].puts}
          /\ status[c] = "ok" \/ call[c].answer = "ok" => log[call[c].at].puts = call[c].puts
          /\ status[c] = "lock" \/ call[c].answer = "condfail" =>
                log[call[c].at].puts = {} /\ \A w \in net : w.at # call[c].at

NoLog == [puts |-> {}, deletes |-> {}]

\* A transaction on its way has done nothing yet, is the only one of its clock
\* reading, and puts what its caller has stamped.
WriteInv(w) ==
    /\ w.at <= clock /\ log[w.at] = NoLog
    /\ \A v \in net : v.at = w.at => v = w
    /\ \A k \in DOMAIN w.entries :
          LET e == w.entries[k]
          IN  /\ e = Entry(e.kind, e.copy, w.at) /\ Good(e.copy, k)
              /\ e.kind = "check" => ~IsNew(e.copy)
    /\ \A c \in Callers : call[c].op = "write" /\ call[c].at = w.at =>
          /\ call[c].puts = Of(w, "put")
          /\ status[c] = "pending" /\ call[c].answer = "none" =>
                \A k \in call[c].puts : held[c][k] = w.entries[k].row.item

\* The inductive invariant of TransactWrite and TransactGet.
TransactInv ==
    /\ TypeOK /\ SnapshotRead
    /\ \A n \in DOMAIN log : n > clock => log[n] = NoLog
    /\ \A k \in Ids : RowInv(k)
    /\ \A c \in Callers : HeldInv(c) /\ CallInv(c)
    /\ \A w \in net : WriteInv(w)
=============================================================================
