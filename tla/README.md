# Specification of godynamo

godynamo is a Go library for single-table design on AWS DynamoDB: an embeddable
`Model` with audit fields and an optimistic-lock `Version`, and generic
operations (CRUD, query, scan, batch, transaction, PartiQL) on top of the AWS
SDK. It keeps no state of its own except a per-process cache of parsed struct
tags; what can go wrong lies between the caller's item in memory, the row in the
table, and the calls that travel between them. This directory models that in
TLA+, checks it with TLC and proves the safety properties with TLAPS. Line numbers refer to
`src/`.

## Inventory

| Component | Source | State | Operations | What is hard | What makes it correct |
|---|---|---|---|---|---|
| Model and stamping | `model.go`, `crud.go` 119-164 | the item behind the caller's pointer | `SetType`, `stampAndMarshal` | the item is changed before the write, so a failed write leaves it stamped | create and update are told apart; the condition carries the version before the call |
| CRUD | `crud.go` | the rows; copies held by callers | `Put`, `Get`, `Delete`, `Update...Run` | concurrent callers, stale reads, resent and late requests, deletes | no lost change, versions count changes, an acknowledged write stays, lock errors are true |
| BatchWrite | `batch.go` 163-318 | queue, chunk position, retry counter | `Put`, `Delete`, `Run` | partial processing, retries, several chunks, running again | nil means every operation is applied, in queue order per item; `Run` ends |
| BatchGet | `batch.go` 37-154 | ids, chunk position, retry counter, results | `IDs`, `Run` | as above; missing item versus unprocessed key | every existing id exactly once, or an error |
| Transactions | `transact.go` | queued entries; destinations | `Get`, `Put`, `Delete`, `ConditionCheck`, `Run` | atomicity across items, stamping of all items before one call that may fail, error codes | all or nothing; a condition check guards against write skew; reads are a snapshot |
| Query, Statement | `query.go`, `statement.go` | page loop, cursor | `All`, `Page` | empty pages that are not the last, rows that change between pages | every matching item once, the loop ends |
| Scan | `scan.go` | segments, merged slice, first error | `All`, `Parallel` | goroutines, mutex, first error wins | the segments' union, or an error |
| Key templates | `keys.go`, `crud.go` 33-66 | none | `PK`, `SK`, `zeroKeys`, `requiresDefaultKey` | keys from the zero value, separator inside a field | where the check passes, the zero-value key is the real one |
| Tag cache | `tags.go` | `sync.Map` per process | `parseTags` | concurrent first use | one entry per type, seen by all |
| Compressed fields | `compress.go` | none | `marshalItem`, `unmarshalItemInto` | rows written before a field was tagged | a round trip gives the item back |
| Client, options, errors | `client.go`, `options.go`, `errors.go` | configuration | `New`, options | none | none |

Components interact through calls and through the table. `Put`,
`BatchWriteBuilder.Put` and `TransactWriteBuilder.Put` share `stampAndMarshal`;
every read shares `unmarshalItemInto`; a copy that one operation returns is what
another one puts back. There are no callbacks except the clock and actor hooks.
Nothing is persisted outside the table, so a crash of the process is the loss of
the caller's copies and of the call under way, which the models cover by calls
that end with an error at any time.

## Modules

- `Item` - the Go value and its stamping: `Model`, `SetType`, `stampAndMarshal`
  (`Stamp` is what it does to the caller's item, `Marshal` the attribute map,
  `Condition` the condition). The fields of the application's type are abstracted
  to the set `edits` of the changes the item shows; each writing call has its own
  clock reading, which names its change. `CreatedBy` and `UpdatedBy` travel with
  the times and are left out. `gsi1pk` is kept apart from the item because no
  field of `T` holds it.
- `Table` - what one DynamoDB request does to one row (external).
- `Crud` - `Put`, `Get`, `Delete` and `UpdateBuilder.Run` by several callers. A
  call is cut where the code waits for the network: the action that computes and
  sends the request (`PutNew`, `PutHeld`, `Get`, `Delete`, `Update`,
  `UpdateIfVersion`), the table serving it (`ServeWrite`, `ServeRead`), and the
  action that turns the response into the result (`PutReturns`, `GetReturns`,
  `RunReturns`, `DeleteReturns`, `GiveUp`). `held[c]` is the pointer a caller
  works with: it is stamped when the request is sent, not when it succeeds, as in
  the code. The SDK client may send a request again (`Resend`) and only takes the
  response to its last attempt; a request may be served after its call ended.
  `GetItem` asks for no consistent read and may see `replica`, which lags.
  `Ops` selects the operations the callers use ("new" and "newId" are a `Put` of a
  new item without an ID, which gets a fresh one, and with one the caller chose),
  `ReuseAfterError` whether they put an item again after its `Put` failed.
  `PutUnmarshalable` and `UpdateUnbuildable` are the returns before anything is sent.
- `VersionedItem` - the abstract specification: per item a version and a set of
  changes; a write adds one new change to all earlier ones and counts it.
- `CrudProps` - the properties of `Crud`, the refinement of `VersionedItem`, and
  the inductive invariant. `CrudProofs` - the theorems.
- `BatchWrite` - `BatchWriteBuilder`: queueing, `Run`'s stamping one item at a
  time, the chunk loop and `runChunk`'s retry loop. A call of the service may
  process its requests one by one in any order, leave any of them unprocessed, or
  fail with any part of them processed. `Run` may be called again, also after more
  was queued.
- `Transact` - `TransactWriteBuilder` and `TransactGetBuilder` run by several
  callers on one table. A plan of puts, deletes and checks is what a caller
  queues; `Write` stands for the queueing and for `Run` up to the call (the limit,
  then stamping and marshaling of all puts), `ServeWrite` for the service, which
  commits, finds a failed condition, or cancels for a conflict, `WriteReturns` and
  `WriteFails` for `translateTransactWriteErr`. A transaction can be served after
  its caller gave up, but not twice: the SDK sends a `ClientRequestToken` with it.
  One clock reading stands for the readings of all puts of a `Run`, which only
  names their changes. Each caller queues an item once, as the service refuses a
  transaction with two entries on one item. A caller checks the version it holds.
  `TransactGet` is one step, since its items are read at one moment and only its
  result can be seen: `GetReturns`, or `GetFails` with the destinations filled up to
  one that is `Torn`, each of its fields the row's or the old one. A write that fails
  leaves its items stamped (`FailWrite`, `WriteUnmarshalable`). `ReuseAfterError` says
  whether callers go on with the items a failed call has stamped or torn;
  `CarefulUse` is that they start again from new ones. `log` is a history of what
  transactions did, `Sizes` lets a call be larger than the limit.
- `ReadAll` - the abstract specification of a read of many items while others
  write: a call that returns without an error has every wanted row that was there
  all the time as often as it was asked for, and no row that never was; a call
  that fails returns nothing. `Reads`, `ParallelScan` and `BatchGet` implement it.
- `Paging` - how the service answers one Query, Scan or ExecuteStatement call
  (external): it evaluates rows from the start key on, stops at the limit, at
  1 MB or at the end, and filters what it has evaluated. A page may be empty and
  not the last one, and the last one may be empty. `Filters` - the conditions
  the Filter methods queue; each is known by the rows that satisfy it.
- `Reader` - a caller of a builder that reads page by page, the table other
  programs change, and a replica that lags. `b` is the builder. `AllCalls`,
  `AllTurn` and `AllFails` are the loop of `All`, cut where it waits for the
  service; `PageTurn`, `PageFails` and `Abandon` a caller that calls `Page` with
  the cursor of the page before, again after a failure, until the cursor is empty.
  Positions stand for sort keys, and rows appear and vanish at them.
- `Query` - what `QueryBuilder` adds: its methods (the ten Filter methods are
  `Filter` over the set of conditions, the three SK methods `SKCond` over the keys
  they select), the request, and the cursor, which goes through `encodeCursor` and
  `decodeCursor`. These turn a number into a float64 and a `[]byte` into a string;
  with a binary sort key every page after the first fails.
- `Statement` - what `StatementBuilder` adds: parameters that do not marshal,
  NextToken, whose end is nil or an empty string, and `ConsistentRead`, after
  which a read sees `rows`, otherwise `replica`.
- `Reads` - the two over one table. What a call must return is measured against
  the kind of read it asked for.
- `ParallelScan` - `ScanBuilder`. `Launch` is a turn of the loop of `allParallel`;
  `seg[s]` is the goroutine of segment `s`, which scans (`ScanPage`, `ScanFails`),
  takes the mutex, appends (`Load` and `Store`, so that a race would show) or
  records its error, and runs its deferred calls in their order (`Unlock`,
  `Done`). `ParallelReturns` is what follows `wg.Wait()`. Without `Parallel` the
  caller runs segment 0 itself (`SingleReturns`).
- `BatchGet` - `BatchGetBuilder`: the chunk loop of `Run` and the retry loop of
  `runChunk`. The service reads the keys of a call one by one in any order and
  hands back any rest.
- `TagCache` - `parseTags` on several goroutines: `Load` of the cache, the loop
  over the clauses, the loop over the fields and the assignment of its list
  (`Field`, `FieldsDone`), `LoadOrStore`. `heap` holds the entries under
  construction, so that one that is visible too early would show.
- `KeyedItems` - `PK`, `SK`, `zeroKeys` and `requiresDefaultKey`, and the
  operations that use them, each as one step. A key is the sequence of the parts
  that "#" joins; a value that contains "#" is several parts. `held` is stamped
  whether the write succeeds or not, and its fields change between calls.
  `TransactGet` of a missing row returns nil and leaves the caller with the
  destination as it passed it, which it can put. `OwnIds` says whether callers create
  an ID once, unless the type's key is made of the ID alone.
- `Compress` - `marshalItem` and `unmarshalItemInto` in several programs that have
  tagged different fields and share a row. An attribute has its DynamoDB type,
  its form (native or gzip) and its value.
- `Descent` - the lexicographic order in which the proofs measure what a call has
  left to do.
- Modules whose names start with `MC` are TLC instances; `BatchGet` is run as it
  is. Modules whose names end with `Proofs` hold the theorems about the module
  they extend, and `TagProofs` those about `TagCache` and `Compress`; the modules
  proved about end with sections "Why they hold", which have the parts of the
  inductive invariant.

A definition that has a comment "A mutant of X" is no part of the model: it is X
with a plausible mistake, and takes the place of X to see that a property
notices.

## Runs

All runs but `keyed_items` use DynamoDB keys that are the item's ID (the default
key) or leave open how a key is made.

| Run | Question | Bounds |
|---|---|---|
| `crud_versioned` | Is an item an atomic register for callers that `Put` what they read, with requests resent, late and served twice; are callers told the truth; is `CrudInv` an invariant? | 2 callers, 1 item, 3 writing calls, 2 attempts each |
| `crud_mixed` | What survives deletes, unconditional updates and items that are put again after a failed `Put`? Is `ErrOptimisticLock` true of every kind of write? | 2 callers, 1 item, 3 writing calls, every operation |
| `index_lost`, `double_create` | Violations, see Findings | 1 or 2 callers, 2 or 3 writing calls |
| `batch_write` | Is a nil result of `Run` true, is queue order kept, does `Run` end? | 2 items, 2 pointers, 3 operations (before the first `Run` or between the two) in chunks of 2, 2 retries, 2 runs |
| `transact` | Does a transaction commit on current copies only, whole or not at all, is a `TransactGet` a snapshot, what survives deletes, is a call that is too large refused? | 2 callers, 2 items, 3 transactions of at most 2 puts, deletes and checks |
| `reads` | Do `All` and a walk with `Page` of both builders return what they should while rows change, does each call ask for what the builder says, and does `All` end? | 3 positions, a partition, 2 indexes with different key types, 2 conditions of which one does not build, limit 1, 2 settings at a time, 2 changes |
| `scan` | Are the goroutines of a scan correct, do they end, does `All` wait for them? | 2 keys; no, 2 or 3 segments, of which 3 exceed `MaxInt32`; 2 conditions of which one does not build, limit 1, 1 change |
| `batch_get` | Does `Run` return every item, and end? | 3 keys, 3 ids in chunks of 2, 2 retries, 2 changes |
| `tag_cache` | Do goroutines agree on a complete entry? | 3 goroutines, 3 types, 4 clauses |
| `keyed_items` | Is a row found under its key, never under another item's, and replaced only by its successor? | 2 callers, 2 IDs, 3 types, 2 key fields, versions up to 2 |
| `compress` | Do programs with different tags read what the others wrote? | 3 programs, 4 fields (renamed, skipped by the SDK, and a `[]byte`), 2 values of which JSON has no form for one |

Why the bounds are enough to be of interest. A lost update needs a create and
two writes from the same version: three writing calls and two callers. So does a
late write from an old copy: a create, a delete and the write. One resend is enough
for a request to be applied before, during and after the call that sent it. Two
chunks, one short, are enough for an item to be in both; with two retries a chunk
can end with nothing, part or all of it left. The number 25, the limit of 5
retries and the 100 keys are constants of the modules. Write skew needs three
transactions: one that creates both items, and two that each check what the other
one puts. Three positions are enough for a page that a filter empties between two
that have items, with a row that vanishes and one that appears behind or ahead of
the cursor; a change, its arrival at the replica and a second change fit between
two pages. Two settings at a time combine each method of a builder with each other
one. Two goroutines are enough for a race on the slice, for a wait for the mutex,
and for an error before or after another segment merges. Three goroutines of
`tag_cache` let one find an entry, one be late and one still parse. Version 2 is
reached by a second writer and by a failed write. `MaxInt32` is 2 in the run, so
that the number of segments can exceed it. The updates with `IfVersion` and without
a condition are beside deletes in `crud_mixed`, with answers that do not unmarshal.
That those with `IfVersion` keep `NoLostEdits` and the other properties of versioned use
is proved; with `"updateIf"` added to its `Ops` `crud_versioned` is free of errors, too,
but its 2,714,513 states take too long for a run. The three types of `keyed_items` have
no clause, an `sk` clause that names the ID and two fields (so that one field's value
can look like two), and a `pk` and an `sk` clause.

Every module with a specification has a `TypeOK`. The runs check it as the first
conjunct of the inductive invariant that the proofs use (`CrudInv`, `BatchInv`,
`TransactInv`, `ReadInv`, `ScanInv`, `GetInv`). `crud_mixed`, where `CrudInv` does not
hold, `keyed_items`, `tag_cache` and `compress` check properties only; there `TypeOK`
is what `TypeCorrect`, `KeyedInvariance`, `TagInvariance` and `CompressInvariance` prove.

`MaxClock`, `MaxSends`, `MaxOps`, `MaxRuns`, `MaxIds`, `MaxSettings`, `MaxChanges`
and `MaxVersion` are the only bounds on behaviour; `MaxSends` and `MaxRetries` are
also real limits. `MaxExact` is 2^53 in reality; the positions of the run are below
it, as string keys always are (see Findings for what happens above).

`MCCrud` and `MCTransact` use symmetry of callers and of IDs: no definition tells
them apart, and these runs check no liveness. In `batch_write` there is none, because of
`RunEnds`; there the system stops when the runs are used up, so deadlock is not
checked. In `Crud` a replica can always catch up, so that the deadlock check is
idle there; that a call can always end is `GiveUp`. In `Transact` a caller can
always read, so deadlock is idle there as well. In the modules for reads a caller
can always call again once it is not in a call, so that a deadlock would be one
inside a call; it is checked. `tag_cache` and `keyed_items` use symmetry, too
(goroutines; callers and IDs): the initial choice of a type in `TagCache` is the
same for all goroutines.

Properties, in short:

- `ImplementsVersionedItem` - refinement of `VersionedItem` by `table`, under
  stale reads, resends, late and double deliveries and failed calls.
- `NoLostEdits`, `VersionSteps`, `CreationKept` - what no step may do to a row.
- `CopyInSync` - a held copy was the row, and is the row if versions agree.
- `AcknowledgedIsStored`, `LockErrorTruthful` - results against rows. The second
  speaks of calls that were sent once: a write that is resent after it was applied
  fails on its own first attempt, and is reported as `ErrOptimisticLock`.
- `OnlyCreatesAppear` - a late transaction does not bring a deleted item back; for
  the `Put` of a single item that is part of `VersionSteps`.
- `WholeRows`, `IndexComplete` - what every stored row should have.
- `AllApplied`, `InOrder`, `RowsMatchItems`, `RunEnds` - a batch write against a
  sequential application of its queue, complete, in part, and in the end.
- The properties of `Transact` are checked for callers that go on with nothing a
  failed call has left (`CarefulUse`); see Findings for what others meet.
- `CommitsOnCurrentCopies` - every put and every check of a transaction that
  commits met the very copy it was built from, so that two transactions that each
  check what the other one writes do not both commit.
- `AllOrNothing`, `OkMeansAll`, `LockMeansNothing` - a transaction's puts against
  the rows, together and against the result. `LockMeansNothing` has no exception
  for resends, unlike `LockErrorTruthful`.
- `SnapshotRead` - a read that returns nil has all of a transaction's puts to the
  items it asked for, or none, although callers also hold mixes of copies.
- `ImplementsReadAll` - refinement of `ReadAll` by each of the readers, in
  spite of rows that change, empty pages, failed and repeated calls, unprocessed
  keys, goroutines and builders that are run again. `always` and `ever` are
  history variables.
- `AllEnds`, `RunEnds` - a read returns. `NoLeak` - and leaves no goroutine.
- `OneEntry`, `EntryComplete` - all goroutines use the same entry of a type, and
  it is what the tag says, the last of several clauses for a key.
- `OneRowPerItem` - no change of a key field leaves an item in two rows.
  `NeverReplacesAnother` - two items never share a key. `SuccessorsInPlace` - a `Put`
  replaces the version it was made from or starts where there is no row, also from an
  item whose key fields were changed or that was not there to be read. `ZeroKeyIsTheKey` - where
  `requiresDefaultKey` passes, the key made from the ID alone is that of the row.
- `ReadsLastWritten` - a read that succeeds has what was written last, in
  whatever form. `NewestReadsAll` - the program with all tags reads every row.

Fairness: `Crud` and `Transact` need none. `BatchWrite` assumes weak fairness of `Run`'s own
steps (sequential code on one goroutine that blocks only in a sleep and in the
call) and of the answer to a call (`Respond \/ CallFails`: the SDK returns a
response or an error). It assumes nothing about the service making progress.
`BatchGet` assumes the same. `Reads` assumes weak fairness of the next turn of
`All` (`AllCalls`) and of the answer (a page or `AllFails`), none of a caller that
walks. `ParallelScan` assumes weak fairness of the caller's steps
and of each goroutine, as the Go scheduler gives it; it needs no fair mutex,
since each goroutine takes it once. `AllEnds` of the page loops rests on the
service going forward from the start key, which `Paging` states; rows that others
add can only be as many as `MaxChanges`.

## Findings

- `index_lost` (`crud.go` 159): a re-Put replaces the row without `GSI1PK`, and
  the item leaves the type index, although comment and README say otherwise.
- `double_create` (`crud.go` 136): after a failed create the item counts as
  stored; a second `Put` of it is an update at version 1 and replaces the row of
  whoever created it. After a failed re-Put it is the same on the update path: the
  pointer is at the version the other writer has reached, and putting it again
  erases that writer's change. A caller has to read afresh after any error of
  `Put`, which is why the theorems on versioned use assume no reuse.

Met while modelling, and not stated as runs:

- `crud.go` 380: an update without `IfVersion` of an ID without a row creates a row
  without ID, Type, CreatedAt and index key. `crud_mixed` reaches such rows; that
  is why `WholeRows` is claimed for versioned use only.
- `query.go` 426: a cursor is JSON, in which a number is a float64; over an index
  with a numeric sort key a walk with `Page` repeats or skips rows beyond 2^53
  (`Rounded`). The base table and the type index as documented have string keys
  and are not affected.
- `scan.go` 163: a scan for `T` has no condition on the type and returns the rows of
  all types, unmarshaled into `T`.
- `compress.go` 171: a `[]byte` attribute written before the field was tagged is
  taken for gzip, and the item cannot be read any more. Fields of other types are
  not affected (`compress`).
- `crud.go` 149: after a delete and a create, version 1 stands for two contents. If
  callers choose their IDs that can happen at any time; with IDs that
  `stampAndMarshal` makes it takes a create that the SDK sends twice: the second
  attempt is served after the item was deleted and brings it back at version 1.
  With `Ops = {"new", "put", "get", "delete", "updateIf"}`, `MaxSends = 2` and
  `MaxClock = 5` TLC finds a lost change after such a return.
- `transact.go` 278-304: when `Run` of a transaction fails, all its items stay stamped, as
  after a failed `Put`. A caller that runs the builder, or puts the items, again
  makes updates of what were creates and expects the version after the one it has read:
  with `ReuseAfterError = TRUE` in `transact.cfg` TLC finds each property of `Transact`
  but `LockMeansNothing` violated.
- `transact.go` 116, `compress.go` 122-134, 189-204: a destination of `TransactGet` that
  fails to unmarshal may already have the row's `Version` and `CreatedAt` beside old or
  missing content. The call returns an error, but a `Put` of that item passes the version
  condition and erases what the row has (`Torn`, with `ReuseAfterError = TRUE`).
- `transact.go` 72-78, 112-115: for a missing row `TransactGet` returns nil and leaves the
  destination as it was. One that is stamped from an earlier use looks as if it had
  been read; of an item that was never stored a `Put` then fails on its condition
  (`SuccessorsInPlace`).
- `crud.go` 119-164: for a type whose key has other fields, nothing keeps an ID from
  being created twice, under two keys: with `OwnIds = FALSE` in
  `keyed_items.cfg` TLC finds `OneRowPerItem` violated. The other properties of the run
  do not depend on it.
- `keys.go` 90: a separator inside a `pk` field merges partitions. `tags.go` 86: two
  goroutines may both parse a type, of which one result is dropped.

## Proofs

Every invariant and action property that a passing run checks is proved for any
values of the constants, and so are the refinements of `VersionedItem` and
`ReadAll`. The assumptions are those the modules state on
their constants, which TLC evaluates in every run, and the hypotheses the
theorems name. Each argument has the same form: an inductive invariant, one lemma
for each action, and the property from the invariant.

| Module | Inductive invariant | Proved |
|---|---|---|
| `CrudProofs` | `TypeOK`; `IInv`; `VersionInv`; `CrudInv`; `UuidInv` | `TypeCorrect`, `Invariance`, `CopiesInSync`, `AcknowledgedStays`, `NothingLost`, `CreationStays`, `VersionInvariance`, `VersionsCount`, `LockErrors`, `RowsAreWhole`, `Agreement`, `RowsAreRegisters`, `UuidInvariance`, `NothingLostDespiteDeletes`, `CreationStaysDespiteDeletes` |
| `BatchWriteProofs` | `BatchInv` | `BatchInvariance`, `EverythingApplied`, `AppliedInOrder`, `ItemsMatchRows`, `RunNeverTurnsBack` |
| `BatchGetProofs` | `GetInv` | `GetInvariance`, `GetReadsAll`, `RunNeverTurnsBack` |
| `TransactProofs` | `TransactInv` | `TransactInvariance`, `AllPutsOrNone`, `OkIsStored`, `LockIsNotStored`, `ReadsAreSnapshots`, `CommitsAreCurrent`, `OnlyCreates` |
| `ReadsProofs` | `ReadInv` | `ReadInvariance`, `ReadsReadAll`, `ReadNeverTurnsBack` |
| `ParallelScanProofs` | `ScanInv` | `ScanInvariance`, `NoGoroutineLeaks`, `ScanReadsAll`, `NobodyGetsStuck`, `AllNeverTurnsBack` |
| `TagProofs` | `TagInv`; `CompressInv` | `TagInvariance`, `EntryIsUnique`, `EntriesAreComplete`; `CompressInvariance`, `NewestReads`, `LastIsRead` |
| `KeyedItemsProofs` | `KeyedInv` | `KeyedInvariance`, `ItemsHaveOneRow`, `ZeroKeyFinds`, `OthersAreNotReplaced`, `PutsFollow` |

Hypotheses beyond the assumptions on the constants:

- `VersionedUse` (no deletes, no reuse of an item after its `Put` failed), for all
  of `Crud` but `TypeCorrect`, `VersionInvariance`, `VersionsCount`, `LockErrors`,
  `RowsAreWhole` and those of `UuidUse`. A reused item
  breaks `CreationKept` (`double_create`), and after a delete and a create a
  version number stands for two contents.
- `UuidUse`, for `UuidInvariance`, `NothingLostDespiteDeletes` and
  `CreationStaysDespiteDeletes`: callers also delete, but every item gets its ID from
  `uuid.New` and each request is sent once (it may be late, and served after its
  call has ended). Without the first a create reuses the ID of a deleted item,
  without the second it does so itself (see Findings).
- No unconditional `Update` (`"update" \notin Ops`), for `RowsAreWhole`,
  `Agreement` and `RowsAreRegisters`: it creates bare rows, and may be applied once
  for each time it is sent.
- `CarefulUse`, for all of `TransactProofs`: callers go on with no item that a failed
  call has stamped or torn. Without it most of them are false (see Findings).
- `OwnIds`, for `ItemsHaveOneRow`: callers create an ID once, unless the key is made
  of the ID alone.
- `ExactKeys`, for `ReadsProofs`: no numeric sort key is one that a float64 rounds.
  Without it a walk with `Page` repeats rows: with `MaxExact = 2` in `reads.cfg` TLC
  finds a walk that returns the third row twice.
- `DistinctNames` and `TaggedIsText`, for `Compress`: no two fields of the struct have
  one attribute name, and no tagged field is a `[]byte`. Two fields of one name
  would overwrite each other in the SDK as well; for a `[]byte` see Findings.
- `IsFiniteSet(Keys)`, for `ReadNeverTurnsBack` and `AllNeverTurnsBack`: a table has
  finitely many rows, although any number of them.

What is not named above needs no hypothesis: `TypeCorrect`, `VersionInvariance`,
`VersionsCount` and `LockErrors` of `Crud`, the theorems on `BatchWrite`, `BatchGet`
and `TagCache`, and the others on `ParallelScan` and `KeyedItems`.

**CRUD.** A write condition compares a number, so the proof has to show that
the number stands for the content. `IInv` says that of everything that was once
read from or made for a row: the replica (`ReplicaInv`), requests on their way,
also those of calls that have ended (`NetInv`), held copies (`CallerInv`) and
responses (`AnswerInv`): each is at or behind the row's version, and at the same
version it is the row, or its successor in the case of a conditional `Put`
(`Extends`). None of the properties is inductive alone: `NoLostEdits` needs to
know what a request in the network contains, hence what the copy it was made
from was, hence what reads return. `RowsAdvance` says that a row changes only to
the next version, above its old content; `SyncedKept`, `RequestKept` and
`StoredKept` show that everything else in `IInv` survives any such change, and
`ApplyAdvances` that every served write is one. The remaining steps leave the
rows alone.

`VersionsCount` holds for any use: whatever has become of the copy a `Put` is made
from, the request carries the version after the one it expects (`VersionInv`), and
the table applies it to a row of that version only.

`LockErrors` follows from `TimeInv` and `LockInv`, which hold for any use: a reading
of the clock names one request, and a request that was sent once and is on its way,
or was refused, has left its change nowhere (`Hidden`). `RowsAreWhole` needs
`WholeInv`, which says the same of every copy in use. For the refinement a request
that was resent or is late must not apply twice: `OnceInv` says that a request
whose change is in its row does not meet its condition any more. With it each
served write is one write of `VersionedItem`, and every other step a stutter.

Among deletes the version of a row no longer tells its life from an earlier one, so
`UuidInv` says instead that there is one life: a create that is on its way is for an
ID that no row, copy or other `Put` has (`CreateInv`), and every other copy and
conditional `Put` is behind its row or that of an item that is gone (`BehindInv`).
`ServeFollows` shows that a row is left as it was, advances or goes away, unless the
request creates it; `BehindKept` and `ExpectsKept` that copies and requests survive
that, and `CreateInv` that there are none when a row appears.

**BatchWrite.** `Applied` are the requests that were processed: all of the chunks
that are done, and of the one under way those not in `todo`. `RowInv` says that a
row is what the last applied request of its key left; that the requests of a chunk
may be processed in any order is sound because a call with two requests for a key is
refused as a whole (`ChunkInv`). `QueueInv` ties a request to the operation and
the item it was made from, for `RowsMatchItems`.

**BatchGet.** `ItemsInv` counts: a key is among the items as often as positions of
the queue with that key were read (`Counted`), less only for a row that was missing
at some time. The counting is by cardinalities, so that an id queued twice is
returned twice.

**Transactions.** `Good` says of a copy, held or sent, that what it shows is
committed and, until the item is deleted, that the row is not behind it; `RowInv`
that a row shows every put that `log` has for it. The properties are about results
and rows, and need the transactions in the network: one that is still there has
done nothing and is the only one of its call (`WriteInv`), so that a result that
says "nothing" stays true while others commit (`CallInv`). `SnapshotRead` is a
conjunct of the invariant, since what a caller read once it keeps while rows go on.
`Good` is where `CarefulUse` is needed: an item that is stamped without a commit, or
torn, is not.

**Reads.** `CollectedInv` relates the token, all that the next call knows, to the
items collected before: every key up to it once if the row was there all the time,
none after it. `IsPage` is what `QueryPages` and `StatementPages` get from the
service, `QueryKeys` and `CursorKeys` that the key of the last page arrives at the
next one, as it is or through the cursor.

**Scan.** The same for each segment (`SegInv`), then for the slice: it holds the
items of the segments that are past their merge (`MergeInv`). A lost append is
excluded because only the holder of the mutex is between `Load` and `Store`, and
what it loaded is the slice (`MutexInv`). `CallerInv` equates the counter of the
`WaitGroup` with the number of goroutines that have started and not ended, which
gives `NoLeak` and, in the end, that every segment has merged or left an error.

**Tag cache.** `ParseInv` is the loop invariant of one goroutine on its own entry;
`CacheInv` says that the entry in the cache is complete and that no goroutine is
at it any more, so that it cannot change after it was published.

**Compressed fields.** `FieldInv` says that the attribute of a field holds the value
last written, in the native form or compressed by a program that has the field
tagged, whichever program wrote the row and whatever `Set` has changed since. As
names are distinct (`DistinctNames`) the fields do not disturb each other, and a
Binary attribute of a tagged field is gzip (`TaggedIsText`), so that the program with
all tags takes apart exactly what some program has compressed.

**Keys.** `KeysTellApart` is the lemma: the sort key begins with the type's name
and ends with the ID, whatever the fields between them contain. That a row is under
the key of its own item (`RowsInv`) and a key has one row (`OneRowPerKey`) gives
`PutsFollow`, and with `OwnIds` that an item has one row. The lemma rests on
`Flattened`, what `FlattenSeq` returns, which is proved by induction on the length.
The library's induction theorems take a predicate and cannot be instantiated;
`Induction` gets the same for sets from `WFMin` and `NatLessThanWellFounded` of
`WellFoundedInduction`.

**Ends.** That `Run` and `All` end is liveness; what can be proved of it is that
they do not go on for ever and, of a scan, that nobody waits in vain. `Left` is a
tuple of numbers, what a call has left to do: whether it runs, the chunks or keys to
come, the retries left, whether an answer is due, what the service has not
processed; in a scan each goroutine has its own. Every step of a call, of the
service's too, lowers `Left` in the lexicographic order `Less`, and what others do to
the table does not raise it (`GoesOn`). `Less` has no endless descent
(`DescentEnds`), so that a call makes finitely many steps between the changes of
others. That each chunk that was sent starts in the queue (`SentInv`), and each page
ends beyond its start key (`IsPage`, `PageShape`), is what this rests on; for a walk
`ExactKeys` too, since a cursor that names an earlier key leads back. A walk that gets
the same error again stays where it is. `NobodyStuck` is the other half for a scan:
while `All` runs, the caller can go on or some goroutine neither has ended nor waits
for the mutex, as the holder of the mutex is before its deferred `Unlock` and the
`WaitGroup` counts only goroutines that are there.

Only model-checked:

- `RunEnds` and `AllEnds` themselves: fairness and ENABLED are out of the prover's
  reach, and with them the step from finitely many steps, each of which is due, to
  the end;
- the two violations of Findings.

## Not modelled

String formatting, error texts, expression building and the cutting of tag text;
gzip, JSON and `attributevalue` beyond what `Compress` says of them (so not: values
that JSON does not give back exactly, and the SDK's matching of attribute names
without regard to case); the SDK's and the service's own internals beyond the
above. Panics on values that are no structs with a `Model` are programmer errors,
except in `parseTags`, where one must not leave an entry. Reads (`Get`) are not
resent in `Crud`: serving them later is the same. A failed `BatchWriteItem` call
processes nothing after it has failed; unlike `Put` it has no condition that would
make a late duplicate harmless. `client.go`, `options.go` and `errors.go` hold
configuration and names only.

## Plan

The properties of the passing runs are proved, and of liveness the safe half. What would extend
the project: `Update` without a condition beside deletes, for which rows are not
whole, and the parts that are external here, as far as the code comes to rely on
more of them.
