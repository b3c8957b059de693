# A TLA+ model of duckdb-go

This directory models the Go driver for DuckDB in `src/`: the parts of it that
keep state over several calls, run beside each other, or call back and forth
with DuckDB. TLC checks the models on small instances and TLAPS proves the
central ones for every instance. DuckDB itself, `database/sql`, the Go
scheduler and the users' functions are outside the repository: they are
modelled as nondeterministic environments, from the way the driver uses them,
and marked external in `PROJECT.json`.

## 1. The system

| component | source | state it keeps | operations |
|---|---|---|---|
| connector | `duckdb.go` | `db`, `closed`, `connInitFn`, the context store | `NewConnector`, `Connect`, `Close` |
| connection | `connection.go` | `closed`, `tx`, the native connection, `id` | `ExecContext`, `QueryContext`, `PrepareContext`, `Prepare`, `BeginTx`, `Close` |
| context interrupt | `context.go` 55-129 | two channels and one goroutine for each outermost wrapped call | `runWithCtxInterrupt`, `interrupterRoutine` |
| context store | `context.go` 11-53 | connection id to context | `load`, `store`, `delete` |
| statement | `statement.go` | `closed`, `rows`, `closeOnRowsClose`, the native statement | `ExecContext`, `QueryContext`, `Close` |
| parameter binding | `statement.go` 83-515 | `bound`, and in DuckDB a slot for every parameter | `Bind`, `ExecBound`, `QueryBound`, `ParamType`, `ColumnTypeInfo` |
| transaction | `transaction.go` | `Conn.tx` | `Commit`, `Rollback` |
| rows | `rows.go` | the result, the current chunk, `closeChunk`, `rowCount` | `Next`, `Close` |
| appender | `appender.go` | `rowCount`, the chunk, `closed`, DuckDB's appender | `AppendRow`, `Flush`, `Close` |
| data chunk, vectors | `data_chunk.go`, `vector*.go` | the tree of a column's vectors, addresses of DuckDB's buffers, validity masks, projection | `initFromTypes`, `SetValue`, `SetChunkValue`, `GetValue`, `reset`, `SetSize` |
| scalar functions | `scalar_udf.go` | bind data (connection id, context) | registration, bind, copy, row callback |
| table functions | `table_udf.go`, `table_source.go`, `row.go` | bind data with the projection, local states | bind, init, local init, callback |
| registration | `table_udf.go`, `scalar_udf.go`, `replacement_scan.go`, `udf_utils.go` | native function objects, cgo handles pinned for them | `RegisterTableUDF`, `RegisterScalarUDF`, `RegisterScalarUDFSet`, `RegisterReplacementScan`, the delete callbacks |
| Arrow | `arrow.go` | reader: reference count, current batch, error, closed | `QueryContext`, `RegisterView`, `Retain`, `Release`, `Next` |
| leaf conversions | `types.go` | none | pure functions both ways |
| values | `value.go` | handles of DuckDB values and types, for the length of a call | `createValue`, `inferLogicalTypeAndValue` |
| type information | `type.go`, `type_info.go` | none (immutable), and handles of logical types | the constructors, `logicalType`, `newTypeInfoFromLogicalType` |
| the rest | `profiling.go`, `result.go`, `errors.go`, `mapping/` | none | one-shot calls and aliases |

How they interact. `database/sql` runs one driver call at a time on a
connection. A call stores its context under the connection's id, wraps its
native calls in `runWithCtxInterrupt`, runs the statements of its query one by
one and hands the last one out as a result, rows, or a statement. Rows keep
their statement busy and may own it. Functions registered by the user are
called from DuckDB's threads in the middle of such a call and fetch the stored
context. Table functions are bound when a statement is prepared, and scanned by
several threads whenever it is executed. The values bound to a statement stay
in DuckDB from one execution to the next. An appender bypasses statements and
feeds DuckDB chunk by chunk.

The hard behaviours are listed under `hazards` in `PROJECT.json`, each at its
line: late interrupts, panics that skip clean-up, cancellation between any two
steps, several native handles owned by one call, flags that must stay in step
with DuckDB's state, slots of a chunk that are used again, a reference count
that errors change, a context that is kept longer than its call, buffers that
move under the addresses a vector keeps, a `Bind` that stops halfway, a
projection that threads share.

What makes each component correct:

- *context interrupt*: an execution is interrupted only because its own context
  ended; a cancelled call returns; no goroutine outlives its call.
- *connection, statement, rows, transaction*: each native handle is destroyed
  once, by whoever owns it, on every error path; `Conn.tx` and DuckDB agree.
- *result scan*: every row once and in order, read from a live chunk.
- *appender*: the accepted rows, unchanged, in order, each at most once.
- *context store, scalar functions*: a function runs in the context of the call
  that executes it, and no entry outlives its call.
- *Arrow*: the reader is open while somebody holds a reference, everything is
  destroyed once, and an early end is reported.
- *vectors and chunks*: what is written is read back, however types nest, and
  a write disturbs no other cell.
- *leaf conversions*: both directions agree on every representable value, and
  what does not fit is refused.
- *parameter binding, values*: every execution runs the arguments meant for it,
  `bound` is only set when every slot is, and no handle stays alive.
- *type information*: a type that is taken apart and made again is the same.
- *table functions*: every row a source gives arrives once and whole, a source
  that is not parallel is never called by two threads, and a scan ends.
- *registration*: a handle lives as long as something that calls it.

## 2. Modules

### CtxInterrupt: `runWithCtxInterrupt` and its goroutine

A *frame* is one activation of `runWithCtxInterrupt`, a pair of a driver call
and a nesting level. `phase`, `depth`, `err` and `left` are the caller's
position; `done` and `bgDone` are the two channels of a frame (`nil` for a
nested frame, which starts no goroutine); `gpc` is the position of its
goroutine; `interrupted` is DuckDB's flag on the connection. The caller's
actions follow the function line by line: `Start` and `Enter` are the
short-circuit, the marker check and the `go` statement, `Arm` is the last
`ctx.Err()` before an execution, `Return` is `close(done)`, `Join` is
`<-bgDoneCh`, and `Panic` is a panic of `fn`, which skips both. The routine's
actions are the cases of its two `select`s, the interrupt and the sleep.

External: an execution clears the interrupt flag when it begins and aborts
when it sees it set; nothing makes a query end by itself. `database/sql` runs
one driver call at a time on a connection and returns the connection to its
pool when a driver call panics.

### DriverSession: connections, statements, rows, transactions

`conn`, `tx`, `stmt` and `rows` are the driver's objects, `native` is the set
of live DuckDB handles and the transaction state of each connection, `call` is
the driver call in flight on a connection and its position in
`Conn.prepareStmts`. Between two steps of a call the context can be cancelled,
and each step can fail. A call the driver answers with a misuse panic changes
nothing and is simply not enabled. A panic of `Bind`, of which the values below
show the reasons, is a step (`BindPanics`): `ExecContext` and `QueryContext` then
never come to their `prepared.Close()`, and the native statement is lost.
(`prepareStmts` executes the earlier statements of a query without arguments, and
one that has parameters is refused before anything is bound.) `rows.Close` is two
steps, what it destroys and what it does with the statement, so that an order of
the two can be wrong; the lock of `database/sql` holds until both are done.
`manual` remembers the connections on which
SQL text has controlled a transaction itself, where `Conn.tx` cannot follow.

### BulkLoad and Appender

`BulkLoad` says what the comments of `appender.go` promise: accepted rows reach
the table in order, unchanged, each at most once; a successful `Flush` or
`Close` leaves none behind; after a failure nothing more arrives. `Appender`
models `AppendRow`, `Flush` and `Close` over the chunk's cells with their
validity bits, and DuckDB's appender as a collection with its own flush
threshold. `ImplementsBulkLoad` is the refinement, with `accepted` as a history
variable on both sides.

### ArrowReader: a reader shared by goroutines

`recordReader`'s methods take `r.mu`, so each is one action on `refCount`,
`closed`, `current`, `err` and DuckDB's handles and batches. The users follow
the repository's own test of concurrent readers (`arrow_test.go:203`): an owner
hands the reader to workers that retain it, read under a lock of their own, and
release it; then the owner asks `Err` and releases, once too often. The context
may end and a batch may fail to convert at any time. `SchemaFails` is the path
of `QueryContext` on which no reader is made.

### RowCursor and ResultScan: `rows.Next`

`RowCursor` is the promise of `driver.Rows`: the rows of the result in order,
each once, then the end however often it is asked for. `ResultScan` is the
code: `fetched`, `size`, `rowCount` and `closeChunk`, one action for each turn
of `Next`'s loop, over any division of the result into chunks, empty ones
included. A result with a column type the driver cannot read is part of it: the
first `Next` fails after it has taken the chunk's size, and a second one panics
on the columns that were never made. `row` in the model is the position
`GetValue` reads, so that the refinement says which rows are given and not only
how many.

### UdfContext: the context of a user-defined function

`m` is the context store, `frames` the stack of `setContext` activations on a
connection, `plan` DuckDB's bound functions with `bindData.ctx`, which live as
long as the statement they were prepared for and may be copied. Each thread's
pass through `scalar_udf_callback` is split where other threads can see the
difference: the test of `info.ctx`, the load, the write, the row calls. A Go
interface is two words and nobody locks `info.ctx`, so between load and write
its value is `Torn`. No property is about the torn value: `ContextOfAPlansCall`
and `ContextOfThisCall` set it aside, because the run could only confirm that a
data race is a data race.

### Conversions, NestedVector and ChunkWriter

`Conversions` holds the leaf conversions both ways: 128-bit integers as two
words, UUIDs with their flipped sign bit, BIGNUM's sign and complement, narrow and wide
decimals, the four timestamp units, dates and times. `LeafTakes` and `LeafStored`
are what the setters do; `LeafMeaning` is not: it is what the value says in the
column's type, a number in the column's scale (`Digits`), which the setters never
look at. `Convertible` holds of the values that are stored as what they mean. The widths and the calendar are
parameters, so that the theorems hold for words of 2^64 values and the run uses
words of 4.

`NestedVector` is the tree of `vector`s of a column. `Set` follows `setFn` of
every nested type in the order the code writes: a refused element leaves what
was written before it. `Grow` is DuckDB moving the buffers of a list's child
when it reserves more rows, `ResetChildData` is the code looking the addresses
up again, and `fresh` says whether the Go vector has done so. `Get` follows
`getFn`. `ChunkWriter` adds the chunk: projection, the two dispatches
`SetValue` and `SetChunkValue`, and `reset`. `told` remembers what the last
write to a cell should have made of it.

### LogicalTypes, ParamValues, StmtBind and StmtValues

`LogicalTypes` has both sides of a type: the `TypeInfo` its constructors check,
and DuckDB's logical type. `LogicalTypeOf` makes the second of the first and
counts the handles it leaves to nobody; `InfoOfLogicalType` goes back.

`ParamValues` makes DuckDB values of Go values, the way `bindValue` chooses: the
Go types that are bound as they are, big integers, JSON, `driver.Valuer`,
`fmt.Stringer`, the conversions of each parameter type, and inference. Making a
value succeeds, fails or panics, and says which handles outlive it. Panics come
from three places: the unchecked assertions of `createPrimitiveValue`, a nil
`*big.Int` that is bound directly, and a `Value` or `String` method called through
a nil pointer or on a Decimal without a value. (`database/sql` turns a nil pointer
that is a `driver.Valuer` into nil; `Stmt.Bind` and the driver interface do not,
and a nil `*big.Int` passes `CheckNamedValue`.) What a value
`reads` back as is computed with `Conversions`, so that a value that would be
stored as another one is seen.

`StmtBind` is a statement and its slots. `Chosen` is the argument a parameter
takes in `bind`, with position, ordinal and name in the code's order. `Bind`
works up to the first parameter that fails and leaves the rest; `Execute`,
`ExecuteBound` and `Close` follow their guards, with the misuse panics of
`execute` as outcomes. Parameters DuckDB could not resolve may get the type of
the value they are first executed with. `told` and `ran` remember what was
bound and what was run. How a value is made of a Go value is a parameter,
`MakeValue`, and what the Go value says another, `Meaning`; `ValuesAreAsMeant`
is what the statement relies on. `StmtValues` composes it with `ParamValues`: the
run gives `BindValue` for the first and `MeaningDef` for the second, and
`StmtRowsProofs` proves that these two are as `ValuesAreAsMeant` says. `StmtValues`
adds what leaks, what panics and the columns' types.

### Functions that call themselves

The code walks a type, a vector or a value with functions that call each other:
`setFn` of a LIST calls `setFn` of its elements. The modules declare such a
function as a CONSTANT operator, `Set`, and define its body next to it, `SetDef`,
which calls the constant. So is it with `NewVector`, `Grow`, `Shrink`,
`ResetChildData`, `SetNull`, `WriteKids`, `FirstMatch`, `Get` and the others of
`NestedVector`, with `LogicalTypeOf` and `InfoOfLogicalType`, `CreateValue` and
`Infer`, `Meaning`, `HasElements`, `CallsOnNil` and `MembersIn`. The
configurations give each constant its definition (`Set <- SetTied`, where
`SetTied` in the MC module is `SetDef` in a LET of its own, which TLC needs to
evaluate a constant that leads back to itself). A proof takes the equation
`Set(...) = SetDef(...)` instead, for the arguments on which the code calls the
function. Types and values come with a depth (`Depth`, `Size`) that decreases
towards their parts; the MC modules compute it.

### UdfRegistry: registering functions

A registration makes a native object, pins the Go function behind a cgo handle
and hands both to DuckDB. `OutcomeOf` says for each of the four kinds how far it
gets before each problem and whether it destroys its object on the way out, in
the order of the code. The delete callbacks run when the last reference to an
object is gone.

### RowFeed and TableScan: table functions

`RowFeed` is the promise: a scan delivers every row its source gives once, and
one that ends by itself has delivered them all. `TableScan` is the code over it
and over `UdfRegistry`: bind with its data's handle, `setColumnCount`, a local
state for each thread, the callbacks of each thread cut where others can come
between them, the chunk's size, the errors, and the end of scan and plan. The
source is the user's; it claims rows under a lock and fills them in without it.
A cell of the model names the column whose value it holds, so that a projection
can go wrong. `out` is what each thread has returned to the query; between
threads DuckDB promises no order, so none is modelled.

## 3. Runs

| run | instance | shows |
|---|---|---|
| `ctx_interrupt` | 3 calls, 2 on one connection, 2 sharing a context, 1 with a context that cannot be cancelled, 1 that may panic; 2 levels, 2 pieces of work | goroutines and interrupts go astray only after a panic, one goroutine per connection, and a cancelled call returns |
| `ctx_panic_stray` | the same | finding 1 |
| `driver_session` | 1 connection, 3 statements, 2 rows; queries of one and two statements and a manual BEGIN | ownership of native handles, which only a panic of `Bind` ends; results before their statements; busy flags, the transaction flag |
| `appender` | 2 columns, chunks of 2 rows, 5 accepted rows | rows conserved, table a prefix, refinement of `BulkLoad` |
| `appender_null` | with a row refused after its NULL was written | finding 2 |
| `result_scan` | all results of up to 4 chunks of up to 2 rows, readable or not | refinement of `RowCursor`, reads inside live chunks, `Next` returns |
| `arrow_reader` | 3 workers, 3 chunks, cancellation and conversion errors | handles destroyed once, no batch leaked, early ends reported, everybody finishes |
| `udf_context` | 2 connections, 2 contexts and Background, 2 plans, 2 threads each, 3 calls | the store follows the calls; contexts never cross plans |
| `udf_stale` | 1 connection, 1 plan | finding 3 |
| `chunk_writer` | two dozen column types, chunks of 2 rows, 3 writes between resets | cells read back, rewriting only loses to NULL, lists in bounds, one union member, no stale address |
| `stmt_bind` | statements of 1 or 2 parameters, of 22 types or none, each with every Go value that takes another way through the code; 2 or 3 calls; 15 columns | an execution runs the arguments meant for it, `bound` means complete, what leaks is an element, what panics has one of three reasons, types come back |
| `table_scan` | 2 threads, chunks of 2 rows, claims of 3, 0 to 5 rows, 2 executions; 4 kinds of functions with 7 problems | every row once and whole, sequential sources on one thread, handles owned, refinement of `RowFeed`, scans end |

Why the bounds are enough.

- *ctx*: two calls on one connection are what a late goroutine needs to hurt
  another call; the third is on another connection and shares the context, so
  cancelling one context concerns two connections at once. Two levels are the
  nesting the code has.
- *driver_session*: three statements let a call work on one while another is
  held and a third has rows. Connections share nothing but the connector and
  the context store (which `udf_context` has), so one is enough here.
- *appender*: five accepted rows over chunks of two cross the capacity twice and
  leave a partial chunk.
- *result_scan*: four chunks of 0 to 2 rows give two empty chunks in a row
  before, between and after full ones; the theorems cover the rest.
- *arrow_reader*: one worker fails, one's Retain is skipped, and a third still
  reads; three chunks have a first, a middle and a last one.
- *udf_context*: `MaxCalls = 3` gives a bind, an execution in another call and
  one more; two threads race on one plan while another connection runs.
- *chunk_writer*: a chunk of two rows grows at the third element, and two writes
  to one row with one to the other tell a row's own data from its neighbour's.
  Words of 4 values, bytes of 2 and years of two days keep every limit within a
  few values of zero, and the values given lie on both sides of each.

- *stmt_bind*: two parameters tell a position from an ordinal and a name, a
  third argument is one too many; a call that binds, one that fails halfway and
  one that runs are three. Nested values go two levels down, with the element
  that fails first, last and alone.
- *table_scan*: claims of three rows do not fit chunks of two, so a thread keeps
  rows from one callback to the next; five rows make two full chunks and one
  partial one; the second execution finds the projection and the source of the
  first. Functions share nothing but the database, so one table function is
  scanned, and the problems of its registration meet those of the others.

Three inputs are left out of `chunk_writer`, because the code stores another value
than it was given, and are hazards with a note instead. A number whose digits are
others in the column's scale: `Decimal` 0.04 or the integer 4 in a DECIMAL(4,1) is
read back as 0.4, and `Decimal` 0.4 in an INTEGER, HUGEINT or BIGNUM as 4; or that
the machine integer of a narrow DECIMAL cannot hold, and wraps (the wide one
refuses it). The same is left out of the elements of `stmt_bind` that are HUGEINT,
UHUGEINT or BIGNUM (`ArgumentsAssumption`).
`inferDate` rounds towards zero, so before 1970 an instant that is not midnight
becomes the next day; no doc says what a DATE column makes of a clock time.
And the years `getTSTicks` lets pass for `TIMESTAMP_NS` end after int64 does, so
that the last months of 2262 wrap.

`CHECK_DEADLOCK FALSE` stands where the system stops: the identities of the
instance are used up and everything is closed (`driver_session`), everybody has
released the reader, all calls were made, the rows are closed and stay so, the
statement is closed, or the plan is dropped.

Fairness. `CtxInterrupt!FairSpec`: each caller and each goroutine is weakly
fair, since the Go scheduler runs every runnable goroutine, `time.Sleep` ends,
and an execution that sees the interrupt flag aborts. `EndNative`, `Cancel` and
`Panic` have no fairness: a query may run for ever, and no user has to cancel.
`ArrowReader!FairSpec`: the owner and the workers go on, each by itself; nothing
makes a context end or a conversion fail. `ResultScan!ScanSpec`: a goroutine inside
`Next` goes on; nobody has to call it. `TableScan!Spec`: DuckDB's scheduler runs a
thread that has work, at least one thread of a scan starts, and a scan whose
threads have ended is ended; no query has to be made, stopped or closed, and the
source is finite.

## 4. Proofs

`CtxInterruptProofs` proves, for any number of calls, connections, contexts and
nesting levels, that the invariant `IInv` is inductive, and from it the type
invariant and five safety properties. None of the properties is inductive by
itself. That no goroutine outlives its call (`LoopScopedToCall`) needs to know
that the goroutine belongs to the call's first frame, that this frame's `done`
is open while the caller is in flight, and that `bgDone` is closed only when
the goroutine is gone; that no interrupt strays needs, on top of it, that a
goroutine past its first `select` has a cancelled context and that an
execution starts with a cleared flag; and both need that at most one call is
active on a connection. The conjuncts of `IInv` are exactly these facts, and
each has its own step lemma. Panics are part of the proved specification:
`NoStrayInterrupt` and `LoopScopedToCall`, which fail with panics, are proved
under `Panicking = {}` (`LoopScopedToCall` is proved and not run), their weaker
forms `StrayOnlyAfterPanic` and `OnlyPanicLeaks` without an assumption.

`DriverSessionProofs`, for any connections, statements, rows and queries: the
invariant `OwnInv` says who owns a native statement at every moment of a call. A
statement is the user's, or the driver's own; the driver's own is either the one
a call works on or will be closed with its rows. `StatementsOwned` alone does not
survive a step, because it does not know which statement `prepareStmts` would
close on its error path (`CallsOwn`), nor that two rows objects never share one
(`RowsOwn`). A statement that a panic of `Bind` lost has no owner and lives on;
that nothing else loses one is `LostOnlyByPanic`, from the same steps. `TxFollows` extends `TxMatchesDuckDB` into the middle of `BeginTx`,
`Commit` and `Rollback`, where the two sides differ for a step.

`AppenderProofs`, for any table, capacity and argument lists. The invariant
`LoadInv` compares the rows of the table, DuckDB's collection and the chunk with
the accepted ones, and keeps the slots that are not counted yet free of NULLs
(`Fresh`). That last part is what finding 2 breaks, so it holds under
`RefusedBeforeNull`: no argument list has a NULL before a value that is refused.
The assumption is exactly the difference between the runs `appender` and
`appender_null`, and `RowsConserved`, `TableIsPrefix` and the refinement of
`BulkLoad` are proved under it (`NoRowLost`, `TableKeepsOrder`, `Implements`).
Without it `LoadInv` holds in a weaker form that allows NULLs in place of values,
and `OnlyNullsAppear` says, with no assumption, that this is all that can go
wrong: no row is lost, doubled, moved or mixed with another.

`TableScanProofs`, for any source, number of threads, claims, chunks and
projection: `ScanInv` says that a row is in one claim, one chunk or delivered,
never in two of them (`NoneTwice`), never before it was claimed (`OnlyClaimed`),
and, while nothing failed, always in one (`NoneLost`), which is what the
refinement of `RowFeed` needs when a scan ends. `ProjectionOK` is why threads may
share the projection: `setColumnCount` writes the same places on every
execution, because a query asks for the same columns and for each of them once
(`QueryAssumption`). `HandlesOwned` is inductive by itself, with the facts that
the handles of functions, plans and threads differ and which registrations
return early (`Outcomes`). The refinement is proved as safety; `Feed!Spec` states
no fairness.

`UdfContextProofs`, for any connections, plans and threads. `StoreFollowsCalls`
needs that a connection's outermost frame, and no other, has stored its context
(`OutermostStores`): this is why the deferred deletes of inner calls do nothing.
`ContextOfAPlansCall` needs what the bind data and the threads hold between their
steps (`PlansKeep`, `ThreadsKeep`) and that an execution stays inside its call
(`RunsInCall`), so that what is loaded is that call's context.

`ArrowReaderProofs`, for any number of workers and chunks: `refCount` is the
number of references held, counted as the cardinality of the set of holders, as
long as no Retain was skipped, and never more than it afterwards. From this
follow the handles destroyed once, the one batch, and that only a skipped
Retain closes the reader under somebody. `ReadInv` adds what the workers have
taken: while nothing failed, the chunks fetched are the chunks taken and the one
that the holder of the users' lock is about to take, and no worker stops before
the last chunk. So an owner who sees no error has everything
(`NothingMissedSilently`).

`ChunkWriterProofs` has two parts. The first, about `Conversions`, for every even
word, every byte and every calendar: the 128-bit integers, signed and not, the
UUIDs and their order, timestamps in every unit and dates from 1970 on come back
as they were or rounded down to the column's unit; a value that does not fit is
refused. `NanoRoundTrip` needs the instant to fit int64, which the code does not
check. `LeavesReadBack` puts them together: what a leaf column takes it gives back,
for values that are `Convertible` (the same digits in the column's scale, a DECIMAL
inside of its width, no instant that wraps, before 1970 only midnights in a DATE).
`ScaleDropped` says what becomes of the other numbers: a DECIMAL gives back the
digits it was given in its own scale, which is what the value said exactly if its
digits are the same in that scale. BIGNUM, a loop over the bytes of a
power's digits, is an induction over data: it is assumed here and model-checked.

The second part is about the tree of vectors, for column types of any shape and
depth, any capacity and projection, and any number of writes, refusals and resets.
The invariant `IInv` has two halves. Of the vectors (`Formed`, `Fresh`): a child
has a row for every row of its parent, a list's child room for what the lists
hold, the rows no list has used yet are clean, and every address is current. Of
the cells (`CellRight`): a new one is `Clean`, with no part set to NULL; one that
was written once reads as the value it was given, its leaves being `Convertible`;
one that was written over reads
as that value with parts lost to NULL and not otherwise. The cell alone is not
inductive: a write needs the tree to have room, and what it reads back depends on
the NULLs an earlier value left behind, which only the clean rows exclude. Nor is
it enough to look at the cell written: a list that grows moves the buffers of its
neighbours, and the proof shows that every other row of the tree keeps what it
reads (`ColumnsAreRight`). The five properties of the run follow.

The theorems of this part say `ASSUME Recursion`: the equations of the operators
that call each other. They are stated for the vectors, types, rows and writes that
the code calls them on, where each call is for a type less deep, a row with fewer
writes left or a union with fewer members to try than the call it is made in, so
that there are operators that satisfy them all: those the configuration gives.
What is proved of such an operator is proved by the least type, in depth, that it
could be wrong for.

`StmtRowsProofs`, about a statement's two ends.

- *ParamValues*, for Go values and types of any nesting: what making a value
  leaves alive, when it panics, and that what it makes is of the type that was
  asked for and reads as what the Go value says. Each is claimed of the value that
  is least deep among those it fails for, whose elements are then right
  (`CreateByParts`, `InferByParts`, `CreateMeans`, `InferMeans`). `MadeAsMeant` is
  the result for `bindValue`, `ValuesAreAsMeant`; before, the statement's theorems
  had assumed it.
- *StmtBind*, for any statements, argument lists and calls: an argument is the one
  that is meant (`ChosenIsMeant`; by `ListsAssumption` no list has a name or a
  number twice, so that the last match is the only one), an execution reads what
  was meant, and `bound` is never set over an empty slot. `RunsItsArguments` speaks
  of what ran; the invariant behind it (`SlotsInv`) follows the slots to that
  moment: what they hold belongs to the last list that was bound whole (`Follows`),
  and what an unresolved parameter holds has a type it may get from an execution
  (`UnresolvedSlots`), which is what keeps the values that were bound before in the
  type the parameter has afterwards.
- *StmtValues*: only elements stay alive, panics have a reason (`Harmless`): the
  parameter's type is nested, the argument is a nil `*big.Int`, or a method is called
  on a nil somewhere in it (`CallsOnNil`); and a type
  that is reported is the column's, by the least deep type: every part of it
  must be reportable, and every STRUCT or UNION member leaves one handle.
- *ResultScan*, for every result: the invariant (`ScanInv`) says that the rows given
  are those of the chunks before the current one plus the position in it, that
  `size` belongs to the current chunk, and that `closeChunk` says what is alive.
  Every step of `Next` then maps to a step of `RowCursor` or to a stutter
  (`Implements`, the safety part; `NextReturns` is liveness and stays with TLC).

Proving showed two places in the model where a CASE had more than one arm that is
true, of which TLA+ takes any: inference of a nil `*big.Int`, and JSON or an
unsupported type of a value that is a `driver.Valuer` too. The code tries one
before the other; the model now does so with an IF.

What the theorems assume. The named assumptions on the constants say what kinds of
values they are (`AppenderAssumption`, `ContextAssumption`, `QueryAssumption` and
so on), and TLC evaluates them on the instances. The larger ones are:

- `ChunksAssumption`, `TypesAssumption`, `ValuesAssumption` (ChunkWriter): a chunk's
  types are types as their constructors check them, of finite depth, and its values
  are made of values; leaf values are `Convertible`; and a Go map's keys stay
  different as keys of the column (`KeysDiffer`; two instants in one microsecond
  do not, and which of their values is read back is not determined).
- `ListsAssumption`, `ColumnsAssumption`, `ArgumentsAssumption` (StmtBind,
  StmtValues): the same of arguments, parameters and columns. They contain the
  equations of the operators that call themselves, so that TLC evaluates these on
  every type and value of the instance. `ArgumentsAssumption` also has that a leaf
  value reads back as it is meant, which `LeavesReadBack` proves for the
  `Convertible` ones.
- `Recursion` (ChunkWriterProofs), a hypothesis of the theorems about vectors: it
  speaks of all vectors, so TLC cannot evaluate it.
- `RefusedBeforeNull`, for three theorems about the appender, and
  `Panicking = {}`, for two about interrupts.

Every safety property that a passing run checks has a theorem. Model-checked only:
`CanceledCallReturns`, `AllFinish`, `NextReturns` and `ScanEnds`, which are liveness
under fairness; that BIGNUM comes back as it was; and that the definitions a
configuration ties to the operators that call themselves have an end, so that
there is something the equations speak of.

## 5. Findings

1. A panic in the wrapped function skips `close(done)` and the wait
   (`context.go:99`): the goroutine stays, and interrupts later calls on the
   connection. `README.md:34-41` of the repository describes the repaired
   behaviour, which this commit does not contain.
2. A row that is refused after one of its cells was set to NULL leaves that
   cell's validity bit cleared, and the next row written to the slot reads
   back as NULL there (`vector_setters.go:19-33`, `appender.go:301-308`).
3. `RowExecutor` keeps the context of the first execution in the plan's bind
   data (`scalar_udf.go:129`), so a prepared statement that is executed again
   runs in the context of its first execution, which may be cancelled by then.

Met while reading and modelling, without a run of their own:

- After an error, `recordReader.Retain` does nothing and `Release` still counts:
  a goroutine that retains and releases then closes the reader under its owner,
  whose `Err` becomes nil (`arrow.go:216`, `:231`, `:241`). `OnlySkippedRetainCloses`
  shows and proves that nothing else does.
- `setEnum` lists the signed internal types (`vector_setters.go:266`) where
  `initEnum` (`vector.go:380`) and `getEnum` have the unsigned ones: a value of an
  ENUM with more than 256 names is accepted and not written.
- `bound` is never cleared (`statement.go:487`): after a `Bind` that fails halfway,
  `ExecBound` runs a mix of two argument lists. `RunsItsArguments` sets this case
  aside (`told.whole`), `BoundMeansComplete` shows that no slot is empty in it.
- A nil `*big.Int` that is bound directly, or comes from a `driver.Valuer`, panics
  inside of the conversions (`statement.go:404`), where as an element it is an error
  (`types.go:178`) and behind a pointer a NULL (`value.go:215`). An element of another
  Go type than the parameter's panics (`value.go:113`), and so does a nil pointer
  to a type with a `Value` or `String` method of its own, like `(*UUID)(nil)`
  (`statement.go:381`, `value.go:262`). In `ExecContext` and `QueryContext` of a
  connection such a panic skips `prepared.Close()` (`connection.go:65`, `:94`) and
  leaves a native statement that nobody destroys (`StatementsOwned`).
- `setNumeric`, `setDecimal` and `numToBigInt` drop the scale of a number
  (`vector_setters.go:240`, `types.go:182`): it is stored as another one
  (`ScaleDropped`). An inferred `Decimal` becomes the VARCHAR of its `String`. A parameter without a type is typed by its
  first execution (`statement_test.go:702`), after which elements of another type,
  accepted before, panic.
- The values and types of a nested value's elements are never destroyed:
  `destroyValueSlice` and `destroyLogicalTypes` are deferred with the slices as they
  were when they were empty (`value.go:398`, `:407`, `:459`, `:487`; `type_info.go:452`,
  `:478`).
- A nil in a `[]any` has a type of its own, so that `[nil, "x"]` is refused as
  mixed, although `value.go:428` speaks of the first element that is not nil. The
  value of a `driver.Valuer` is inferred whatever the parameter's type is.
- A table function that is refused after it was pinned (`table_udf.go:402`), and a
  scalar function set whose connection closes before `Raw`, leave a native object
  and a handle behind (`HandlesOwned`, `Abandoned`).
- `FillRow` may fill a row and return false: the row is dropped (`table_udf.go:311`).
  The sources of `TableScan` return false without a row, as the tests' do.
- `Conn.Close` only disconnects (`connection.go:174`) and leaves held statements
  alive, where `README.md:105` of the repository describes a `Close` that destroys
  them; that README's other repairs (`TimestampInfinity`, `TypeInfo.Alias`) are not
  in this commit either.

## 6. Plan

What is left, in order of importance:

1. The appender's construction (`appender.go` 60-199: column subsets, the query
   appender), and with it which columns a row's values go to.
2. `Conn.Close` and `Connect` as their failures leave them, should the code come
   to own what it does not destroy today (the hazards without a property).

## 7. Not modelled

`profiling.go` is one recursive read of DuckDB's tree; `result.go` two accessors;
`errors.go` wording; `mapping/` and `arrowmapping/` aliases of generated bindings;
the DSN is string handling on the way to one native open. None of them keeps
state over several calls. Of `value.go`, UUID and INTERVAL values and `getValue`,
which reads a function's constant arguments back; of `type_info.go`, `Details`,
which copies a description's parts; of `replacement_scan.go`, the callback, which
forwards a name; of `table_udf.go`, the arguments' values and the columns' types,
which are data to the scan. Scanners (`UUID.Scan`, `Map.Scan`, `Composite.Scan`)
and the printing of decimals are conversions no other part relies on.
