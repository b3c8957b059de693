----------------------------- MODULE ResultScan -----------------------------
(***************************************************************************)
(* rows.Next and rows.Close (src/rows.go) with the data chunk they keep    *)
(* (src/data_chunk.go): a position inside the current chunk, and a loop    *)
(* that drops a chunk that is used up and fetches the next one, empty      *)
(* chunks included.                                                        *)
(*                                                                         *)
(* The result itself is DuckDB's: any division of its rows into chunks.    *)
(* database/sql closes the rows after an error; a direct user of the       *)
(* driver may also call Next again, after the end and after an error.      *)
(***************************************************************************)
EXTENDS Naturals

\* chunks: their number; offset[c]: how many rows the first c chunks hold;
\* readable: every column has a type of the driver's.
CONSTANT Result

IsDivision(n, offset) ==
  /\ n \in Nat /\ offset \in [0..n -> Nat] /\ offset[0] = 0
  /\ \A c, d \in 0..n : c <= d => offset[c] <= offset[d]

ASSUME ResultAssumption ==
  \A r \in Result : IsDivision(r.chunks, r.offset) /\ r.readable \in BOOLEAN

VARIABLES
  result,     \* DuckDB's result
  fetched,    \* DuckDB: how many of its chunks were fetched
  live,       \* DuckDB: the chunks that are not destroyed
  pc,         \* where the reader's goroutine is: "user", or in "Next"
  open,       \* whether rows.Close was not called yet
  size,       \* rows.chunk.size
  rowCount,   \* rows.rowCount
  closeChunk, \* rows.closeChunk
  given,      \* history: how many rows were given
  row,        \* which row of the result the last one was
  answer      \* what Next answered last

duckdb == <<fetched, live>>
scan == <<size, rowCount, closeChunk>>
history == <<given, row, answer>>
scanVars == <<result, duckdb, pc, open, scan, history>>

Chunks == result.chunks
Offset == result.offset

TypeOK ==
  /\ result \in Result
  /\ fetched \in 0..Chunks
  /\ live \subseteq 1..Chunks
  /\ pc \in {"user", "Next"} /\ open \in BOOLEAN
  /\ size \in Nat /\ rowCount \in Nat /\ closeChunk \in BOOLEAN
  /\ given \in Nat /\ row \in Nat
  /\ answer \in {"none", "row", "eof", "error", "panic"}

ScanInit ==
  /\ result \in Result
  /\ fetched = 0 /\ live = {}
  /\ pc = "user" /\ open = TRUE
  /\ size = 0 /\ rowCount = 0 /\ closeChunk = FALSE
  /\ given = 0 /\ row = 0 /\ answer = "none"

CallNext ==
  /\ open /\ pc = "user" /\ pc' = "Next"
  /\ UNCHANGED <<result, duckdb, open, scan, history>>

\* Mutant: the loop is an if, so that it asks nothing of the chunk it fetched.
UsedUpOnce == rowCount = size /\ (closeChunk => rowCount > 0)

\* The loop goes on while the current chunk has no row left.
UsedUp == rowCount = size

\* Mutant: the flag is not cleared with the chunk.
FlagKept == closeChunk

\* Close the chunk that is used up.
FlagAfterClose == FALSE
CloseUsedUp ==
  /\ pc = "Next" /\ UsedUp /\ closeChunk
  /\ live' = live \ {fetched} /\ closeChunk' = FlagAfterClose
  /\ UNCHANGED <<result, fetched, pc, open, size, rowCount, history>>

\* FetchChunk has none: io.EOF.
FetchNone ==
  /\ pc = "Next" /\ UsedUp /\ ~closeChunk /\ fetched = Chunks
  /\ pc' = "user" /\ answer' = "eof"
  /\ UNCHANGED <<result, duckdb, open, scan, given, row>>

\* Mutant: the position survives into the next chunk.
PositionKept == rowCount

\* Mutant: the last row of a chunk is not counted.
SizeButOne(c) == Offset[c] - Offset[c - 1] - 1

\* DataChunk.GetSize
ChunkSize(c) == Offset[c] - Offset[c - 1]

\* FetchChunk, and initFromDuckDataChunk reads the chunk's size.
NewPosition == 0
Fetch ==
  /\ pc = "Next" /\ UsedUp /\ ~closeChunk /\ fetched < Chunks
  /\ fetched' = fetched + 1 /\ live' = live \cup {fetched + 1}
  /\ closeChunk' = TRUE
  /\ size' = ChunkSize(fetched + 1)
  /\ UNCHANGED <<result, open, given, row>>

FetchReadable ==
  /\ result.readable /\ Fetch
  /\ rowCount' = NewPosition
  /\ UNCHANGED <<pc, answer>>

\* A column's type is unknown: Next fails with the chunk's size in place, and
\* the position as it was.
FetchUnreadable ==
  /\ ~result.readable /\ Fetch
  /\ pc' = "user" /\ answer' = "error"
  /\ UNCHANGED rowCount

\* Read the row at the position in the current chunk.
GiveRow ==
  /\ pc = "Next" /\ ~UsedUp /\ result.readable
  /\ given' = given + 1 /\ row' = Offset[fetched - 1] + rowCount + 1
  /\ rowCount' = rowCount + 1
  /\ pc' = "user" /\ answer' = "row"
  /\ UNCHANGED <<result, duckdb, open, size, closeChunk>>

\* Next after an error: the column has no function to read it.
ReadUnreadable ==
  /\ pc = "Next" /\ ~UsedUp /\ ~result.readable
  /\ pc' = "user" /\ answer' = "panic"
  /\ UNCHANGED <<result, duckdb, open, scan, given, row>>

\* Mutant: Close leaves the current chunk to nobody.
LeaveChunk == live

\* rows.Close destroys the current chunk, if any, and the result.
AfterClose == IF closeChunk THEN live \ {fetched} ELSE live
CloseResult ==
  /\ open /\ pc = "user"
  /\ open' = FALSE /\ live' = AfterClose
  /\ UNCHANGED <<result, fetched, pc, scan, history>>

InNext ==
  CloseUsedUp \/ FetchNone \/ FetchReadable \/ FetchUnreadable \/ GiveRow \/ ReadUnreadable
ScanNext == CallNext \/ InNext \/ CloseResult

\* A Next that was called runs to its end.
ScanSpec == ScanInit /\ [][ScanNext]_scanVars /\ WF_scanVars(InNext)

-----------------------------------------------------------------------------
\* rows.go:59-86: whatever the division into chunks, empty ones included, the
\* reader gets the result's rows, each once and in order, and the end after the
\* last one: Next implements RowCursor.
Cursor == INSTANCE RowCursor WITH
  total <- Offset[Chunks], readable <- result.readable
ImplementsRowCursor == Cursor!Spec

\* rows.go:60-64 and 160-162: at most the current chunk is alive, none is once
\* the rows are closed.
ChunkOwned ==
  /\ live \subseteq {fetched}
  /\ ~open => live = {}

\* rows.go:77-84: a row is only ever read from a chunk that is alive, at a
\* position inside it.
ReadsLiveChunk == [][given' # given => fetched \in live /\ rowCount < size]_scanVars

\* rows.go:60-75: however many chunks are empty or used up, Next returns.
NextReturns == pc = "Next" ~> pc = "user"
=============================================================================
