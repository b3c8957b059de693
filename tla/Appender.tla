------------------------------- MODULE Appender -------------------------------
(***************************************************************************)
(* Appender.AppendRow, Flush and Close (src/appender.go) on top of the     *)
(* writable DataChunk (src/data_chunk.go) and the vectors' setters         *)
(* (src/vector_setters.go).                                                *)
(*                                                                         *)
(* AppendRow writes the values of a row into the next slot of the chunk,   *)
(* column by column, and counts the row when all are written.  A full      *)
(* chunk is handed to DuckDB's appender, which collects the rows and       *)
(* flushes them on its own threshold or when told to.  DuckDB's appender   *)
(* is external: a flush loads all collected rows or none, and an error     *)
(* invalidates it for good (errors.go:87).                                 *)
(***************************************************************************)
EXTENDS Naturals, Sequences

CONSTANTS
  Value,    \* the values of a column's type
  Null,     \* Go's nil
  Bad,      \* a value the column's setter refuses
  Default,  \* the value a cell holds before it is written
  Columns,  \* how many columns the table has
  Args,     \* the argument lists users pass to AppendRow
  Capacity, \* GetDataChunkCapacity()
  MaxRows   \* bound: how many rows are accepted

ASSUME AppenderAssumption ==
  /\ Columns \in Nat \ {0} /\ Capacity \in Nat \ {0} /\ MaxRows \in Nat
  /\ Default \in Value /\ Null \notin Value /\ Bad \notin Value \cup {Null}
  /\ Args \subseteq Seq(Value \cup {Null, Bad})

VARIABLES
  rowCount, \* Appender.rowCount
  chunk,    \* the cells of the chunk: a value, and the bit of the validity mask
  closed,   \* Appender.closed
  duck,     \* DuckDB's appender: "ok", "invalid" or "destroyed"
  pending,  \* the rows DuckDB's appender has collected
  table,    \* the rows in the table
  accepted, \* history: the rows of the AppendRow calls that returned nil
  reply     \* the last call, and whether it returned an error

vars == <<rowCount, chunk, closed, duck, pending, table, accepted, reply>>

Col == 1..Columns
Slot == 0..(Capacity - 1)
Row == [Col -> Value \cup {Null}]

\* DataChunkReset makes every row valid again.
EmptyChunk == [i \in Slot |-> [c \in Col |-> [val |-> Default, valid |-> TRUE]]]

Init ==
  /\ rowCount = 0
  /\ chunk = EmptyChunk
  /\ closed = FALSE
  /\ duck = "ok"
  /\ pending = <<>> /\ table = <<>> /\ accepted = <<>>
  /\ reply = <<"new", "ok">>

-----------------------------------------------------------------------------
\* The row DuckDB reads from a slot.
ReadRow(cells) == [c \in Col |-> IF cells[c].valid THEN cells[c].val ELSE Null]
Buffered == [i \in 1..rowCount |-> ReadRow(chunk[i - 1])]

\* One cell after its setter: nil clears the validity bit, a value is written
\* next to the bit.
SetCell(cell, v) == IF v = Null THEN [cell EXCEPT !.valid = FALSE]
                                ELSE [cell EXCEPT !.val = v]

\* SetValue for each argument in turn, up to the first that is refused.
SetRow(cells, args) ==
  [c \in Col |-> IF \E d \in 1..c : args[d] = Bad THEN cells[c]
                                                  ELSE SetCell(cells[c], args[c])]

\* Mutant: the chunk's validity mask survives.
StaleChunk == chunk

\* chunk.reset(true).
ResetChunk == EmptyChunk

\* Mutant: the rows handed over stay counted.
StillCounted == rowCount

\* a.rowCount = 0
Uncounted == 0

\* a.rowCount == GetDataChunkCapacity()
Full == rowCount = Capacity

\* The states appendDataChunk may leave, and whether it reports success.
Result(ok, rc, ch, d, p, t) ==
  [ok |-> ok, rowCount |-> rc, chunk |-> ch, duck |-> d, pending |-> p, table |-> t]
Same(ok, d) == Result(ok, rowCount, chunk, d, pending, table)
AppendDataChunk ==
  CASE rowCount = 0 -> {Same(TRUE, duck)}
    [] rowCount > 0 /\ duck = "ok" ->
         { Result(TRUE, Uncounted, ResetChunk, duck, pending \o Buffered, table),
           Result(TRUE, Uncounted, ResetChunk, duck, <<>>, table \o pending \o Buffered),
           Same(FALSE, "invalid") }
    [] OTHER -> {Same(FALSE, duck)}

\* AppenderFlush after appendDataChunk has left r.
AppenderFlush(r) ==
  IF r.duck = "ok"
    THEN { [r EXCEPT !.pending = <<>>, !.table = @ \o r.pending],
           [r EXCEPT !.ok = FALSE, !.duck = "invalid"] }
    ELSE { [r EXCEPT !.ok = FALSE] }

Become(r) == /\ rowCount' = r.rowCount /\ chunk' = r.chunk
             /\ duck' = r.duck /\ pending' = r.pending /\ table' = r.table
Answer(op, ok) == reply' = <<op, IF ok THEN "ok" ELSE "error">>

-----------------------------------------------------------------------------
\* AppendRow that appendRowSlice refuses before it touches the chunk, and
\* AppendRow after Close.
RefuseRow(args) ==
  /\ closed \/ Len(args) # Columns
  /\ Answer("append", FALSE)
  /\ UNCHANGED <<rowCount, chunk, closed, duck, pending, table, accepted>>

\* appendRowSlice: hand over a full chunk, write the values, count the row.
AppendRow(args) ==
  /\ ~closed /\ Len(args) = Columns /\ Len(accepted) < MaxRows
  /\ UNCHANGED closed
  /\ \E r \in IF Full THEN AppendDataChunk ELSE {Same(TRUE, duck)} :
       LET bad == \E c \in Col : args[c] = Bad
           written == [r EXCEPT !.chunk[r.rowCount] = SetRow(@, args)] IN
       \/ /\ ~r.ok
          /\ Become(r) /\ Answer("append", FALSE) /\ UNCHANGED accepted
       \/ /\ r.ok /\ bad
          /\ Become(written) /\ Answer("append", FALSE) /\ UNCHANGED accepted
       \/ /\ r.ok /\ ~bad
          /\ Become([written EXCEPT !.rowCount = @ + 1])
          /\ Answer("append", TRUE)
          /\ accepted' = Append(accepted, args)

\* Mutant: Flush forgets the rows in the chunk.
FlushCollected ==
  /\ \E f \in AppenderFlush(Same(TRUE, duck)) : Become(f) /\ Answer("flush", f.ok)
  /\ UNCHANGED <<closed, accepted>>

\* Flush reports the first of its two failures; it does not look at `closed`,
\* but a destroyed appender answers with an error.
Flush ==
  /\ \E r \in AppendDataChunk : \E f \in IF r.ok THEN AppenderFlush(r) ELSE {r} :
       Become(f) /\ Answer("flush", f.ok)
  /\ UNCHANGED <<closed, accepted>>

\* Close goes on to flush and destroy whatever fails before.
Close ==
  /\ ~closed
  /\ closed' = TRUE
  /\ \E r \in AppendDataChunk : \E f \in AppenderFlush(r) :
       Become([f EXCEPT !.duck = "destroyed"]) /\ Answer("close", f.ok)
  /\ UNCHANGED accepted

CloseAgain ==
  /\ closed
  /\ Answer("close", FALSE)
  /\ UNCHANGED <<rowCount, chunk, closed, duck, pending, table, accepted>>

Next == \/ \E args \in Args : RefuseRow(args) \/ AppendRow(args)
        \/ Flush \/ Close \/ CloseAgain

Spec == Init /\ [][Next]_vars

-----------------------------------------------------------------------------
\* appender.go:28-43 and 201-219: the Appender is a bulk load of the rows it
\* accepted; errors.go:87: an error invalidates what is not flushed yet.
Load == INSTANCE BulkLoad WITH
          state <- IF closed THEN "closed" ELSE IF duck = "ok" THEN "open" ELSE "failed"
ImplementsBulkLoad == Load!Spec

\* Every accepted row is in exactly one place, in order and with the values it
\* was accepted with: the table, DuckDB's collection or the chunk.
RowsConserved == duck = "ok" => table \o pending \o Buffered = accepted

\* Whatever fails, the table holds the first accepted rows.
TableIsPrefix == /\ Len(table) <= Len(accepted)
                 /\ table = SubSeq(accepted, 1, Len(table))
=============================================================================
