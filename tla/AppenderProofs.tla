---------------------------- MODULE AppenderProofs ----------------------------
(***************************************************************************)
(* The Appender for any table, chunk capacity and argument lists: no row   *)
(* is lost, doubled or moved, and the only wrong value a refused row can   *)
(* leave is a NULL.  Where no argument list has a NULL before the value    *)
(* that is refused there is none, and the Appender is a bulk load.         *)
(***************************************************************************)
EXTENDS Appender, SequenceTheorems, TLAPS

\* No row is refused after one of its NULLs was set, as setNull clears a validity
\* bit that no setter sets again (src/appender.go:302-307, src/vector_setters.go:28).
RefusedBeforeNull ==
  \A args \in Args : \A c, d \in Col :
    Len(args) = Columns /\ args[c] = Null /\ args[d] = Bad => d < c
MayLose == ~RefusedBeforeNull

Cell == [val : Value, valid : BOOLEAN]
Chunk == [Slot -> [Col -> Cell]]
Duck == {"ok", "invalid", "destroyed"}

TypeOK ==
  /\ rowCount \in 0..Capacity /\ chunk \in Chunk
  /\ closed \in BOOLEAN /\ duck \in Duck
  /\ pending \in Seq(Row) /\ table \in Seq(Row) /\ accepted \in Seq(Row)

\* The rows in a chunk, and all rows that were not flushed away.
Held(rc, ch) == [i \in 1..rc |-> ReadRow(ch[i - 1])]
AllRows(t, p, rc, ch) == (t \o p) \o Held(rc, ch)

\* A row as it was accepted, or with a NULL too many.
SameRow(x, y) == \A c \in Col : x[c] = y[c] \/ (MayLose /\ x[c] = Null)
Faithful(s) == Len(s) <= Len(accepted) /\ \A i \in 1..Len(s) : SameRow(s[i], accepted[i])

\* The slots that are not counted yet are as DataChunkReset left them.
Fresh(rc, ch) == MayLose \/ \A i \in Slot : i >= rc => \A c \in Col : ch[i][c].valid

LoadInv ==
  /\ TypeOK
  /\ closed <=> duck = "destroyed"
  /\ duck = "ok" => /\ Len(AllRows(table, pending, rowCount, chunk)) = Len(accepted)
                    /\ Faithful(AllRows(table, pending, rowCount, chunk))
  /\ Faithful(table)
  /\ Fresh(rowCount, chunk)

-----------------------------------------------------------------------------
\* The rows DuckDB reads from a chunk.
LEMMA HeldTyped ==
  ASSUME NEW rc \in 0..Capacity, NEW ch \in Chunk
  PROVE  /\ Held(rc, ch) \in Seq(Row) /\ Len(Held(rc, ch)) = rc
         /\ \A i \in 1..rc : Held(rc, ch)[i] = ReadRow(ch[i - 1])
         /\ \A i \in Slot : ReadRow(ch[i]) \in Row
<1>1. Capacity \in Nat \ {0} /\ rc \in Nat
  BY AppenderAssumption
<1>2. \A i \in Slot : ReadRow(ch[i]) \in Row
  BY DEF Chunk, Cell, ReadRow, Row
<1>3. \A i \in 1..rc : i - 1 \in Slot
  BY <1>1 DEF Slot
<1> QED BY <1>1, <1>2, <1>3 DEF Held

\* An empty chunk holds no row.
LEMMA HeldNone == \A ch : Held(0, ch) = <<>>
BY DEF Held

\* All rows together are a sequence of rows.
LEMMA AllTyped ==
  ASSUME NEW t \in Seq(Row), NEW p \in Seq(Row), NEW rc \in 0..Capacity, NEW ch \in Chunk
  PROVE  /\ AllRows(t, p, rc, ch) \in Seq(Row) /\ t \o p \in Seq(Row)
         /\ Len(AllRows(t, p, rc, ch)) = Len(t) + Len(p) + rc
<1>1. Held(rc, ch) \in Seq(Row) /\ Len(Held(rc, ch)) = rc
  BY HeldTyped
<1>2. t \o p \in Seq(Row) /\ Len(t \o p) = Len(t) + Len(p)
  BY ConcatProperties
<1> DEFINE h == Held(rc, ch)
<1>3. AllRows(t, p, rc, ch) = (t \o p) \o h
  BY DEF AllRows
<1>4. Len(t) \in Nat /\ Len(p) \in Nat
  BY LenProperties
<1>5. h \in Seq(Row) /\ Len(h) = rc
  BY <1>1
<1> HIDE DEF h
<1>6. (t \o p) \o h \in Seq(Row) /\ Len((t \o p) \o h) = Len(t \o p) + Len(h)
  BY <1>2, <1>5, ConcatProperties
<1> QED BY <1>2, <1>3, <1>4, <1>5, <1>6

\* Nothing is loaded when the Appender is made, and no slot holds a NULL.
LEMMA InitLoads == Init => LoadInv
<1> SUFFICES ASSUME Init PROVE LoadInv OBVIOUS
<1>1. TypeOK
  <2>1. rowCount \in 0..Capacity /\ chunk \in Chunk
    BY AppenderAssumption DEF Init, EmptyChunk, Chunk, Cell
  <2>2. pending \in Seq(Row) /\ table \in Seq(Row) /\ accepted \in Seq(Row)
    BY EmptySeq DEF Init
  <2> QED BY <2>1, <2>2 DEF Init, TypeOK, Duck
<1>2. AllRows(table, pending, rowCount, chunk) = <<>>
  <2>1. table = <<>> /\ pending = <<>> /\ Held(rowCount, chunk) = <<>>
    BY HeldNone DEF Init
  <2> QED BY <2>1 DEF AllRows
<1>3. Faithful(<<>>)
  BY DEF Init, Faithful
<1>4. Fresh(rowCount, chunk)
  BY DEF Init, Fresh, EmptyChunk
<1> QED BY <1>1, <1>2, <1>3, <1>4 DEF Init, LoadInv

-----------------------------------------------------------------------------
\* What appendDataChunk and AppenderFlush may make of the Appender: all rows are
\* still there as long as DuckDB's appender is valid, and the table has gained
\* nothing or all of them.
All == AllRows(table, pending, rowCount, chunk)
ResultType ==
  [ok : BOOLEAN, rowCount : 0..Capacity, chunk : Chunk, duck : Duck, pending : Seq(Row), table : Seq(Row)]
GoodResult(r) ==
  /\ r \in ResultType
  /\ Fresh(r.rowCount, r.chunk)
  /\ r.duck = "ok" => r.ok /\ duck = "ok" /\ AllRows(r.table, r.pending, r.rowCount, r.chunk) = All
  /\ r.table = table \/ (duck = "ok" /\ r.table = All)

\* The Appender as it stands is such a result.
LEMMA AsItStands ==
  ASSUME LoadInv, NEW ok \in BOOLEAN, NEW d \in Duck, d = "ok" => ok /\ duck = "ok"
  PROVE  GoodResult(Same(ok, d))
BY DEF LoadInv, TypeOK, GoodResult, ResultType, Same, Result, All

\* appendDataChunk hands over all rows of the chunk, or none and fails.
LEMMA HandsOver ==
  ASSUME LoadInv, NEW r \in AppendDataChunk
  PROVE  /\ GoodResult(r) /\ (r.ok => r.rowCount = 0)
         /\ r.duck = "destroyed" <=> duck = "destroyed"
         /\ r.duck = duck \/ (duck = "ok" /\ r.duck = "invalid" /\ ~r.ok)
<1> USE DEF LoadInv, TypeOK
<1> DEFINE h == Held(rowCount, chunk)
<1>0. /\ h \in Seq(Row) /\ Buffered = h /\ table \o pending \in Seq(Row) /\ pending \o h \in Seq(Row)
      /\ All = (table \o pending) \o h /\ All \in Seq(Row)
  <2>1. h \in Seq(Row) /\ Buffered = h
    BY HeldTyped DEF Held, Buffered
  <2>2. table \o pending \in Seq(Row) /\ pending \o h \in Seq(Row)
    BY <2>1, ConcatProperties
  <2> QED BY <2>1, <2>2, ConcatProperties DEF All, AllRows
<1>1. CASE r = Same(TRUE, duck) /\ rowCount = 0
  <2>1. GoodResult(r)
    BY <1>1, AsItStands
  <2> QED BY <1>1, <2>1 DEF Same, Result
<1>2. CASE r = Same(FALSE, "invalid") /\ duck = "ok"
  <2>1. GoodResult(r)
    BY <1>2, AsItStands DEF Duck
  <2> QED BY <1>2, <2>1 DEF Same, Result
<1>3. CASE r = Same(FALSE, duck) /\ duck # "ok"
  <2>1. GoodResult(r)
    BY <1>3, AsItStands
  <2> QED BY <1>3, <2>1 DEF Same, Result
<1>4. ResetChunk \in Chunk /\ Fresh(0, ResetChunk)
  BY AppenderAssumption DEF ResetChunk, EmptyChunk, Chunk, Cell, Fresh
<1>5. ASSUME duck = "ok", NEW t \in Seq(Row), NEW p \in Seq(Row), r = Result(TRUE, 0, ResetChunk, duck, p, t),
             t \o p = All, t = table \/ t = All
      PROVE  GoodResult(r)
  <2>1. r \in ResultType
    BY <1>4, <1>5, AppenderAssumption DEF ResultType, Result, Duck
  <2>2. AllRows(r.table, r.pending, r.rowCount, r.chunk) = All
    <3>1. AllRows(t, p, 0, ResetChunk) = All \o <<>>
      BY <1>5, HeldNone DEF AllRows
    <3>2. All \o <<>> = All
      BY <1>0, ConcatEmptySeq
    <3> QED BY <1>5, <3>1, <3>2 DEF Result
  <2> QED BY <1>4, <1>5, <2>1, <2>2 DEF GoodResult, Result
<1>6. CASE duck = "ok" /\ r = Result(TRUE, Uncounted, ResetChunk, duck, pending \o Buffered, table)
  <2>1. table \o (pending \o h) = All
    BY <1>0, ConcatAssociative
  <2>2. GoodResult(r)
    BY <1>0, <1>5, <1>6, <2>1 DEF Uncounted
  <2> QED BY <1>6, <2>2 DEF Result, Uncounted
<1>7. CASE duck = "ok" /\ r = Result(TRUE, Uncounted, ResetChunk, duck, <<>>, table \o pending \o Buffered)
  <2>1. All \o <<>> = All /\ <<>> \in Seq(Row)
    BY <1>0, ConcatEmptySeq, EmptySeq
  <2>2. GoodResult(r)
    BY <1>0, <1>5, <1>7, <2>1 DEF Uncounted
  <2> QED BY <1>7, <2>2 DEF Result, Uncounted
<1>8. CASE rowCount = 0
  <2>1. ~(rowCount > 0)
    BY <1>8
  <2>2. AppendDataChunk = {Same(TRUE, duck)}
    BY <1>8, <2>1, Zenon DEF AppendDataChunk
  <2> QED BY <1>1, <1>8, <2>2
<1>9. CASE rowCount # 0
  <2>1. rowCount > 0
    BY <1>9, AppenderAssumption
  <2>2. CASE duck = "ok"
    <3>1. AppendDataChunk =
            { Result(TRUE, Uncounted, ResetChunk, duck, pending \o Buffered, table),
              Result(TRUE, Uncounted, ResetChunk, duck, <<>>, table \o pending \o Buffered),
              Same(FALSE, "invalid") }
      BY <1>9, <2>1, <2>2, Zenon DEF AppendDataChunk
    <3> QED BY <1>2, <1>6, <1>7, <2>2, <3>1
  <2>3. CASE duck # "ok"
    <3>1. AppendDataChunk = {Same(FALSE, duck)}
      BY <1>9, <2>3 DEF AppendDataChunk
    <3> QED BY <1>3, <2>3, <3>1
  <2> QED BY <2>2, <2>3
<1> QED BY <1>8, <1>9

\* AppenderFlush loads all that was collected, or fails.
LEMMA Flushes ==
  ASSUME LoadInv, NEW r \in AppendDataChunk, NEW f \in AppenderFlush(r)
  PROVE  /\ GoodResult(f) /\ (f.ok => duck = "ok" /\ f.duck = "ok" /\ f.table = All)
         /\ f.duck = "destroyed" <=> duck = "destroyed"
         /\ f.duck = duck \/ (duck = "ok" /\ f.duck = "invalid")
<1>1. /\ GoodResult(r) /\ r \in ResultType /\ (r.ok => r.rowCount = 0)
      /\ r.duck = "destroyed" <=> duck = "destroyed"
      /\ r.duck = duck \/ (duck = "ok" /\ r.duck = "invalid")
  BY HandsOver DEF GoodResult
<1>2. CASE r.duck = "ok" /\ f = [r EXCEPT !.pending = <<>>, !.table = @ \o r.pending]
  <2>1. r.rowCount = 0 /\ duck = "ok" /\ AllRows(r.table, r.pending, r.rowCount, r.chunk) = All
    BY <1>1, <1>2 DEF GoodResult
  <2>2. r.table \o r.pending \in Seq(Row) /\ <<>> \in Seq(Row)
    BY <1>1, ConcatProperties, EmptySeq DEF ResultType
  <2>3. (r.table \o r.pending) \o <<>> = r.table \o r.pending
    BY <2>2, ConcatEmptySeq
  <2>4. r.table \o r.pending = All
    BY <2>1, <2>3, HeldNone DEF AllRows
  <2>5. /\ f.pending = <<>> /\ f.table = r.table \o r.pending /\ f.ok = r.ok /\ f.duck = r.duck
        /\ f.rowCount = r.rowCount /\ f.chunk = r.chunk /\ f \in ResultType
    BY <1>1, <1>2, <2>2 DEF ResultType
  <2>6. AllRows(f.table, f.pending, f.rowCount, f.chunk) = All
    BY <2>1, <2>2, <2>3, <2>4, <2>5, HeldNone DEF AllRows
  <2>7. r.ok /\ (r.table = table \/ r.table = All) /\ Fresh(r.rowCount, r.chunk)
    BY <1>1, <1>2 DEF GoodResult
  <2>8. f.table = All /\ f.ok /\ f.duck = "ok"
    BY <1>2, <2>4, <2>5, <2>7
  <2>9. GoodResult(f)
    BY <2>1, <2>5, <2>6, <2>7, <2>8 DEF GoodResult
  <2> QED BY <1>2, <2>1, <2>8, <2>9
<1>3. CASE r.duck = "ok" /\ f = [r EXCEPT !.ok = FALSE, !.duck = "invalid"]
  <2>1. /\ f.pending = r.pending /\ f.table = r.table /\ f.ok = FALSE /\ f.duck = "invalid"
        /\ f.rowCount = r.rowCount /\ f.chunk = r.chunk /\ f \in ResultType
    BY <1>1, <1>3 DEF ResultType, Duck
  <2> QED BY <1>1, <1>3, <2>1 DEF GoodResult
<1>4. CASE r.duck # "ok" /\ f = [r EXCEPT !.ok = FALSE]
  <2>1. /\ f.pending = r.pending /\ f.table = r.table /\ f.ok = FALSE /\ f.duck = r.duck
        /\ f.rowCount = r.rowCount /\ f.chunk = r.chunk /\ f \in ResultType
    BY <1>1, <1>4 DEF ResultType
  <2> QED BY <1>1, <1>4, <2>1 DEF GoodResult
<1> QED BY <1>2, <1>3, <1>4 DEF AppenderFlush

\* The Appender becomes such a result.
LEMMA Becomes ==
  ASSUME LoadInv, NEW r, GoodResult(r), Become(r), accepted' = accepted, closed' \in BOOLEAN,
         closed' <=> r.duck = "destroyed"
  PROVE  LoadInv'
<1> USE DEF LoadInv
<1>1. TypeOK'
  BY DEF GoodResult, ResultType, Become, TypeOK
<1>2. ASSUME NEW s, Faithful(s) PROVE Faithful(s)'
  BY <1>2 DEF Faithful
<1>3. Faithful(table)'
  BY DEF GoodResult, Become, Faithful, All
<1>4. duck' = "ok" => /\ Len(AllRows(table, pending, rowCount, chunk)') = Len(accepted')
                      /\ Faithful(AllRows(table, pending, rowCount, chunk))'
  <2>1. AllRows(table, pending, rowCount, chunk)' = AllRows(r.table, r.pending, r.rowCount, r.chunk)
    BY DEF Become, AllRows
  <2> QED BY <2>1 DEF GoodResult, Become, Faithful, All
<1>5. Fresh(rowCount, chunk)'
  BY DEF GoodResult, Become, Fresh
<1>6. closed' <=> duck' = "destroyed"
  BY DEF Become
<1> QED BY <1>1, <1>3, <1>4, <1>5, <1>6

-----------------------------------------------------------------------------
\* The chunk after SetValue for each argument.
Written(ch, rc, args) == [ch EXCEPT ![rc] = SetRow(@, args)]

\* A setter's effect on one cell.
LEMMA SetsCell ==
  ASSUME NEW cell \in Cell, NEW v \in Value \cup {Null}
  PROVE  /\ SetCell(cell, v) \in Cell
         /\ SetCell(cell, v).valid = (v # Null /\ cell.valid)
         /\ v # Null => SetCell(cell, v).val = v
BY AppenderAssumption DEF SetCell, Cell

\* Setting the values of a row in a slot that is not counted yet leaves the counted
\* rows alone, and the NULLs of a refused row are taken back.
LEMMA WritesSlot ==
  ASSUME NEW rc \in Slot, NEW ch \in Chunk, NEW args \in Args, Len(args) = Columns
  PROVE  /\ Written(ch, rc, args) \in Chunk
         /\ Held(rc, Written(ch, rc, args)) = Held(rc, ch)
         /\ \A i \in Slot : i # rc => Written(ch, rc, args)[i] = ch[i]
         /\ \A c \in Col :
              Written(ch, rc, args)[rc][c] = IF \E d \in 1..c : args[d] = Bad THEN ch[rc][c]
                                             ELSE SetCell(ch[rc][c], args[c])
         /\ (\E c \in Col : args[c] = Bad) /\ Fresh(rc, ch) => Fresh(rc, Written(ch, rc, args))
<1> DEFINE w == Written(ch, rc, args)
<1>1. Capacity \in Nat /\ rc \in 0..Capacity /\ rc \in Nat /\ rc < Capacity
  BY AppenderAssumption DEF Slot
<1>2. \A c \in Col : args[c] \in Value \cup {Null, Bad} /\ ch[rc][c] \in Cell
  BY AppenderAssumption DEF Col, Chunk
<1>3. \A c \in Col : SetRow(ch[rc], args)[c] = IF \E d \in 1..c : args[d] = Bad THEN ch[rc][c]
                                               ELSE SetCell(ch[rc][c], args[c])
  BY DEF SetRow
<1>4. \A c \in Col : c \in 1..c
  BY AppenderAssumption DEF Col
<1>5. SetRow(ch[rc], args) \in [Col -> Cell]
  <2>1. \A c \in Col : SetRow(ch[rc], args)[c] \in Cell
    BY <1>2, <1>3, <1>4, SetsCell
  <2> QED BY <2>1 DEF SetRow
<1>6. /\ w \in Chunk /\ w[rc] = SetRow(ch[rc], args)
      /\ \A i \in Slot : i # rc => w[i] = ch[i]
  BY <1>5 DEF Chunk, Written
<1> HIDE DEF w
<1>7. Held(rc, w) = Held(rc, ch)
  <2>1. \A i \in 1..rc : w[i - 1] = ch[i - 1]
    BY <1>1, <1>6 DEF Slot
  <2> QED BY <2>1 DEF Held
<1>8. ASSUME NEW e \in Col, args[e] = Bad, Fresh(rc, ch), ~MayLose, NEW c \in Col
       PROVE  w[rc][c].valid
  <2>1. ch[rc][c].valid
    BY <1>1, <1>8 DEF Fresh
  <2>2. CASE \E d \in 1..c : args[d] = Bad
    BY <1>3, <1>6, <2>1, <2>2
  <2>3. CASE ~\E d \in 1..c : args[d] = Bad
    <3>1. args[c] # Bad /\ ~(e < c)
      BY <1>4, <2>3, <1>8, AppenderAssumption DEF Col
    <3>2. args[c] # Null
      BY <1>8, <3>1 DEF MayLose, RefusedBeforeNull
    <3>3. SetCell(ch[rc][c], args[c]).valid = (args[c] # Null /\ ch[rc][c].valid)
      BY <1>2, <3>1, SetsCell
    <3> QED BY <1>3, <1>6, <2>1, <2>3, <3>2, <3>3
  <2> QED BY <2>2, <2>3
<1>9. (\E c \in Col : args[c] = Bad) /\ Fresh(rc, ch) => Fresh(rc, w)
  BY <1>6, <1>8 DEF Fresh
<1> QED BY <1>3, <1>6, <1>7, <1>9 DEF w

\* A row that is not refused is what DuckDB then reads, but for a NULL that was
\* there before.
LEMMA FillsSlot ==
  ASSUME NEW rc \in Slot, NEW ch \in Chunk, NEW args \in Args, Len(args) = Columns,
         ~(\E c \in Col : args[c] = Bad), Fresh(rc, ch)
  PROVE  /\ args \in Row /\ ReadRow(Written(ch, rc, args)[rc]) \in Row
         /\ Held(rc + 1, Written(ch, rc, args)) = Append(Held(rc, ch), ReadRow(Written(ch, rc, args)[rc]))
         /\ Fresh(rc + 1, Written(ch, rc, args)) /\ SameRow(ReadRow(Written(ch, rc, args)[rc]), args)
<1> DEFINE w == Written(ch, rc, args)
<1>1. Capacity \in Nat /\ rc \in 0..Capacity /\ rc + 1 \in 0..Capacity /\ rc \in Nat
  BY AppenderAssumption DEF Slot
<1>2. \A c \in Col : args[c] \in Value \cup {Null} /\ ch[rc][c] \in Cell
  BY AppenderAssumption DEF Col, Chunk
<1>3. /\ w \in Chunk /\ Held(rc, w) = Held(rc, ch)
      /\ \A i \in Slot : i # rc => w[i] = ch[i]
  BY WritesSlot
<1>4. \A c \in Col : w[rc][c] = SetCell(ch[rc][c], args[c])
  <2>1. \A c \in Col : 1..c \subseteq Col
    BY AppenderAssumption DEF Col
  <2> QED BY <2>1, WritesSlot
<1> HIDE DEF w
<1>5. args \in Row
  BY <1>2, AppenderAssumption DEF Row, Col
<1>6. ReadRow(w[rc]) \in Row
  BY <1>1, <1>3, HeldTyped
<1>7. Held(rc + 1, w) = Append(Held(rc, ch), ReadRow(w[rc]))
  <2>1. /\ Held(rc, ch) \in Seq(Row) /\ Len(Held(rc, ch)) = rc
        /\ Held(rc + 1, w) \in Seq(Row) /\ Len(Held(rc + 1, w)) = rc + 1
    BY <1>1, <1>3, HeldTyped
  <2>2. \A i \in 1..(rc + 1) : Held(rc + 1, w)[i] = ReadRow(w[i - 1])
    BY DEF Held
  <2>3. \A i \in 1..rc : Held(rc, ch)[i] = ReadRow(w[i - 1])
    BY <1>3 DEF Held
  <2>4. rc + 1 \in 1..(rc + 1) /\ (rc + 1) - 1 = rc /\ \A i \in 1..rc : i \in 1..(rc + 1)
    BY <1>1
  <2>5. Held(rc + 1, w)[rc + 1] = ReadRow(w[rc])
    BY <2>2, <2>4
  <2>6. \A i \in 1..rc : Held(rc + 1, w)[i] = Held(rc, ch)[i]
    BY <2>2, <2>3, <2>4, Zenon
  <2> DEFINE h == Held(rc, ch)
             h1 == Held(rc + 1, w)
             x == ReadRow(w[rc])
  <2>7. /\ h \in Seq(Row) /\ Len(h) = rc /\ h1 \in Seq(Row) /\ Len(h1) = rc + 1
        /\ h1[rc + 1] = x /\ \A i \in 1..rc : h1[i] = h[i]
    BY <2>1, <2>5, <2>6
  <2> HIDE DEF h, h1, x
  <2>8. h1 = Append(h, x)
    BY <1>1, <2>7
  <2> QED BY <2>8 DEF h, h1, x
<1>8. Fresh(rc + 1, w)
  BY <1>1, <1>3 DEF Fresh, Slot
<1>9. ASSUME NEW c \in Col
      PROVE  ReadRow(w[rc])[c] = args[c] \/ (MayLose /\ ReadRow(w[rc])[c] = Null)
  <2>1. ReadRow(w[rc])[c] = IF w[rc][c].valid THEN w[rc][c].val ELSE Null
    BY DEF ReadRow
  <2>2. MayLose \/ ch[rc][c].valid
    BY <1>1 DEF Fresh
  <2>3. /\ SetCell(ch[rc][c], args[c]).valid = (args[c] # Null /\ ch[rc][c].valid)
        /\ args[c] # Null => SetCell(ch[rc][c], args[c]).val = args[c]
    BY <1>2, SetsCell
  <2> QED BY <1>4, <2>1, <2>2, <2>3
<1> QED BY <1>5, <1>6, <1>7, <1>8, <1>9 DEF SameRow, w

-----------------------------------------------------------------------------
\* AppendRow goes on with a result whose next slot is free.
LEMMA MakesRoom ==
  ASSUME LoadInv, NEW r \in IF Full THEN AppendDataChunk ELSE {Same(TRUE, duck)}
  PROVE  /\ GoodResult(r) /\ (r.ok => r.rowCount \in Slot)
         /\ r.duck = "destroyed" <=> duck = "destroyed"
         /\ r.duck = duck \/ (duck = "ok" /\ r.duck = "invalid" /\ ~r.ok)
<1>1. CASE Full
  <2>1. 0 \in Slot
    BY AppenderAssumption DEF Slot
  <2> QED BY <1>1, <2>1, HandsOver
<1>2. CASE ~Full
  <2>1. r = Same(TRUE, duck) /\ duck \in Duck
    BY <1>2 DEF LoadInv, TypeOK
  <2>2. GoodResult(r)
    BY <2>1, AsItStands
  <2>3. r.rowCount = rowCount /\ r.duck = duck
    BY <2>1 DEF Same, Result
  <2>4. rowCount \in Slot
    BY <1>2, AppenderAssumption DEF LoadInv, TypeOK, Full, Slot
  <2> QED BY <2>2, <2>3, <2>4
<1> QED BY <1>1, <1>2

\* A refused row is not counted, whatever was written of it.
LEMMA RefusedWrite ==
  ASSUME LoadInv, NEW r, GoodResult(r), r.rowCount \in Slot, NEW args \in Args,
         Len(args) = Columns, \E c \in Col : args[c] = Bad
  PROVE  GoodResult([r EXCEPT !.chunk[r.rowCount] = SetRow(@, args)])
<1> DEFINE w == Written(r.chunk, r.rowCount, args)
           q == [r EXCEPT !.chunk[r.rowCount] = SetRow(@, args)]
<1>1. r \in ResultType /\ r.chunk \in Chunk
  BY DEF GoodResult, ResultType
<1>2. /\ w \in Chunk /\ Held(r.rowCount, w) = Held(r.rowCount, r.chunk)
      /\ Fresh(r.rowCount, r.chunk) => Fresh(r.rowCount, w)
  BY <1>1, WritesSlot
<1>3. q = [r EXCEPT !.chunk = w]
  BY <1>1 DEF ResultType, Written
<1> HIDE DEF w, q
<1>4. /\ q \in ResultType /\ q.ok = r.ok /\ q.rowCount = r.rowCount /\ q.chunk = w /\ q.duck = r.duck
      /\ q.pending = r.pending /\ q.table = r.table
  BY <1>1, <1>2, <1>3 DEF ResultType
<1>5. AllRows(q.table, q.pending, q.rowCount, q.chunk) = AllRows(r.table, r.pending, r.rowCount, r.chunk)
  BY <1>2, <1>4 DEF AllRows
<1>6. GoodResult(q)
  BY <1>2, <1>4, <1>5 DEF GoodResult
<1> QED BY <1>6 DEF q

\* A row that is accepted comes after all others.
LEMMA AcceptedWrite ==
  ASSUME LoadInv, NEW r, GoodResult(r), r.rowCount \in Slot, NEW args \in Args,
         Len(args) = Columns, ~(\E c \in Col : args[c] = Bad),
         Become([[r EXCEPT !.chunk[r.rowCount] = SetRow(@, args)] EXCEPT !.rowCount = @ + 1]),
         accepted' = Append(accepted, args), closed' \in BOOLEAN, closed' <=> r.duck = "destroyed"
  PROVE  LoadInv' /\ args \in Row /\ table' = r.table /\ duck' = r.duck
<1> USE DEF LoadInv
<1> DEFINE n == r.rowCount
           w == Written(r.chunk, r.rowCount, args)
           x == ReadRow(w[n])
<1>1. r \in ResultType /\ r.chunk \in Chunk
  BY DEF GoodResult, ResultType
<1>2. /\ w \in Chunk /\ args \in Row /\ x \in Row
      /\ Held(n + 1, w) = Append(Held(n, r.chunk), x)
      /\ Fresh(n + 1, w) /\ SameRow(x, args)
  <2>1. Fresh(n, r.chunk) /\ n \in Slot
    BY DEF GoodResult
  <2>2. w \in Chunk
    BY <1>1, <2>1, WritesSlot
  <2>3. /\ args \in Row /\ ReadRow(w[n]) \in Row
        /\ Held(n + 1, w) = Append(Held(n, r.chunk), ReadRow(w[n]))
        /\ Fresh(n + 1, w) /\ SameRow(ReadRow(w[n]), args)
    BY <1>1, <2>1, FillsSlot
  <2> QED BY <2>2, <2>3
<1>3. /\ rowCount' = n + 1 /\ chunk' = w /\ duck' = r.duck /\ pending' = r.pending /\ table' = r.table
  BY <1>1 DEF Become, ResultType, Written
<1> HIDE DEF n, w, x
<1>4. n + 1 \in 0..Capacity /\ n \in 0..Capacity
  BY AppenderAssumption DEF Slot, n
<1>5. accepted \in Seq(Row) /\ accepted' \in Seq(Row) /\ Len(accepted') = Len(accepted) + 1
      /\ Len(accepted) \in Nat /\ accepted'[Len(accepted) + 1] = args
      /\ \A i \in 1..Len(accepted) : accepted'[i] = accepted[i]
  BY <1>2, AppendProperties, LenProperties DEF TypeOK
<1>6. TypeOK'
  <2>1. r.duck \in Duck /\ r.pending \in Seq(Row) /\ r.table \in Seq(Row)
    BY <1>1 DEF ResultType
  <2> QED BY <1>2, <1>3, <1>4, <1>5, <2>1 DEF TypeOK
<1>7. ASSUME NEW s, Len(s) \in Nat, Faithful(s) PROVE Faithful(s)'
  BY <1>5, <1>7 DEF Faithful
<1>8. All \in Seq(Row) /\ Len(All) \in Nat /\ table \in Seq(Row) /\ Len(table) \in Nat
  BY AllTyped, LenProperties DEF TypeOK, All
<1>9. Faithful(table)'
  <2>1. r.table = table \/ (r.table = All /\ Faithful(All))
    BY DEF GoodResult, All
  <2> QED BY <1>3, <1>7, <1>8, <2>1 DEF Faithful
<1>10. ASSUME duck' = "ok"
       PROVE  /\ Len(AllRows(table, pending, rowCount, chunk)') = Len(accepted')
              /\ Faithful(AllRows(table, pending, rowCount, chunk))'
  <2>1. AllRows(r.table, r.pending, n, r.chunk) = All /\ Len(All) = Len(accepted) /\ Faithful(All)
    BY <1>3, <1>10 DEF GoodResult, All, n
  <2>2. /\ r.table \o r.pending \in Seq(Row)
        /\ Held(n, r.chunk) \in Seq(Row)
    BY <1>1, <1>4, ConcatProperties, HeldTyped DEF ResultType
  <2>3. (r.table \o r.pending) \o Append(Held(n, r.chunk), x) = Append(All, x)
    <3> DEFINE h == Held(n, r.chunk)
               u == r.table \o r.pending
    <3>1. h \in Seq(Row) /\ u \in Seq(Row) /\ x \in Row /\ All = u \o h
      BY <1>2, <2>1, <2>2 DEF AllRows
    <3> HIDE DEF h, u
    <3>2. Append(h, x) = h \o <<x>> /\ <<x>> \in Seq(Row) /\ Append(u \o h, x) = (u \o h) \o <<x>>
      BY <3>1, AppendIsConcat, ConcatProperties
    <3>3. (u \o h) \o <<x>> = u \o (h \o <<x>>)
      BY <3>1, <3>2, ConcatAssociative
    <3>4. u \o Append(h, x) = Append(u \o h, x)
      BY <3>2, <3>3
    <3> QED BY <3>1, <3>4 DEF h, u
  <2>4. AllRows(table, pending, rowCount, chunk)' = Append(All, x)
    BY <1>2, <1>3, <2>3 DEF AllRows
  <2>5. /\ Len(Append(All, x)) = Len(All) + 1 /\ Append(All, x)[Len(All) + 1] = x
        /\ \A i \in 1..Len(All) : Append(All, x)[i] = All[i]
    BY <1>2, <1>8, AppendProperties
  <2>6. ASSUME NEW i \in 1..Len(Append(All, x))
        PROVE  SameRow(Append(All, x)[i], accepted'[i])
    <3>1. CASE i \in 1..Len(All)
      BY <1>5, <2>1, <2>5, <3>1 DEF Faithful
    <3>2. CASE i = Len(All) + 1
      BY <1>2, <1>5, <2>1, <2>5, <3>2
    <3>3. i \in 1..Len(All) \/ i = Len(All) + 1
      <4>1. i \in 1..(Len(All) + 1)
        BY <2>5
      <4> QED BY <1>8, <4>1
    <3> QED BY <3>1, <3>2, <3>3
  <2>7. Len(Append(All, x)) = Len(accepted') /\ Len(accepted') \in Nat
    BY <1>5, <2>1, <2>5
  <2> QED BY <2>4, <2>6, <2>7 DEF Faithful
<1>11. Fresh(rowCount, chunk)'
  BY <1>2, <1>3 DEF Fresh
<1>12. closed' <=> duck' = "destroyed"
  BY <1>3
<1>13. LoadInv'
  BY <1>6, <1>9, <1>10, <1>11, <1>12
<1> QED BY <1>2, <1>3, <1>13

-----------------------------------------------------------------------------
\* What Flush makes of the Appender.
LEMMA FlushMakes ==
  ASSUME LoadInv, Flush
  PROVE  \E f : /\ GoodResult(f) /\ Become(f) /\ Answer("flush", f.ok) /\ UNCHANGED <<closed, accepted>>
                /\ f.ok => duck = "ok" /\ f.duck = "ok" /\ f.table = All
                /\ f.duck = "destroyed" <=> duck = "destroyed"
                /\ f.duck = duck \/ (duck = "ok" /\ f.duck = "invalid" /\ ~f.ok)
<1>1. PICK r \in AppendDataChunk : \E f \in IF r.ok THEN AppenderFlush(r) ELSE {r} :
             Become(f) /\ Answer("flush", f.ok)
  BY DEF Flush
<1>2. PICK f \in IF r.ok THEN AppenderFlush(r) ELSE {r} : Become(f) /\ Answer("flush", f.ok)
  BY <1>1
<1>3. UNCHANGED <<closed, accepted>>
  BY DEF Flush
<1>4. CASE r.ok
  BY <1>2, <1>3, <1>4, Flushes
<1>5. CASE ~r.ok
  BY <1>2, <1>3, <1>5, HandsOver
<1> QED BY <1>4, <1>5

\* What Close makes of it.
LEMMA CloseMakes ==
  ASSUME LoadInv, Close
  PROVE  \E f : /\ GoodResult(f) /\ Become(f) /\ f.duck = "destroyed" /\ ~closed /\ closed' = TRUE
                /\ UNCHANGED accepted
                /\ \E ok \in BOOLEAN : Answer("close", ok) /\ (ok => duck = "ok" /\ f.table = All)
<1>1. PICK r \in AppendDataChunk : \E f \in AppenderFlush(r) :
             Become([f EXCEPT !.duck = "destroyed"]) /\ Answer("close", f.ok)
  BY DEF Close
<1>2. PICK f \in AppenderFlush(r) : Become([f EXCEPT !.duck = "destroyed"]) /\ Answer("close", f.ok)
  BY <1>1
<1>3. GoodResult(f) /\ f \in ResultType /\ (f.ok => duck = "ok" /\ f.table = All)
  BY Flushes DEF GoodResult
<1> DEFINE q == [f EXCEPT !.duck = "destroyed"]
<1>4. /\ q \in ResultType /\ q.ok = f.ok /\ q.rowCount = f.rowCount /\ q.chunk = f.chunk
      /\ q.duck = "destroyed" /\ q.pending = f.pending /\ q.table = f.table /\ f.ok \in BOOLEAN
  BY <1>3 DEF ResultType, Duck
<1>5. Become(q)
  BY <1>2
<1> HIDE DEF q
<1>6. GoodResult(q)
  BY <1>3, <1>4 DEF GoodResult
<1>7. ~closed /\ closed' = TRUE /\ UNCHANGED accepted
  BY DEF Close
<1> QED BY <1>2, <1>3, <1>4, <1>5, <1>6, <1>7

\* What AppendRow makes of it: a result that was counted as the next row, or not.
LEMMA AppendMakes ==
  ASSUME LoadInv, NEW args \in Args, AppendRow(args)
  PROVE  \/ /\ Answer("append", FALSE) /\ UNCHANGED <<closed, accepted>>
            /\ \E r : /\ GoodResult(r) /\ Become(r)
                      /\ r.duck = "destroyed" <=> duck = "destroyed"
                      /\ r.duck = duck \/ (duck = "ok" /\ r.duck = "invalid")
         \/ /\ LoadInv' /\ Answer("append", TRUE) /\ UNCHANGED <<closed, duck>> /\ ~closed
            /\ args \in Row /\ accepted' = Append(accepted, args)
            /\ table' = table \/ (duck = "ok" /\ table' = All)
<1> DEFINE bad == \E c \in Col : args[c] = Bad
           w(r) == [r EXCEPT !.chunk[r.rowCount] = SetRow(@, args)]
<1>1. ~closed /\ Len(args) = Columns /\ closed' = closed /\ closed \in BOOLEAN
  BY DEF AppendRow, LoadInv, TypeOK
<1>2. PICK r \in IF Full THEN AppendDataChunk ELSE {Same(TRUE, duck)} :
        \/ /\ ~r.ok
           /\ Become(r) /\ Answer("append", FALSE) /\ UNCHANGED accepted
        \/ /\ r.ok /\ bad
           /\ Become(w(r)) /\ Answer("append", FALSE) /\ UNCHANGED accepted
        \/ /\ r.ok /\ ~bad
           /\ Become([w(r) EXCEPT !.rowCount = @ + 1])
           /\ Answer("append", TRUE)
           /\ accepted' = Append(accepted, args)
  BY DEF AppendRow
<1>3. /\ GoodResult(r) /\ (r.ok => r.rowCount \in Slot)
      /\ r.duck = "destroyed" <=> duck = "destroyed"
      /\ r.duck = duck \/ (duck = "ok" /\ r.duck = "invalid" /\ ~r.ok)
  BY MakesRoom
<1>4. CASE /\ ~r.ok
           /\ Become(r) /\ Answer("append", FALSE) /\ UNCHANGED accepted
  BY <1>1, <1>3, <1>4
<1>5. CASE /\ r.ok /\ bad
           /\ Become(w(r)) /\ Answer("append", FALSE) /\ UNCHANGED accepted
  <2>1. GoodResult(w(r))
    BY <1>1, <1>3, <1>5, RefusedWrite
  <2>2. w(r).duck = r.duck
    BY <1>3 DEF GoodResult, ResultType
  <2> QED BY <1>1, <1>3, <1>5, <2>1, <2>2
<1>6. CASE /\ r.ok /\ ~bad
           /\ Become([w(r) EXCEPT !.rowCount = @ + 1])
           /\ Answer("append", TRUE)
           /\ accepted' = Append(accepted, args)
  <2>1. closed' \in BOOLEAN /\ (closed' <=> r.duck = "destroyed")
    BY <1>1, <1>3 DEF LoadInv
  <2>2. LoadInv' /\ args \in Row /\ table' = r.table /\ duck' = r.duck
    BY <1>1, <1>3, <1>6, <2>1, AcceptedWrite
  <2>3. r.duck = duck /\ (r.table = table \/ (duck = "ok" /\ r.table = All))
    BY <1>3, <1>6 DEF GoodResult
  <2> QED BY <1>1, <1>6, <2>2, <2>3
<1> QED BY <1>2, <1>4, <1>5, <1>6

\* One step per call.
LEMMA StepLoads == LoadInv /\ [Next]_vars => LoadInv'
<1> SUFFICES ASSUME LoadInv, [Next]_vars PROVE LoadInv' OBVIOUS
<1>0. closed \in BOOLEAN /\ (closed <=> duck = "destroyed")
  BY DEF LoadInv, TypeOK
<1>1. ASSUME NEW args \in Args, AppendRow(args) PROVE LoadInv'
  <2>1. CASE /\ UNCHANGED <<closed, accepted>>
             /\ \E r : GoodResult(r) /\ Become(r) /\ (r.duck = "destroyed" <=> duck = "destroyed")
    BY <1>0, <2>1, Becomes
  <2> QED BY <1>1, <2>1, AppendMakes
<1>2. CASE Flush
  BY <1>0, <1>2, FlushMakes, Becomes
<1>3. CASE Close
  BY <1>3, CloseMakes, Becomes
<1>4. ASSUME UNCHANGED <<rowCount, chunk, closed, duck, pending, table, accepted>> PROVE LoadInv'
  BY <1>4 DEF LoadInv, TypeOK, AllRows, Held, Faithful, Fresh
<1>5. ASSUME NEW args \in Args, RefuseRow(args) PROVE LoadInv'
  BY <1>4, <1>5 DEF RefuseRow
<1>6. CASE CloseAgain \/ UNCHANGED vars
  BY <1>4, <1>6 DEF CloseAgain, vars
<1> QED BY <1>1, <1>2, <1>3, <1>5, <1>6 DEF Next

\* The invariant of every reachable state.
LEMMA AlwaysLoads == Spec => []LoadInv
BY InitLoads, StepLoads, PTL DEF Spec

-----------------------------------------------------------------------------
\* The rows but for NULLs in place of values.
OnlyNulls(s) ==
  /\ Len(s) <= Len(accepted)
  /\ \A i \in 1..Len(s) : \A c \in Col : s[i][c] \in {accepted[i][c], Null}

\* AppendRow (src/appender.go:290-311) never counts past the chunk's capacity, and
\* what reaches DuckDB's appender are rows of values of the columns' types and NULLs.
THEOREM TypeCorrect == Spec => []TypeOK
<1>1. LoadInv => TypeOK
  BY DEF LoadInv
<1> QED BY <1>1, AlwaysLoads, PTL

\* Whatever rows are refused (src/appender.go:302-307 leaves what it wrote of them),
\* no accepted row is lost, doubled, moved or mixed with another: the table holds the
\* first accepted rows, the table, DuckDB's collection and the chunk together all of
\* them while nothing failed, and the only value a row can gain on the way is a NULL.
THEOREM OnlyNullsAppear ==
  Spec => [](/\ OnlyNulls(table)
             /\ duck = "ok" => /\ Len(table \o pending \o Buffered) = Len(accepted)
                               /\ OnlyNulls(table \o pending \o Buffered))
<1>1. ASSUME LoadInv
      PROVE  /\ OnlyNulls(table)
             /\ duck = "ok" => /\ Len(table \o pending \o Buffered) = Len(accepted)
                               /\ OnlyNulls(table \o pending \o Buffered)
  <2>1. ASSUME NEW s, Faithful(s) PROVE OnlyNulls(s)
    BY <2>1 DEF Faithful, OnlyNulls, SameRow
  <2>2. AllRows(table, pending, rowCount, chunk) = table \o pending \o Buffered
    BY DEF AllRows, Held, Buffered
  <2> QED BY <1>1, <2>1, <2>2 DEF LoadInv
<1> QED BY <1>1, AlwaysLoads, PTL

\* Where no NULL was added, rows are what was accepted.
LEMMA RowsAreSame ==
  ASSUME RefusedBeforeNull, LoadInv, NEW s \in Seq(Row), Faithful(s)
  PROVE  /\ Len(s) \in 0..Len(accepted) /\ s = SubSeq(accepted, 1, Len(s))
         /\ Len(s) = Len(accepted) => s = accepted
<1>1. accepted \in Seq(Row) /\ Len(accepted) \in Nat /\ Len(s) \in 0..Len(accepted)
  BY LenProperties DEF LoadInv, TypeOK, Faithful
<1>2. \A i \in 1..Len(s) : s[i] \in Row /\ accepted[i] \in Row
  BY <1>1
<1>3. \A i \in 1..Len(s) : s[i] = accepted[i]
  <2>1. ASSUME NEW x \in Row, NEW y \in Row, SameRow(x, y) PROVE x = y
    BY <2>1 DEF SameRow, MayLose, Row
  <2> QED BY <1>2, <2>1 DEF Faithful
<1>4. s = SubSeq(accepted, 1, Len(s))
  BY <1>1, <1>3
<1>5. ASSUME Len(s) = Len(accepted) PROVE s = accepted
  BY <1>1, <1>3, <1>5
<1> QED BY <1>1, <1>4, <1>5

\* The table is a prefix of the accepted rows, and all rows are all accepted rows.
LEMMA NothingMissing ==
  ASSUME RefusedBeforeNull, LoadInv
  PROVE  /\ Len(table) \in 0..Len(accepted) /\ table = SubSeq(accepted, 1, Len(table))
         /\ duck = "ok" => All = accepted
<1>1. table \in Seq(Row) /\ Faithful(table) /\ All \in Seq(Row)
  BY AllTyped DEF LoadInv, TypeOK, All
<1>2. duck = "ok" => Faithful(All) /\ Len(All) = Len(accepted)
  BY DEF LoadInv, All
<1> QED BY <1>1, <1>2, RowsAreSame

\* appendDataChunk, AppenderFlush and reset(true) (src/appender.go:312-327) never
\* lose, double, move or change a row on its way to the table, whatever fails: with
\* no row refused after one of its NULLs.
THEOREM NoRowLost == ASSUME RefusedBeforeNull PROVE Spec => []RowsConserved
<1>1. LoadInv => RowsConserved
  <2> SUFFICES ASSUME LoadInv, duck = "ok" PROVE table \o pending \o Buffered = accepted
    BY DEF RowsConserved
  <2>1. All = table \o pending \o Buffered
    BY DEF All, AllRows, Held, Buffered
  <2> QED BY <2>1, NothingMissing
<1> QED BY <1>1, AlwaysLoads, PTL

\* What reached the table when a Flush or Close failed (src/appender.go:201-248) is
\* the first accepted rows, and they stay: with no row refused after one of its NULLs.
THEOREM TableKeepsOrder == ASSUME RefusedBeforeNull PROVE Spec => []TableIsPrefix
<1>1. LoadInv => TableIsPrefix
  <2> SUFFICES ASSUME LoadInv PROVE TableIsPrefix
    OBVIOUS
  <2>1. Len(table) \in 0..Len(accepted) /\ table = SubSeq(accepted, 1, Len(table))
    BY NothingMissing
  <2>2. Len(accepted) \in Nat
    BY LenProperties DEF LoadInv, TypeOK
  <2> QED BY <2>1, <2>2 DEF TableIsPrefix
<1> QED BY <1>1, AlwaysLoads, PTL

-----------------------------------------------------------------------------
\* The table moves on as the bulk load allows.
LEMMA Progresses ==
  ASSUME RefusedBeforeNull, LoadInv, duck = "ok" /\ table' = All
  PROVE  Load!Progress /\ table' = accepted
<1>1. table' = accepted /\ Len(table) \in 0..Len(accepted)
  BY NothingMissing
<1>2. accepted \in Seq(Row) /\ Len(accepted) \in Nat
  BY LenProperties DEF LoadInv, TypeOK
<1>3. Len(accepted) \in Len(table)..Len(accepted) /\ accepted = SubSeq(accepted, 1, Len(accepted))
  BY <1>1, <1>2
<1>4. ~closed
  BY DEF LoadInv
<1> QED BY <1>1, <1>3, <1>4 DEF Load!Progress

\* What a call leaves that does not close the Appender.
LEMMA LoadStays ==
  ASSUME RefusedBeforeNull, LoadInv, NEW f, GoodResult(f), Become(f), closed' = closed,
         f.duck = duck \/ (duck = "ok" /\ f.duck = "invalid")
  PROVE  /\ Load!Progress \/ table' = table
         /\ LET st == IF closed THEN "closed" ELSE IF duck = "ok" THEN "open" ELSE "failed" IN
              st' = st \/ (st = "open" /\ st' = "failed")
<1>1. Load!Progress \/ table' = table
  BY Progresses DEF GoodResult, Become
<1>2. duck' = duck \/ (duck = "ok" /\ duck' = "invalid")
  BY DEF Become
<1> QED BY <1>1, <1>2

\* Each call is a step of the bulk load.
LEMMA StepIsLoad == RefusedBeforeNull /\ LoadInv /\ [Next]_vars => [Load!Next]_(Load!vars)
<1> SUFFICES ASSUME RefusedBeforeNull, LoadInv, [Next]_vars PROVE [Load!Next]_(Load!vars)
  OBVIOUS
<1>0. closed <=> duck = "destroyed"
  BY DEF LoadInv
<1>1. ASSUME NEW args \in Args, AppendRow(args) PROVE Load!Next
  <2>1. CASE /\ Answer("append", FALSE) /\ UNCHANGED <<closed, accepted>>
             /\ \E r : /\ GoodResult(r) /\ Become(r)
                       /\ r.duck = duck \/ (duck = "ok" /\ r.duck = "invalid")
    <3>1. Load!Error("append")
      BY <2>1, LoadStays DEF Load!Error, Load!Answer, Answer
    <3> QED BY <3>1 DEF Load!Next
  <2>2. CASE /\ Answer("append", TRUE) /\ UNCHANGED <<closed, duck>> /\ ~closed
             /\ args \in Row /\ accepted' = Append(accepted, args)
             /\ table' = table \/ (duck = "ok" /\ table' = All)
    <3>1. Load!Append1(args)
      BY <2>2, Progresses DEF Load!Append1, Load!Answer, Answer
    <3> QED BY <2>2, <3>1 DEF Load!Next
  <2> QED BY <1>1, <2>1, <2>2, AppendMakes
<1>2. CASE Flush
  <2>1. PICK f : /\ GoodResult(f) /\ Become(f) /\ Answer("flush", f.ok) /\ UNCHANGED <<closed, accepted>>
                 /\ f.ok => duck = "ok" /\ f.duck = "ok" /\ f.table = All
                 /\ f.duck = duck \/ (duck = "ok" /\ f.duck = "invalid")
    BY <1>2, FlushMakes
  <2>2. CASE f.ok
    <3>1. duck = "ok" /\ duck' = "ok" /\ table' = accepted
      BY <2>1, <2>2, Progresses DEF Become
    <3>2. Load!FlushOk
      BY <1>0, <2>1, <2>2, <3>1 DEF Load!FlushOk, Load!Answer, Answer
    <3> QED BY <3>2 DEF Load!Next
  <2>3. CASE ~f.ok
    <3>1. Load!Error("flush")
      BY <2>1, <2>3, LoadStays DEF Load!Error, Load!Answer, Answer
    <3> QED BY <3>1 DEF Load!Next
  <2> QED BY <2>2, <2>3
<1>3. CASE Close
  <2>1. PICK f : /\ GoodResult(f) /\ Become(f) /\ ~closed /\ closed' = TRUE /\ UNCHANGED accepted
                 /\ \E ok \in BOOLEAN : Answer("close", ok) /\ (ok => duck = "ok" /\ f.table = All)
    BY <1>3, CloseMakes
  <2>2. PICK ok \in BOOLEAN : Answer("close", ok) /\ (ok => duck = "ok" /\ f.table = All)
    BY <2>1
  <2>3. table' = table \/ (duck = "ok" /\ table' = All)
    BY <2>1 DEF GoodResult, Become
  <2>4. Load!Close(IF ok THEN "ok" ELSE "error")
    <3>1. CASE ok
      <4>1. table' = accepted
        BY <2>1, <2>2, <3>1, Progresses DEF Become
      <4> QED BY <2>1, <2>2, <3>1, <4>1 DEF Load!Close, Load!Answer, Answer
    <3>2. CASE ~ok
      <4>1. Load!Progress \/ table' = table
        BY <2>3, Progresses
      <4> QED BY <2>1, <2>2, <3>2, <4>1 DEF Load!Close, Load!Answer, Answer
    <3> QED BY <3>1, <3>2
  <2> QED BY <2>4 DEF Load!Next
<1>4. ASSUME NEW args \in Args, RefuseRow(args) PROVE Load!Next
  <2>1. Load!Error("append")
    BY <1>4 DEF RefuseRow, Load!Error, Load!Answer, Answer
  <2> QED BY <2>1 DEF Load!Next
<1>5. CASE CloseAgain
  <2>1. Load!Error("close")
    BY <1>5 DEF CloseAgain, Load!Error, Load!Answer, Answer
  <2> QED BY <2>1 DEF Load!Next
<1>6. CASE UNCHANGED vars
  BY <1>6 DEF vars, Load!vars
<1> QED BY <1>1, <1>2, <1>3, <1>4, <1>5, <1>6 DEF Next

\* The Appender is the bulk load its comments promise (src/appender.go:28-43 and
\* 201-219): rows reach the table in order and unchanged, a Flush or Close that
\* returns nil leaves none behind, nothing reaches the table after a failure: with no
\* row refused after one of its NULLs.
THEOREM Implements == ASSUME RefusedBeforeNull PROVE Spec => ImplementsBulkLoad
<1>1. Init => Load!Init
  BY DEF Init, Load!Init
<1>2. LoadInv /\ [Next]_vars => [Load!Next]_(Load!vars)
  BY StepIsLoad
<1> QED BY <1>1, <1>2, AlwaysLoads, PTL DEF Spec, ImplementsBulkLoad, Load!Spec
=============================================================================
