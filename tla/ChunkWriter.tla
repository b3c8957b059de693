------------------------------ MODULE ChunkWriter ------------------------------
(***************************************************************************)
(* Writing a data chunk value by value (src/data_chunk.go), as the         *)
(* appender and table functions do, over the nested vectors of its         *)
(* columns.  Users address the columns of the table; a projection maps     *)
(* them to the columns the chunk has.                                      *)
(***************************************************************************)
EXTENDS NestedVector

CONSTANTS
  Setups,    \* chunks: the columns' types, the projection or <<>>, and the values
             \* written to them
  MaxWrites, \* bound: writes between two resets
  TypesIn(_), Depth(_),  \* the types a type is made of, and how deep it nests
  ValuesIn(_),           \* the Go values a value is made of
  Tree(_), Parts(_, _), LostToNull(_, _)  \* as in NestedVector

\* initFromTypes refuses the chunk when it does not support a column's type.
Chunks == {s \in Setups : \A i \in DOMAIN s.types : Supported(s.types[i])}

\* What is assumed of a chunk: its types are made of types and its values of
\* values, of finite depth; leaf values are in range and of their column's scale
\* (Convertible), and the keys of a map stay different in its column; and no column
\* is projected twice.
AllTypes(s) == UNION {TypesIn(t) : t \in Range(s.types)}
AllValues(s) == {Nil} \cup UNION {ValuesIn(v) : v \in s.values}

PartsOfValue(v) ==
  CASE v.go = "slice" -> Range(v.slice)
    [] v.go = "map[string]any" -> Range(v.fields)
    [] v.go = "Map" -> {Entry(p) : p \in v.pairs}
    [] v.go = "Union" -> {v.value}
    [] OTHER -> {}

ASSUME ChunksAssumption ==
  \A s \in Chunks :
    /\ s.types \in Seq(AllTypes(s)) /\ s.values \subseteq AllValues(s)
    /\ s.projection \in Seq(0..Len(s.types))
    /\ \A c, d \in DOMAIN s.projection : s.projection[c] = s.projection[d] /\ c # d => s.projection[c] = 0
ASSUME TypesAssumption ==
  \A s \in Chunks : \A t \in AllTypes(s) :
    /\ IsType(t) /\ t.kids \in Seq(AllTypes(s)) /\ Depth(t) \in Nat
    /\ \A i \in DOMAIN t.kids : Depth(t.kids[i]) < Depth(t)
ASSUME ValuesAssumption ==
  \A s \in Chunks : \A v \in AllValues(s) :
    /\ PartsOfValue(v) \subseteq AllValues(s)
    /\ (v.go = "nil" => v = Nil) /\ (v.go = "string" => v = Str(v.str))
    /\ v.go = "slice" => v.slice \in Seq(AllValues(s))
    /\ v.go = "Map" => IsFiniteSet(v.pairs)
    /\ v.go = "Map" => \A t \in AllTypes(s) : t.kind = "map" => KeysDiffer(t, v)
    /\ \A t \in AllTypes(s) : t.kind \in Leaves /\ LeafTakes(t, v) => Convertible(t, v)

VARIABLES
  setup,     \* which chunk
  columns,   \* DataChunk.columns
  told,      \* history: what the last write to a cell should have made of it
  writes     \* how many writes were made since the chunk was new or reset

vars == <<setup, columns, told, writes>>

Types == setup.types
Row == 0..(Capacity - 1)

\* The columns users see, and the chunk's column behind each; 0 when a column is
\* not projected.
TableColumn == IF setup.projection = <<>> THEN DOMAIN Types ELSE DOMAIN setup.projection
ChunkColumn(c) == IF setup.projection = <<>> THEN c ELSE setup.projection[c]
Projected == {c \in TableColumn : ChunkColumn(c) # 0}

\* A cell is new, written once, written again, or torn by a refused value.
New == [is |-> "new"]
Torn == [is |-> "torn"]
Told(is, v) == [is |-> is, reads |-> v]

Init ==
  /\ setup \in Chunks
  /\ columns = [i \in DOMAIN Types |-> NewVector(Types[i], Capacity)]
  /\ told = [c \in Projected |-> [r \in Row |-> New]]
  /\ writes = 0

-----------------------------------------------------------------------------
\* One write to a projected column.
Write(c, r, v) ==
  LET i == ChunkColumn(c)
      s == Set(columns[i], r, v)
      once == told[c][r] = New
  IN /\ columns' = [columns EXCEPT ![i] = s.vec]
     /\ told' = [told EXCEPT ![c][r] =
          IF Takes(Types[i], v)
            THEN Told(IF once THEN "once" ELSE "again", Meaning(Types[i], v))
            ELSE IF s.ok THEN Told("once", Torn) ELSE Torn]

\* DataChunk.SetValue: the column's own setter.
SetValue(c, r, v) ==
  /\ writes < MaxWrites /\ writes' = writes + 1
  /\ IF c \in Projected THEN Write(c, r, v) ELSE UNCHANGED <<columns, told>>
  /\ UNCHANGED setup

\* SetChunkValue: a dispatch of its own, without MAP, ARRAY and nil (a nil has no
\* type to name in the error, and panics).
SetChunkValue(c, r, v) ==
  /\ writes < MaxWrites /\ writes' = writes + 1
  /\ c \in Projected /\ v # Nil
  /\ IF Types[ChunkColumn(c)].kind \in {"map", "array"}
       THEN UNCHANGED <<columns, told>>
       ELSE Write(c, r, v)
  /\ UNCHANGED setup

\* DataChunk.reset: DuckDB resets its chunk, and the vectors look it up again.
Reset ==
  /\ writes > 0 /\ writes' = 0
  /\ columns' = [i \in DOMAIN columns |-> ResetVector(columns[i])]
  /\ told' = [c \in Projected |-> [r \in Row |-> New]]
  /\ UNCHANGED setup

Next ==
  \/ \E c \in TableColumn, r \in Row, v \in setup.values : SetValue(c, r, v) \/ SetChunkValue(c, r, v)
  \/ Reset

Spec == Init /\ [][Next]_vars

-----------------------------------------------------------------------------
\* GetValue
GetValue(c, r) == Get(columns[ChunkColumn(c)], r)

Cells == Projected \X Row
Is(how) == {cell \in Cells : told[cell[1]][cell[2]].is = how}
Reads(cell) == GetValue(cell[1], cell[2])
Should(cell) == told[cell[1]][cell[2]].reads

\* Every vector of a tree.
TreeDef(vec) == {vec} \cup UNION {Tree(vec.kids[i]) : i \in DOMAIN vec.kids}

\* vector_setters.go and vector_getters.go agree: a cell that was written once
\* reads as the value it was given, in range and of its column's scale
\* (Convertible), however the column's type nests, whatever is written to the other
\* cells and is refused there, and however often the children of its lists move.
WrittenOnceReadsBack == \A cell \in Is("once") : Reads(cell) = Should(cell)

\* a equals b, or has lost some of it to NULL.
LostToNullDef(a, b) ==
  \/ a = b \/ a = Nil
  \/ /\ a.go = "slice" /\ b.go = "slice" /\ Len(a.slice) = Len(b.slice)
     /\ \A i \in DOMAIN a.slice : LostToNull(a.slice[i], b.slice[i])
  \/ /\ a.go = "map[string]any" /\ b.go = "map[string]any"
     /\ \A n \in DOMAIN a.fields : LostToNull(a.fields[n], b.fields[n])
  \/ a.go = "Union" /\ b.go = "Union" /\ a.tag = b.tag /\ LostToNull(a.value, b.value)

\* A cell that is written over, after a refused value too, never reads as a mix
\* of its values: what is not NULL is of the last one.  (It may be NULL where
\* an earlier value was: setPrimitive does not set the validity bit again.)
RewriteOnlyLoses == \A cell \in Is("again") : LostToNull(Reads(cell), Should(cell))

\* The vectors and rows that make up a row, NULL parts left out.
Below(vec, row) ==
  {b \in CASE vec.type.kind = "union" -> {[kid |-> vec.kids[Tag(vec, row) + 1], row |-> row]}
            [] vec.type.kind = "struct" -> {[kid |-> vec.kids[i], row |-> row] : i \in DOMAIN vec.kids}
            [] vec.type.kind \in {"list", "map", "array"} ->
                 {[kid |-> vec.kids[1], row |-> First(vec, row) + i - 1] : i \in 1..Count(vec, row)}
            [] OTHER -> {} : b.row \in DOMAIN b.kid.data}
PartsDef(vec, row) ==
  IF row \in vec.null THEN {}
  ELSE {[vec |-> vec, row |-> row]} \cup UNION {Parts(b.kid, b.row) : b \in Below(vec, row)}

Written == Is("once") \cup Is("again")
PartsOf(cell) == Parts(columns[ChunkColumn(cell[1])], cell[2])

\* setList and resizeListVector: every list that was written lies inside what its
\* child holds, and no child holds more than DuckDB reserved for it.
InBounds(vec, row) ==
  vec.type.kind \in {"list", "map"} =>
    \A i \in 1..Count(vec, row) : First(vec, row) + i - 1 < vec.size
ListsInBounds ==
  /\ \A cell \in Written : \A p \in PartsOf(cell) : InBounds(p.vec, p.row)
  /\ \A c \in DOMAIN columns : \A vec \in Tree(columns[c]) :
       vec.type.kind \in {"list", "map"} => vec.size <= Rows(vec.kids[1])

\* setUnion: of a UNION's members only the tagged one holds a value, which is
\* what DuckDB expects of the chunk it is handed.
OnlyTagged(vec, row) ==
  vec.type.kind = "union" =>
    \A j \in Members(vec) : j # Tag(vec, row) => row \in vec.kids[j + 1].null
OneMember == \A cell \in Written : \A p \in PartsOf(cell) : OnlyTagged(p.vec, p.row)

\* resetChildData: no vector keeps an address that a list has outgrown.
NoStalePointer ==
  \A c \in DOMAIN columns : \A vec \in Tree(columns[c]) : vec.fresh
=============================================================================
