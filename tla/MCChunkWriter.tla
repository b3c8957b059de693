---------------------------- MODULE MCChunkWriter ----------------------------
(***************************************************************************)
(* One chunk for each nested type, and for nestings of two and three of    *)
(* them: values that fit, at and past the limits, of the wrong length, and *)
(* refused late, after a part of them was written.                         *)
(***************************************************************************)
EXTENDS ChunkWriter

N == NumType(2)
Chunk(t, vs) == [types |-> <<t>>, projection |-> <<>>, values |-> vs]
Pair(a, b) == Fields([x |-> a, y |-> b])

NarrowSetups == {
  Chunk(ListType(N), {Nil, Slice(<<>>), Slice(<<Num(0), Num(1)>>), Slice(<<Nil, Num(1), Num(1)>>),
                      Slice(<<Num(1), Str("x")>>), Num(1)}),
  Chunk(ListType(ListType(N)),
        {Slice(<<Slice(<<Num(1)>>), Slice(<<Num(0), Num(1)>>)>>), Slice(<<Nil, Slice(<<>>), Slice(<<Num(1)>>)>>),
         Slice(<<Slice(<<Num(1), Num(1)>>), Num(1)>>), Nil}),
  Chunk(ListType(StructType(<<"x", "y">>, <<N, N>>)),
        {Slice(<<Pair(Num(1), Nil), Nil, Pair(Num(0), Num(1))>>), Slice(<<Pair(Num(1), Num(1))>>),
         Slice(<<Pair(Num(1), Str("x"))>>), Slice(<<Fields([x |-> Num(1)])>>)}),
  Chunk(StructType(<<"x", "y">>, <<N, ListType(N)>>),
        {Nil, Pair(Num(1), Slice(<<Num(1)>>)), Pair(Nil, Slice(<<Num(0), Nil, Num(1)>>)),
         Pair(Num(1), Num(1)), Fields([y |-> Nil])}),
  Chunk(ArrayType(N, 2), {Nil, Slice(<<Num(1), Num(0)>>), Slice(<<Nil, Num(1)>>), Slice(<<Num(1)>>),
                          Slice(<<Num(1), Str("x")>>)}),
  Chunk(ListType(ArrayType(N, 2)),
        {Slice(<<Slice(<<Num(1), Num(0)>>), Nil, Slice(<<Num(0), Num(1)>>)>>),
         Slice(<<Slice(<<Nil, Num(1)>>)>>), Slice(<<Slice(<<Num(1)>>)>>)}),
  Chunk(MapType(N, N), {Nil, MapOf({}), MapOf({<<Num(0), Nil>>, <<Num(1), Num(1)>>}),
                        MapOf({<<Num(1), Num(0)>>}), MapOf({<<Num(1), Str("x")>>})}),
  Chunk(UnionType(<<N, ListType(N), StructType(<<"x", "y">>, <<N, N>>)>>),
        {Nil, Union(1, Num(1)), Union(2, Slice(<<Num(1)>>)), Union(2, Num(1)), Union(4, Num(1)),
         Num(1), Pair(Num(0), Num(1)), Pair(Nil, Str("x"))}),
  Chunk(UnionType(<<ListType(N), NumType(4), ListType(NumType(4))>>),
        {Num(3), Union(3, Nil), Slice(<<Num(1), Str("x")>>), Slice(<<Num(3), Nil>>)}),
  Chunk(ListType(UnionType(<<N, EnumType("UTINYINT", <<"x", "y">>)>>)),
        {Slice(<<Num(1), Str("y"), Nil>>), Slice(<<Union(2, Str("x")), Union(1, Nil)>>), Slice(<<Str("z")>>)}),
  [types |-> <<N, EnumType("UTINYINT", <<"x", "y">>)>>, projection |-> <<2, 0, 1>>,
   values |-> {Num(1), Num(3), Str("y"), Nil}],
  Chunk(StructType(<<"x", "y">>, <<LeafType("huge"), LeafType("uhuge")>>),
        {Pair(Big(n), Num(1)) : n \in {-9, -8, -5, 7, 8}} \cup {Pair(Num(-2), Big(n)) : n \in {-1, 15, 16}}
          \cup {Pair(Num(3), Dec(n, 0)) : n \in {-1, 15}}),
  Chunk(StructType(<<"x", "y">>, <<LeafType("bignum"), DecimalType(4, 0)>>),
        {Pair(Big(n), Dec(-4, 0)) : n \in {-9, -1, 0, 1, 8}} \cup {Pair(Num(-4), Nil), Pair(Dec(3, 0), Num(3))}),
  Chunk(ListType(DecimalType(4, 1)),
        {Slice(<<Dec(-4, 1), Nil, Dec(3, 1)>>), Slice(<<Num(0), Dec(0, 2)>>), Slice(<<Dec(1, 1), Big(0)>>)}),
  Chunk(StructType(<<"x", "y">>, <<WideDecimalType(1), WideDecimalType(1)>>),
        {Pair(Dec(1, 1), Dec(n, 1)) : n \in {-9, -8, 7, 8}} \cup {Pair(Big(0), Nil)}),
  Chunk(StructType(<<"x", "y">>, <<WideDecimalType(0), N>>),
        {Pair(Big(n), Dec(3, 0)) : n \in {-9, -8, 7}} \cup {Pair(Num(-2), Num(1)), Pair(Dec(7, 0), Big(1))}),
  Chunk(ListType(LeafType("uuid")),
        {Slice(<<Uuid(0, 3), Uuid(1, 0)>>), Slice(<<Uuid(3, 1), Nil, Uuid(2, 2)>>), Slice(<<Num(1)>>)}),
  Chunk(StructType(<<"x", "y">>, <<TimestampType("ns"), TimestampType("us")>>),
        {Pair(Time(n, 2), Time(n, 0)) : n \in {-65, -33, -32, -5, 3, 39, 64}}),
  Chunk(StructType(<<"x", "y">>, <<TimestampType("ms"), TimestampType("s")>>),
        {Pair(Time(n, 2), Time(n, 0)) : n \in {-5, -1, 6, 99}}),
  Chunk(ListType(StructType(<<"x", "y">>, <<LeafType("time"), LeafType("timetz")>>)),
        {Slice(<<Pair(Time(n, off), Time(n, off))>>) : n \in {-3, 7}, off \in {-2, 0, 6}}),
  Chunk(LeafType("date"), {Time(n, 0) : n \in {-32, -16, 0, 5, 31}}),
  Chunk(MapType(ListType(N), N), {Nil}),
  Chunk(ListType(LeafType("bit")), {Nil}) }

\* What types and values are made of.
RECURSIVE TypesOfType(_), DepthOfType(_), ValuesOfValue(_)
TypesOfType(t) == {t} \cup UNION {TypesOfType(k) : k \in Range(t.kids)}
DepthOfType(t) == IF t.kids = <<>> THEN 0 ELSE 1 + Max({DepthOfType(k) : k \in Range(t.kids)})
ValuesOfValue(v) == {v} \cup UNION {ValuesOfValue(w) : w \in PartsOfValue(v)}

\* Each of the operators that call each other is its definition.  (TLC takes a
\* LET for a body of its own; its parameters need names of their own.)
SupportedTied(p) == LET it == SupportedDef(p) IN it
NewVectorTied(p, q) == LET it == NewVectorDef(p, q) IN it
GrowTied(p, q) == LET it == GrowDef(p, q) IN it
ShrinkTied(p, q) == LET it == ShrinkDef(p, q) IN it
ResetChildDataTied(p) == LET it == ResetChildDataDef(p) IN it
SetNullTied(p, q) == LET it == SetNullDef(p, q) IN it
SetTied(p, q, r) == LET it == SetDef(p, q, r) IN it
WriteKidsTied(p, q) == LET it == WriteKidsDef(p, q) IN it
FirstMatchTied(p, q, r, s) == LET it == FirstMatchDef(p, q, r, s) IN it
GetTied(p, q) == LET it == GetDef(p, q) IN it
TakesTied(p, q) == LET it == TakesDef(p, q) IN it
MeaningTied(p, q) == LET it == MeaningDef(p, q) IN it
TreeTied(p) == LET it == TreeDef(p) IN it
PartsTied(p, q) == LET it == PartsDef(p, q) IN it
LostToNullTied(p, q) == LET it == LostToNullDef(p, q) IN it

\* A word of 4 values, and years of 2 days of 2 seconds of 8 nanoseconds.
UnitLengths == [ns |-> 1, us |-> 2, ms |-> 4, s |-> 8]
YearBounds == [ns |-> <<-1, 1>>, us |-> <<-2, 1>>]
=============================================================================
