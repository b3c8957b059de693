----------------------------- MODULE MCStmtBind -----------------------------
(***************************************************************************)
(* Statements of one or two parameters, for every way bindValue can go;    *)
(* argument lists by position, number and name; and columns of all types.  *)
(***************************************************************************)
EXTENDS StmtValues

I == Plain("integer")
B == Plain("bigint")
Pair(x, y) == [x |-> x, y |-> y]
StructXY == StructOf(<<"x", "y">>, <<I, ListOf(Plain("varchar"))>>)

\* One parameter and one value at a time, and a list that is too short.
One(type, values) ==
  [params |-> <<Param("1", type)>>, columns |-> <<>>, calls |-> 2,
   lists |-> {<<>>} \cup {<<Arg("", 1, v)>> : v \in values}]

Unresolved == One(Plain("invalid"),
  {Nil, Int32(1), Bytes("b"), Time(-3, 2), Big(5), Big(9), Dec(1, 0), Stringer("s"), GoMap, NilSlice,
   Slice(<<Dec(1, 0), Stringer("s")>>), Valuer(Dec(1, 0)), Valuer(Time(3, 0)), Slice(<<>>), Slice(<<Int32(1), Int32(2)>>), Slice(<<Int64(1)>>), Slice(<<Nil, Str("x")>>)})
UnresolvedNested == One(Plain("invalid"),
  {Slice(<<Slice(<<Int32(1)>>), Slice(<<Int32(2), Str("x")>>)>>), Array(<<Str("x"), Bytes("y")>>),
   Slice(<<Nil, NilPtr("int64")>>), Slice(<<Ptr(Int64(1))>>), Slice(<<Slice(<<>>), Slice(<<Nil>>)>>),
   Slice(<<Int32(1), GoMap>>), Slice(<<Big(9)>>), Slice(<<Slice(<<Big(1), NilBig>>)>>),
   Ptr(NilBig), Fields([x |-> Int32(1)]), Valuer(Slice(<<Int32(1)>>))})

\* Pointers, and what a method is called on.
Pointers == One(Plain("invalid"),
  {NilPtr("int64"), NilPtr("UUID"), NilPtr("time"), NilBig, ZeroDec, Valuer(NilBig), Valuer(NilPtr("UUID")),
   Ptr(Big(5)), Ptr(Time(3, 0)), PtrPtr(Time(3, 0)), Ptr(Dec(1, 1)), PtrPtr(Dec(1, 1)), Ptr(ZeroDec),
   PtrPtr(ZeroDec), Ptr(NilPtr("time")), Ptr(Stringer("s")), Ptr(Slice(<<Int32(1)>>)),
   Slice(<<Str("x"), NilPtr("UUID")>>), Slice(<<NilPtr("time")>>), Slice(<<Str("x"), ZeroDec>>),
   Slice(<<Ptr(NilBig), NilPtr("int64")>>)})

Scalars == {
  One(I, {Nil, Int32(1), Int64(2), Str("x"), Dec(1, 0), Time(3, 0), NilPtr("big.Int"), Slice(<<Int32(1)>>)}),
  One(Plain("varchar"), {Str("x"), Bytes("y"), Valuer(Str("v")), Valuer(Nil), BadValuer, Stringer("s")}),
  [params |-> <<JsonParam("1")>>, columns |-> <<>>, calls |-> 2,
   lists |-> {<<Arg("", 1, v)>> : v \in {Nil, Str("x"), Bytes("y"), Int32(1), Valuer(Str("v"))}}],
  One(Plain("uuid"), {Nil, Str("x"), Stringer("u"), NilPtr("UUID"), NilPtr("time"), Time(3, 0),
                      Ptr(ZeroDec), Valuer(Stringer("u")), Slice(<<>>)}),
  One(Plain("hugeint"), {Big(-8), Big(7), Big(8), Int64(-2), NilPtr("big.Int")}),
  One(Plain("uhugeint"), {Big(-1), Big(15), Big(16), Int64(1)}),
  One(Plain("bignum"), {Big(-9), Big(0), Big(16)}),
  One(Plain("date"), {Time(0, 0), Time(37, 2), Nil, Str("x"), NilPtr("time")}),
  One(Plain("time_tz"), {Time(-3, 2), Time(7, -2), Int32(1)}), One(Plain("time"), {Time(-3, 2), Str("x")}),
  One(Plain("bit"), {Nil, Str("x")}), One(Logical("enum", <<>>, <<"x">>, <<>>), {Str("x"), GoMap}) }
  \cup {One(Plain(k), {Time(-5, 0), Time(-65, 2), Time(33, 2), Time(64, 0), Str("x")}) :
          k \in {"timestamp", "timestamp_tz", "timestamp_s", "timestamp_ms", "timestamp_ns"}}

NestedParams == {
  One(ListOf(I), {Nil, NilSlice, Slice(<<>>), Slice(<<Int32(1), Int32(2)>>), Array(<<Int32(1)>>),
                  Slice(<<Int32(1), Int64(2)>>), Slice(<<Nil>>), Str("x"), Valuer(Slice(<<Int32(1)>>))}),
  One(ListOf(ListOf(Plain("timestamp"))),
      {Slice(<<Slice(<<Time(3, 0)>>), Slice(<<Time(33, 0), Time(-65, 0)>>)>>),
       Slice(<<Slice(<<Time(3, 0)>>), Slice(<<>>)>>), Slice(<<Slice(<<Nil>>)>>), Slice(<<Nil>>), Slice(<<Int32(1)>>)}),
  One(ArrayOf(Plain("hugeint"), 2), {Array(<<Big(1), Int32(2)>>), Slice(<<Big(1), Big(9)>>), Slice(<<Str("x")>>),
                                     Slice(<<Dec(3, 0), Dec(-1, 0)>>), Slice(<<Big(1), NilBig>>),
                                     Slice(<<Big(1), ZeroDec>>), Slice(<<Nil>>)}),
  One(StructXY, {Fields(Pair(Int32(1), Slice(<<Str("a"), Str("b")>>))), Fields([x |-> Int32(1)]),
                 Fields(Pair(Int32(1), Slice(<<Str("a"), Int32(1)>>))), Fields([y |-> Int32(1)]), GoMap}),
  One(ListOf(Logical("map", <<I, I>>, <<>>, <<>>)), {Slice(<<GoMap>>), Slice(<<>>), Slice(<<Nil>>)}) }

\* Two parameters, the first of them unresolved, as database/sql numbers the
\* arguments and as a caller of Bind may write them.
Both(first, second, x, y) ==
  {<<Arg("", 1, x), Arg("", 2, y)>>, <<Arg("", 2, y), Arg("", 1, x)>>,
   <<Arg(second, 1, y), Arg(first, 2, x)>>, <<Arg(first, 0, x), Arg(second, 0, y)>>,
   <<Arg("", 2, y), Arg(first, 1, x), Arg("other", 3, Str("z"))>>,
   <<Arg("other", 1, x), Arg("", 2, y)>>, <<Arg("", 1, x)>>}
Two == {
  [params |-> <<Param("a", Plain("invalid")), Param("b", Plain("date"))>>, columns |-> <<>>, calls |-> 3,
   lists |-> Both("a", "b", Int32(1), Time(32, 0))
             \cup {<<Arg("", 1, Str("x")), Arg("", 2, Time(16, 0))>>,
                   <<Arg("", 1, Int32(2)), Arg("", 2, Str("x"))>>,
                   <<Arg("", 1, Slice(<<Int32(1)>>)), Arg("", 2, Nil)>>}] }

\* Columns of types that are reported, and of types with a part that is not.
Dec52 == Logical("decimal", <<>>, <<>>, <<5, 2>>)
Colors == Logical("enum", <<>>, <<"red", "blue">>, <<>>)
Columns == <<I, Plain("timestamp_ns"), Dec52, Colors, ListOf(ArrayOf(Colors, 3)),
  Logical("map", <<Plain("varchar"), StructXY>>, <<>>, <<>>),
  StructOf(<<"u", "s">>, <<Logical("union", <<I, Dec52>>, <<"i", "d">>, <<>>), StructXY>>),
  Plain("bignum"), ListOf(Plain("bignum")), Plain("bit"), Plain("sqlnull"), ListOf(Plain("sqlnull")),
  StructOf(<<"x">>, <<ListOf(Plain("bit"))>>), StructOf(<<"">>, <<I>>), Plain("invalid")>>
Described3 == {[params |-> <<>>, columns |-> Columns, calls |-> 1, lists |-> {<<>>}]}

Statements == {Unresolved, UnresolvedNested, Pointers} \cup Scalars \cup NestedParams \cup Two \cup Described3

\* What types and values are made of.
RECURSIVE TypesOfType(_), DepthOfType(_), ValuesOfValue(_), SizeOfValue(_)
TypesOfType(t) == {t} \cup UNION {TypesOfType(k) : k \in Range(t.kids)}
DepthOfType(t) == IF t.kids = <<>> THEN 0 ELSE 1 + Max({DepthOfType(k) : k \in Range(t.kids)})
ValuesOfValue(v) == {v} \cup UNION {ValuesOfValue(w) : w \in PartsOf(v)}
SizeOfValue(v) == IF PartsOf(v) = {} THEN 0 ELSE 1 + Max({SizeOfValue(w) : w \in PartsOf(v)})

\* Each of the operators that call themselves is its definition.  (TLC takes a LET
\* for a body of its own; its parameters need names of their own.)
LogicalTypeOfTied(p) == LET it == LogicalTypeOfDef(p) IN it
InfoOfLogicalTypeTied(p) == LET it == InfoOfLogicalTypeDef(p) IN it
CreateValueTied(p, q) == LET it == CreateValueDef(p, q) IN it
InferTied(p) == LET it == InferDef(p) IN it
MeaningTied(p, q) == LET it == MeaningDef(p, q) IN it
HasElementsTied(p) == LET it == HasElementsDef(p) IN it
CallsOnNilTied(p) == LET it == CallsOnNilDef(p) IN it
MembersInTied(p) == LET it == MembersInDef(p) IN it

\* A word of 4 values, and years of 2 days of 2 seconds of 8 nanoseconds.
UnitLengths == [ns |-> 1, us |-> 2, ms |-> 4, s |-> 8]
YearBounds == [ns |-> <<-1, 1>>, us |-> <<-2, 1>>]
=============================================================================
