----------------------------- MODULE NestedVector -----------------------------
(***************************************************************************)
(* The vectors of a data chunk: src/vector.go, src/vector_setters.go and   *)
(* src/vector_getters.go.  A vector of a nested type has child vectors, so *)
(* a column is a tree; setFn writes a Go value into a row of the tree and  *)
(* getFn reads a row back.                                                 *)
(*                                                                         *)
(* The buffers and the bits of the validity mask belong to DuckDB.  A Go   *)
(* vector keeps the addresses of both, which a list outgrows: `fresh` says *)
(* that the kept addresses are DuckDB's current ones.                      *)
(***************************************************************************)
EXTENDS Conversions, FiniteSetsExt

CONSTANTS
  Capacity,            \* GetDataChunkCapacity(), the rows of a new vector
  Supported(_),        \* and the operators that call each other along a type, as
  NewVector(_, _),     \* the code does: a configuration gives each of them its
  Grow(_, _),          \* definition below, NewVectorDef for NewVector.
  Shrink(_, _), ResetChildData(_), SetNull(_, _), Set(_, _, _), WriteKids(_, _),
  FirstMatch(_, _, _, _), Get(_, _), Takes(_, _), Meaning(_, _)

ASSUME CapacityAssumption == Capacity \in Nat \ {0}

-----------------------------------------------------------------------------
\* Column types.  A number type keeps numbers below `limit`, a DECIMAL digits that
\* the machine integer it is stored in can count; the other leaves are those of
\* Conversions.
NumType(limit) == [kind |-> "num", limit |-> limit, kids |-> <<>>]
LeafType(kind) == [kind |-> kind, kids |-> <<>>]
DecimalType(limit, scale) == [kind |-> "decimal", limit |-> limit, scale |-> scale,
                              kids |-> <<>>]
WideDecimalType(scale) == [kind |-> "hugedecimal", scale |-> scale, kids |-> <<>>]
TimestampType(unit) == [kind |-> "timestamp", unit |-> unit, kids |-> <<>>]
EnumType(internal, dict) == [kind |-> "enum", internal |-> internal,
                             dict |-> dict, kids |-> <<>>]
ListType(t) == [kind |-> "list", kids |-> <<t>>]
ArrayType(t, n) == [kind |-> "array", length |-> n, kids |-> <<t>>]
StructType(names, ts) == [kind |-> "struct", names |-> names, kids |-> ts]
MapType(k, v) == [kind |-> "map", kids |-> <<StructType(<<"key", "value">>, <<k, v>>)>>]
TagType == NumType(256)
UnionType(ts) == [kind |-> "union", kids |-> <<TagType>> \o ts]

Leaves == {"num", "decimal", "hugedecimal", "huge", "uhuge", "bignum", "uuid",
           "timestamp", "date", "time", "timetz"}

\* vector.init refuses INVALID, BIT and ANY at any depth, and a MAP whose keys Go
\* cannot compare.
SupportedDef(t) ==
  /\ t.kind # "bit"
  /\ t.kind = "map" => t.kids[1].kids[1].kind \in Leaves \cup {"enum"}
  /\ \A i \in DOMAIN t.kids : Supported(t.kids[i])

\* More Go values, which are also what a column reads as.
Str(s) == [go |-> "string", str |-> s]
Slice(s) == [go |-> "slice", slice |-> s]
Fields(f) == [go |-> "map[string]any", fields |-> f]
MapOf(pairs) == [go |-> "Map", pairs |-> pairs]
Union(tag, v) == [go |-> "Union", tag |-> tag, value |-> v]

\* What is assumed of a type's own parts: what NewTypeInfo's constructors check,
\* and an enum of at most 256 names (setEnum does not write larger ones).
Nested == {"list", "array", "struct", "map", "union"}
IsType(t) ==
  /\ t.kind \in Leaves \cup {"enum"} \cup Nested
  /\ t.kind \notin Nested => t.kids = <<>>
  /\ t.kind \in {"list", "array", "map"} => Len(t.kids) = 1
  /\ t.kind = "array" => t.length \in Nat
  /\ t.kind = "map" => t.kids[1].kind = "struct" /\ t.kids[1].names = <<"key", "value">>
  /\ t.kind = "struct" => t.names \in Seq(STRING) /\ Len(t.names) = Len(t.kids) /\ IsInjective(t.names)
  /\ t.kind = "union" => Len(t.kids) > 0 /\ t.kids[1] = TagType
  /\ t.kind = "decimal" => t.limit \in Nat \ {0}
  /\ t.kind = "timestamp" => t.unit \in DOMAIN Unit
  /\ t.kind = "enum" => /\ t.dict \in Seq(STRING) /\ IsInjective(t.dict)
                       /\ t.internal = "UTINYINT"

\* The leaf values that do.  The setters of numbers store the digits of a value as
\* they are: a value whose digits differ in the column's scale is stored as another
\* number, and one past the machine integer of a DECIMAL wraps.  For the others it
\* takes words of 64 bits, a TIMESTAMP_NS that int64 can count, and before 1970 a
\* midnight for a DATE.  (BIGNUM reads back as TLC computes it.)
Numbers == {"num", "decimal", "hugedecimal", "huge", "uhuge", "bignum"}
Convertible(t, v) ==
  /\ t.kind \in Numbers => Digits(t, v) = v.num
  /\ t.kind = "decimal" => v.num \in -t.limit .. t.limit - 1
  /\ t.kind \in {"huge", "hugedecimal", "uhuge"} => v.num \in Int
  /\ t.kind \in {"huge", "hugedecimal"} /\ v.go = "num" => IsInt64(v.num) \/ IsUint64(v.num)
  /\ t.kind = "bignum" => LeafReadsBack(t, v)
  /\ t.kind = "uuid" => v.hi \in 0 .. Word - 1 /\ v.lo \in 0 .. Word - 1 /\ v = Uuid(v.hi, v.lo)
  /\ t.kind = "timestamp" => v.ns \in IF t.unit = "ns" THEN -NanoLimit .. NanoLimit - 1 ELSE Int
  /\ t.kind = "date" => v.ns \in Int /\ (v.ns >= 0 \/ v.ns % Day = 0)
  /\ t.kind \in {"time", "timetz"} => v.ns \in Int /\ v.off \in Int

-----------------------------------------------------------------------------
\* A new vector of type t.
KidRows(t, rows) == CASE t.kind \in {"list", "map"} -> Capacity
                      [] t.kind = "array" -> rows * t.length
                      [] OTHER -> rows
Zero(t) == CASE t.kind \in {"list", "map", "huge", "hugedecimal", "uhuge", "uuid", "timetz"} -> <<0, 0>>
             [] t.kind = "bignum" -> SetBignum(0)
             [] OTHER -> 0

NewVectorDef(t, rows) ==
  [ type  |-> t,
    data  |-> [r \in 0..(rows - 1) |-> Zero(t)],
    null  |-> {},     \* the rows whose validity bit is cleared
    size  |-> 0,      \* of a list: how many rows its child holds
    fresh |-> TRUE,
    kids  |-> [i \in DOMAIN t.kids |-> NewVector(t.kids[i], KidRows(t, rows))] ]

Rows(vec) == Cardinality(DOMAIN vec.data)

\* DuckDB gives a vector a larger buffer, and the vectors that have a row for
\* each of its rows too.
GrowDef(vec, rows) ==
  [ vec EXCEPT
      !.data = [r \in 0..(rows - 1) |-> IF r \in DOMAIN @ THEN @[r] ELSE Zero(vec.type)],
      !.fresh = FALSE,
      !.kids = [i \in DOMAIN @ |->
                  IF vec.type.kind \in {"list", "map"} THEN @[i]
                  ELSE Grow(@[i], KidRows(vec.type, rows))] ]

\* DuckDB puts a vector back as it was created.  Its old contents stay behind.
ShrinkDef(vec, rows) ==
  [ vec EXCEPT
      !.data = [r \in 0..(rows - 1) |-> @[r]],
      !.null = {}, !.size = 0, !.fresh = FALSE,
      !.kids = [i \in DOMAIN @ |-> Shrink(@[i], KidRows(vec.type, rows))] ]

\* Mutant: only the first level below the list is looked up again.
ResetOneLevel(vec) ==
  [vec EXCEPT !.kids = [i \in DOMAIN @ |-> [@[i] EXCEPT !.fresh = TRUE]]]

\* Look the buffers of all vectors below up again.
ResetChildDataDef(vec) ==
  [vec EXCEPT !.kids = [i \in DOMAIN @ |->
     ResetChildData([@[i] EXCEPT !.fresh = TRUE])]]

\* Mutant: the rows of earlier lists are forgotten.
OwnLength(vec, n) == n

\* newLength := len(list) + childVectorSize
NewLength(vec, n) == n + vec.size

\* ListVectorReserve
Reserve(vec, rows) ==
  IF rows > Rows(vec.kids[1]) THEN [vec EXCEPT !.kids[1] = Grow(@, rows)] ELSE vec

ResizeListVector(vec, rows) == ResetChildData([Reserve(vec, rows) EXCEPT !.size = rows])

\* initVectors after DataChunkReset.
InitVectors(vec) == ResetChildData([vec EXCEPT !.fresh = TRUE])
ResetVector(vec) == InitVectors(Shrink(vec, Capacity))

-----------------------------------------------------------------------------
\* A write through an outdated address does not reach the vector.
SetPrimitive(vec, row, v) == IF vec.fresh THEN [vec EXCEPT !.data[row] = v] ELSE vec

SetNullDef(vec, row) ==
  [ vec EXCEPT
      !.null = @ \cup {row},
      !.kids = [i \in DOMAIN @ |-> IF vec.type.kind \in {"struct", "union"}
                                     THEN SetNull(@[i], row) ELSE @[i]] ]

Done(ok, vec) == [ok |-> ok, vec |-> vec]
At(kid, row, v) == [kid |-> kid, row |-> row, val |-> v]

\* Mutant: the children of an ARRAY are not spread out.
ArrayRow(vec, row) == row

\* Where the children of an ARRAY begin.
ArrayOffset(vec, row) == row * vec.type.length

\* Mutant: the tag of a matched member is not written.
NoTag(vec, row, i) == vec

\* The tag vector is the first child of a UNION; tags count from 0.
SetTag(vec, row, i) == [vec EXCEPT !.kids[1] = SetPrimitive(@, row, i - 1)]

Members(vec) == 1..(Len(vec.type.kids) - 1)

\* Mutant: the other members keep what they hold.
OnlyMember(vec, row, tag, v) == <<At(tag + 1, row, v)>>

\* The tagged member gets the value, every other member NULL.
MemberWrites(vec, row, tag, v) ==
  [i \in Members(vec) |-> At(i + 1, row, IF i = tag THEN v ELSE Nil)]

\* Child writes in order, up to the first that is refused.
WriteKid(vec, w) ==
  LET s == Set(vec.kids[w.kid], w.row, w.val)
  IN Done(s.ok, [vec EXCEPT !.kids[w.kid] = s.vec])
WriteKidsDef(vec, todo) ==
  IF todo = <<>> THEN Done(TRUE, vec)
  ELSE LET first == WriteKid(vec, Head(todo))
       IN IF first.ok THEN WriteKids(first.vec, Tail(todo)) ELSE first

SetList(vec, row, list) ==
  LET entry == SetPrimitive(vec, row, <<vec.size, Len(list)>>)
      room  == ResizeListVector(entry, NewLength(vec, Len(list)))
  IN WriteKids(room, [i \in DOMAIN list |-> At(1, vec.size + i - 1, list[i])])

SetArray(vec, row, s) ==
  IF Len(s) # vec.type.length THEN Done(FALSE, vec)
  ELSE WriteKids(vec, [i \in DOMAIN s |-> At(1, ArrayOffset(vec, row) + i - 1, s[i])])

\* A missing field ends the loop like a refused one.
Missing(vec, f) == {i \in DOMAIN vec.type.names : vec.type.names[i] \notin DOMAIN f}
SetStruct(vec, row, f) ==
  LET upto == IF Missing(vec, f) = {} THEN Len(vec.type.names) ELSE Min(Missing(vec, f)) - 1
      s    == WriteKids(vec, [i \in 1..upto |-> At(i, row, f[vec.type.names[i]])])
  IN Done(s.ok /\ Missing(vec, f) = {}, s.vec)

\* The range over a Go map has no order; getMap does not see the one it had.
AnyOrder(pairs) == CHOOSE s \in [1..Cardinality(pairs) -> pairs] : Range(s) = pairs
Entry(pair) == Fields([key |-> pair[1], value |-> pair[2]])
SetMap(vec, row, pairs) ==
  SetList(vec, row, [i \in 1..Cardinality(pairs) |-> Entry(AnyOrder(pairs)[i])])

SetTagged(vec, row, v) ==
  IF v.tag \notin Members(vec) THEN Done(FALSE, vec)
  ELSE WriteKids(SetTag(vec, row, v.tag), MemberWrites(vec, row, v.tag, v.value))

\* A value that is not a Union goes to the first member that accepts it; the
\* members tried before keep what the attempt left until they become NULL.
FirstMatchDef(vec, row, v, i) ==
  IF i \notin Members(vec) THEN [match |-> 0, vec |-> vec]
  ELSE LET try == WriteKid(vec, At(i + 1, row, v))
       IN IF try.ok THEN [match |-> i, vec |-> try.vec] ELSE FirstMatch(try.vec, row, v, i + 1)

OtherWrites(vec, row, tag) ==
  [i \in 1..(Len(vec.type.kids) - 2) |-> At(IF i < tag THEN i + 1 ELSE i + 2, row, Nil)]

SetMatching(vec, row, v) ==
  LET found == FirstMatch(vec, row, v, 1)
  IN IF found.match = 0 THEN Done(FALSE, found.vec)
     ELSE WriteKids(SetTag(found.vec, row, found.match), OtherWrites(vec, row, found.match))

\* setEnum writes the index of an enum of at most 256 names; the internal types
\* it lists for the larger ones are not those initEnum lets pass.
IndexIn(names, n) == CHOOSE i \in DOMAIN names : names[i] = n
SetEnum(vec, row, str) ==
  IF str \notin Range(vec.type.dict) THEN Done(FALSE, vec)
  ELSE Done(TRUE, IF vec.type.internal = "UTINYINT"
                    THEN SetPrimitive(vec, row, IndexIn(vec.type.dict, str) - 1) ELSE vec)

\* setFn: each disjunct of the code's dispatch is a case.  The result holds what
\* a refused value leaves behind too.
SetDef(vec, row, v) ==
  LET k == vec.type.kind IN
  CASE v.go = "nil" -> Done(TRUE, SetNull(vec, row))
    [] v.go # "nil" /\ k \in Leaves ->
         IF LeafTakes(vec.type, v)
           THEN Done(TRUE, SetPrimitive(vec, row, LeafStored(vec.type, v)))
           ELSE Done(FALSE, vec)
    [] v.go = "string" /\ k = "enum" -> SetEnum(vec, row, v.str)
    [] v.go = "slice" /\ k = "list" -> SetList(vec, row, v.slice)
    [] v.go = "slice" /\ k = "array" -> SetArray(vec, row, v.slice)
    [] v.go = "map[string]any" /\ k = "struct" -> SetStruct(vec, row, v.fields)
    [] v.go = "Map" /\ k = "map" -> SetMap(vec, row, v.pairs)
    [] v.go = "Union" /\ k = "union" -> SetTagged(vec, row, v)
    [] v.go # "Union" /\ v.go # "nil" /\ k = "union" -> SetMatching(vec, row, v)
    [] OTHER -> Done(FALSE, vec)

-----------------------------------------------------------------------------
\* Where the elements of a list or an array are in its child.
First(vec, row) == IF vec.type.kind = "array" THEN row * vec.type.length ELSE vec.data[row][1]
Count(vec, row) == IF vec.type.kind = "array" THEN vec.type.length ELSE vec.data[row][2]

Tag(vec, row) == vec.kids[1].data[row] + 1
Field(vec, n) == vec.kids[IndexIn(vec.type.names, n)]

\* getMap: m[key] = val in order, so that of equal keys the last entry stays.
Kept(read, i) == \A j \in DOMAIN read : j > i => read[j].fields["key"] # read[i].fields["key"]
PairsOf(read) ==
  {<<read[i].fields["key"], read[i].fields["value"]>> : i \in {j \in DOMAIN read : Kept(read, j)}}

\* getFn
GetDef(vec, row) ==
  LET k == vec.type.kind
      elements == [i \in 1..Count(vec, row) |-> Get(vec.kids[1], First(vec, row) + i - 1)]
  IN CASE row \in vec.null -> Nil
       [] row \notin vec.null /\ k \in Leaves -> LeafRead(vec.type, vec.data[row])
       [] row \notin vec.null /\ k = "enum" -> Str(vec.type.dict[vec.data[row] + 1])
       [] row \notin vec.null /\ k \in {"list", "array"} -> Slice(elements)
       [] row \notin vec.null /\ k = "struct" ->
            Fields([n \in Range(vec.type.names) |-> Get(Field(vec, n), row)])
       [] row \notin vec.null /\ k = "map" -> MapOf(PairsOf(elements))
       [] row \notin vec.null /\ k = "union" ->
            Union(Tag(vec, row), Get(vec.kids[Tag(vec, row) + 1], row))

-----------------------------------------------------------------------------
\* What a column of type t should make of a Go value: whether it takes the
\* value, and what it then reads as.
TakesDef(t, v) ==
  \/ v.go = "nil"
  \/ t.kind \in Leaves /\ LeafTakes(t, v) /\ LeafFits(t, v)
  \/ v.go = "string" /\ t.kind = "enum" /\ v.str \in Range(t.dict)
  \/ /\ v.go = "slice" /\ t.kind \in {"list", "array"}
     /\ t.kind = "array" => Len(v.slice) = t.length
     /\ \A i \in DOMAIN v.slice : Takes(t.kids[1], v.slice[i])
  \/ /\ v.go = "map[string]any" /\ t.kind = "struct"
     /\ \A i \in DOMAIN t.names : /\ t.names[i] \in DOMAIN v.fields
                                  /\ Takes(t.kids[i], v.fields[t.names[i]])
  \/ /\ v.go = "Map" /\ t.kind = "map"
     /\ \A p \in v.pairs : \A i \in 1..2 : Takes(t.kids[1].kids[i], p[i])
  \/ /\ v.go = "Union" /\ t.kind = "union"
     /\ v.tag \in 1..(Len(t.kids) - 1) /\ Takes(t.kids[v.tag + 1], v.value)
  \/ /\ v.go \notin {"nil", "Union"} /\ t.kind = "union"
     /\ \E i \in 2..Len(t.kids) : Takes(t.kids[i], v)

MeaningDef(t, v) ==
  CASE v.go = "nil" -> v
    [] v.go = "string" /\ t.kind = "enum" -> v
    [] v.go # "nil" /\ t.kind \in Leaves -> LeafMeaning(t, v)
    [] v.go = "slice" /\ t.kind # "union" ->
         Slice([i \in DOMAIN v.slice |-> Meaning(t.kids[1], v.slice[i])])
    [] v.go = "map[string]any" /\ t.kind # "union" ->
         Fields([n \in Range(t.names) |->
           Meaning(t.kids[IndexIn(t.names, n)], v.fields[n])])
    [] v.go = "Map" /\ t.kind # "union" ->
         MapOf({<<Meaning(t.kids[1].kids[1], p[1]), Meaning(t.kids[1].kids[2], p[2])>> :
                  p \in v.pairs})
    [] v.go = "Union" -> Union(v.tag, Meaning(t.kids[v.tag + 1], v.value))
    [] v.go \notin {"nil", "Union"} /\ t.kind = "union" ->
         LET i == Min({j \in 1..(Len(t.kids) - 1) : Takes(t.kids[j + 1], v)})
         IN Union(i, Meaning(t.kids[i + 1], v))

\* A MAP column takes a Go map's keys for as many different ones.
KeysDiffer(t, v) ==
  LET key == t.kids[1].kids[1] IN
  \A p, q \in v.pairs : Takes(key, p[1]) /\ Takes(key, q[1]) /\ Meaning(key, p[1]) = Meaning(key, q[1]) => p = q
=============================================================================
