---------------------------- MODULE LogicalTypes ----------------------------
(***************************************************************************)
(* Descriptions of types: src/type_info.go.  A TypeInfo is a Go value that *)
(* its constructors have checked; a logical type is DuckDB's own, reached  *)
(* by a handle that somebody has to destroy.  DuckDB's side is external.   *)
(***************************************************************************)
EXTENDS Integers, FiniteSets, SequencesExt

\* The functions of the code that call themselves along a type: a configuration gives
\* LogicalTypeOf and InfoOfLogicalType their definitions below.
CONSTANTS LogicalTypeOf(_), InfoOfLogicalType(_)

\* The types NewTypeInfo describes, and those logicalType() makes without more;
\* BIGNUM is among the first only.
Primitive == {"boolean", "integer", "bigint", "hugeint", "uhugeint", "varchar", "blob", "uuid",
              "timestamp", "timestamp_s", "timestamp_ms", "timestamp_ns", "timestamp_tz",
              "date", "time", "time_tz", "interval", "any"}
Unsupported == {"invalid", "bit", "any"}
Described == Primitive \cup {"bignum"}

MaxDecimalWidth == 38

\* Logical types: `nums` holds a DECIMAL's width and scale or an ARRAY's length.
Logical(kind, kids, names, nums) == [kind |-> kind, kids |-> kids, names |-> names, nums |-> nums]
Plain(kind) == Logical(kind, <<>>, <<>>, <<>>)
ListOf(t) == Logical("list", <<t>>, <<>>, <<>>)
ArrayOf(t, n) == Logical("array", <<t>>, <<>>, <<n>>)
StructOf(names, ts) == Logical("struct", ts, names, <<>>)
NullType == Plain("null handle")

\* What is assumed of the types of a statement's columns.  (The fields of an unnamed
\* STRUCT have "" for names.)
Composed == {"list", "array", "map", "struct", "union"}
IsLogical(t) ==
  /\ t = Logical(t.kind, t.kids, t.names, t.nums)
  /\ t.kind \in Described \cup Unsupported \cup {"sqlnull", "decimal", "enum"} \cup Composed
  /\ t.kind \notin Composed => t.kids = <<>>
  /\ t.kind \notin {"enum", "struct", "union"} => t.names = <<>>
  /\ t.kind \notin {"decimal", "array"} => t.nums = <<>>
  /\ t.kind \in {"list", "array"} => Len(t.kids) = 1
  /\ t.kind = "map" => Len(t.kids) = 2
  /\ t.kind \in {"struct", "union"} => t.kids # <<>> /\ Len(t.names) = Len(t.kids)
  /\ t.kind \in {"enum", "struct", "union"} => t.names \in Seq(STRING) /\ t.names # <<>>
  /\ t.kind = "enum" => IsInjective(t.names)
  /\ t.kind \in {"struct", "union"} => IsInjective(t.names) \/ "" \in Range(t.names)
  /\ t.kind = "array" => t.nums[1] \in Nat \ {0} /\ t.nums = <<t.nums[1]>>
  /\ t.kind = "decimal" => \E width \in 1..MaxDecimalWidth : \E scale \in 0..width : t.nums = <<width, scale>>

-----------------------------------------------------------------------------
\* TypeInfo values.  NoInfo is the nil that comes with an error, or that a careless
\* caller passes on.
NoInfo == [type |-> "nil"]
Info(type, types, names, nums) == [type |-> type, types |-> types, names |-> names, nums |-> nums]

NewTypeInfo(t) == IF t \in Described THEN Info(t, <<>>, <<>>, <<>>) ELSE NoInfo

NewDecimalInfo(width, scale) ==
  IF width \in 1..MaxDecimalWidth /\ scale <= width
    THEN Info("decimal", <<>>, <<>>, <<width, scale>>) ELSE NoInfo

\* `first` is a parameter of its own: an ENUM without names cannot be asked for.
NewEnumInfo(names) ==
  IF names # <<>> /\ IsInjective(names) THEN Info("enum", <<>>, names, <<>>) ELSE NoInfo

NewListInfo(child) == IF child = NoInfo THEN NoInfo ELSE Info("list", <<child>>, <<>>, <<>>)

\* Mutant: the key and the value change places.
NewMapInfoSwapped(key, value) ==
  IF NoInfo \in {key, value} THEN NoInfo ELSE Info("map", <<value, key>>, <<>>, <<>>)

NewMapInfo(key, value) ==
  IF NoInfo \in {key, value} THEN NoInfo ELSE Info("map", <<key, value>>, <<>>, <<>>)

NewArrayInfo(child, size) ==
  IF child = NoInfo \/ size = 0 THEN NoInfo ELSE Info("array", <<child>>, <<>>, <<size>>)

\* NewStructEntry takes any info, and NewStructInfo refuses the nil ones.
NewStructEntry(info, name) == IF name = "" THEN NoInfo ELSE [info |-> info, name |-> name]
NewStructInfo(entries) ==
  LET infos == [i \in DOMAIN entries |-> entries[i].info]
      names == [i \in DOMAIN entries |-> entries[i].name]
  IN IF NoInfo \in Range(entries) \/ NoInfo \in Range(infos) \/ ~IsInjective(names)
       THEN NoInfo ELSE Info("struct", infos, names, <<>>)

\* NewUnionInfo does not look at the members.
NewUnionInfo(types, names) ==
  IF types = <<>> \/ Len(types) # Len(names) \/ "" \in Range(names) \/ ~IsInjective(names)
    THEN NoInfo ELSE Info("union", types, names, <<>>)

-----------------------------------------------------------------------------
\* logicalType(): the type it returns, and how many handles it leaves to nobody.
\* DuckDB makes nothing of a null child.
Made(type, lost) == [type |-> type, lost |-> lost]
Total(counts) == FoldSeq(LAMBDA c, n : n + c, 0, counts)
LostBy(made) == Total([i \in DOMAIN made |-> made[i].lost])

\* The children of LIST, MAP and ARRAY are destroyed; those of STRUCT and UNION are
\* kept, as destroyLogicalTypes is deferred with the slice that was still empty.
LogicalTypeOfDef(info) ==
  LET made == [i \in DOMAIN info.types |-> LogicalTypeOf(info.types[i])]
      kids == [i \in DOMAIN made |-> made[i].type]
      kept == IF info.type \in {"struct", "union"} THEN Len(made) ELSE 0
  IN IF info.type \in Primitive \cup {"decimal", "enum", "list", "map", "array", "struct", "union"}
          /\ NullType \notin Range(kids)
       THEN Made(Logical(info.type, kids, info.names, info.nums), kept + LostBy(made))
       ELSE Made(NullType, kept + LostBy(made))

\* newTypeInfoFromLogicalType: the same constructors, and every child handle is
\* destroyed as soon as it was read.  It fails with its children.
InfoOfLogicalTypeDef(lt) ==
  LET infos == [i \in DOMAIN lt.kids |-> InfoOfLogicalType(lt.kids[i])]
      entries == [i \in DOMAIN infos |-> NewStructEntry(infos[i], lt.names[i])]
  IN CASE NoInfo \in Range(infos) -> NoInfo
       [] OTHER ->
            CASE lt.kind = "decimal" -> NewDecimalInfo(lt.nums[1], lt.nums[2])
              [] lt.kind = "enum" -> NewEnumInfo(lt.names)
              [] lt.kind = "list" -> NewListInfo(infos[1])
              [] lt.kind = "array" -> NewArrayInfo(infos[1], lt.nums[1])
              [] lt.kind = "map" -> NewMapInfo(infos[1], infos[2])
              [] lt.kind = "struct" -> NewStructInfo(entries)
              [] lt.kind = "union" -> NewUnionInfo(infos, lt.names)
              [] OTHER -> NewTypeInfo(lt.kind)
=============================================================================
