----------------------------- MODULE ParamValues -----------------------------
(***************************************************************************)
(* DuckDB values made of Go values, for the parameters of a prepared       *)
(* statement: src/value.go and Stmt.bindValue of src/statement.go.         *)
(*                                                                         *)
(* Making a value succeeds, fails or panics, and leaves handles that are   *)
(* alive: the value and its type, which the caller destroys, and those of  *)
(* the elements of nested values, which nobody does.                       *)
(***************************************************************************)
EXTENDS Conversions, LogicalTypes

\* They call themselves along a value: a configuration gives them their definitions
\* below.
CONSTANTS CreateValue(_, _), Infer(_)

\* Go values besides those of Conversions: integers by their type, slices and
\* arrays of any, and the values that stand for others: a *T that is nil, a *T and
\* a **T of a value that is no pointer (it may be a nil one, or a *big.Int), a type
\* with a String method, one that is a Valuer, and a Decimal whose Value is nil.
Int32(n) == [go |-> "int32", num |-> n]
Int64(n) == [go |-> "int64", num |-> n]
Str(s) == [go |-> "string", str |-> s]
Bytes(s) == [go |-> "[]byte", str |-> s]
Slice(s) == [go |-> "slice", slice |-> s]
Array(s) == [go |-> "array", slice |-> s]
NilSlice == [go |-> "nil slice", slice |-> <<>>]
NilPtr(type) == [go |-> "nil pointer", type |-> type]
Ptr(v) == [go |-> "pointer", levels |-> 1, to |-> v]
PtrPtr(v) == [go |-> "pointer", levels |-> 2, to |-> v]
Fields(f) == [go |-> "map[string]any", fields |-> f]
GoMap == [go |-> "Map"]
Stringer(s) == [go |-> "Stringer", str |-> s]
Valuer(v) == [go |-> "Valuer", value |-> v]
BadValuer == [go |-> "failing Valuer"]
ZeroDec == [go |-> "Decimal{}"]
NilBig == NilPtr("big.Int")

\* inferX takes every integer type; the literal that getX reads back of it.
AsNum(v) == IF v.go \in {"int32", "int64"} THEN Num(v.num) ELSE v
Leaf(kind) ==
  LET unit == [timestamp |-> "us", timestamp_tz |-> "us", timestamp_s |-> "s",
               timestamp_ms |-> "ms", timestamp_ns |-> "ns"]
      name == [hugeint |-> "huge", uhugeint |-> "uhuge", bignum |-> "bignum", date |-> "date",
               time |-> "time", time_tz |-> "timetz"]
  IN IF kind \in DOMAIN unit THEN [kind |-> "timestamp", unit |-> unit[kind]]
     ELSE IF kind \in DOMAIN name THEN [kind |-> name[kind]] ELSE [kind |-> "none"]

-----------------------------------------------------------------------------
\* What making a value comes to.
Value(type, reads) == [type |-> type, reads |-> reads]
Ok(value) == [out |-> "ok", value |-> value, live |-> {"value", "type"}]
Fails == [out |-> "error", value |-> Value(NullType, Nil), live |-> {}]
Panics == [Fails EXCEPT !.out = "panic"]
NullOf(kind) == Value(Plain(kind), Nil)

\* createPrimitiveValue asserts the Go type of most types, without a check, and
\* leaves the rest to the conversions, whose error names the type of what they
\* refuse, which a nil has not.  (BOOLEAN and the other numbers are as INTEGER is;
\* INTERVAL and UUID are left out.)
BigKinds == {"hugeint", "uhugeint", "bignum"}
Exact == [integer |-> "int32", bigint |-> "int64", varchar |-> "string"]
CreatePrimitiveValue(kind, v) ==
  CASE kind = "sqlnull" -> Ok(NullOf(kind))
    [] kind \in DOMAIN Exact ->
         IF v.go = Exact[kind] THEN Ok(Value(Plain(kind), v)) ELSE Panics
    [] Leaf(kind).kind # "none" ->
         IF v = Nil THEN Panics
         ELSE IF LeafTakes(Leaf(kind), AsNum(v))
           THEN Ok(Value(Plain(kind), LeafRead(Leaf(kind), LeafStored(Leaf(kind), AsNum(v)))))
           ELSE Fails
    [] OTHER -> Fails

\* The elements up to the first that is not made stay alive: destroyValueSlice
\* and destroyLogicalTypes are deferred with the slices that were still empty.
Kept == [value |-> "element value", type |-> "element type"]
KeptOf(live) == {IF h \in DOMAIN Kept THEN Kept[h] ELSE h : h \in live}
Composite(made, value) ==
  LET bad == {i \in DOMAIN made : made[i].out # "ok"}
      upto == IF bad = {} THEN Len(made) ELSE Min(bad)
      kept == UNION {KeptOf(made[i].live) : i \in 1..upto}
      whole == IF bad = {} THEN Ok(value) ELSE made[upto]
  IN [whole EXCEPT !.live = kept \cup IF bad = {} THEN @ ELSE {}]

ReadsOf(made) == [i \in DOMAIN made |-> made[i].value.reads]

\* createValue: a value of type lt.  A type's own handle is the caller's, and a
\* child type's handle is destroyed.
CreateValueDef(lt, v) ==
  LET elements == [i \in DOMAIN v.slice |-> CreateValue(lt.kids[1], v.slice[i])]
      members == [i \in DOMAIN lt.kids |-> IF lt.names[i] \in DOMAIN v.fields
                                             THEN CreateValue(lt.kids[i], v.fields[lt.names[i]])
                                             ELSE CreateValue(Plain("sqlnull"), Nil)]
      reads == [n \in Range(lt.names) |-> members[CHOOSE i \in DOMAIN lt.names : lt.names[i] = n].value.reads]
      made == CASE lt.kind \in {"list", "array"} ->
                     IF v.go \in {"slice", "array", "nil slice"}
                       THEN Composite(elements, Value(lt, Slice(ReadsOf(elements))))
                       ELSE IF v = Nil THEN Panics ELSE Fails
                [] lt.kind = "struct" ->
                     IF v.go = "map[string]any" THEN Composite(members, Value(lt, Fields(reads)))
                     ELSE IF v = Nil THEN Panics ELSE Fails
                [] lt.kind \in {"decimal", "enum", "map", "union"} \cup Unsupported ->
                     IF v = Nil THEN Panics ELSE Fails
                [] OTHER -> CreatePrimitiveValue(lt.kind, v)
  IN [made EXCEPT !.live = @ \ {"type"}]

\* getPointerValue follows a *T to its end, a *big.Int too, whose struct no type takes.
PointerValue(v) == CASE v.go = "nil pointer" -> Nil
                     [] v.go = "big" -> [go |-> "big.Int"]
                     [] OTHER -> v

\* The String methods.  A *T has that of T, which looks at what a nil points to, as
\* that of a Decimal looks at its Value.
HasNilMethods == {"UUID", "time", "Decimal"}
Printable == {"Stringer", "time", "Decimal", "Decimal{}"}
Pointed(v) == IF v.go = "pointer" THEN v.to ELSE v
HasString(v) == \/ v.go \in Printable
                \/ v.go = "pointer" /\ v.levels = 1 /\ v.to.go \in Printable
                \/ v.go = "nil pointer" /\ v.type \in HasNilMethods
TextOf(v) == IF Pointed(v).go = "Stringer" THEN Str(Pointed(v).str) ELSE [go |-> "text", of |-> Pointed(v)]
CallString(v) == IF v.go = "nil pointer" \/ Pointed(v) = ZeroDec THEN Panics
                 ELSE Ok(Value(Plain("varchar"), TextOf(v)))

\* inferPrimitiveType: the type of the Go value, "" when it has none of its own.
InferPrimitiveType(v) ==
  CASE v.go = "nil" -> "sqlnull"
    [] v.go = "int32" -> "integer"
    [] v.go = "int64" -> "bigint"
    [] v.go \in {"string", "[]byte"} -> "varchar"
    [] v.go = "time" -> "timestamp_tz"
    [] v.go = "big" \/ v = NilBig -> "hugeint"
    [] OTHER -> ""

\* inferLogicalTypeAndValue: a type and a value of it, for the caller to destroy.
\* An ARRAY or a LIST has elements of one type, that of NULL for a nil.
InferDef(v) ==
  LET kind == InferPrimitiveType(v)
      made == [i \in DOMAIN v.slice |-> Infer(v.slice[i])]
      child == IF made = <<>> THEN Plain("sqlnull") ELSE made[1].value.type
      list == IF v.go = "array" THEN ArrayOf(child, Len(made)) ELSE ListOf(child)
      \* The element of another type was made and kept when it is refused.
      mixed == {i \in DOMAIN made : made[i].out # "ok" \/ made[i].value.type # child}
      upto == IF mixed = {} THEN made ELSE SubSeq(made, 1, Min(mixed))
      all == Composite(upto, Value(list, Slice(ReadsOf(made))))
  IN IF kind # "" THEN CreatePrimitiveValue(kind, IF kind = "varchar" THEN Str(v.str) ELSE v)
     ELSE IF HasString(v) THEN CallString(v)
     ELSE
       CASE v.go \in {"nil slice", "nil pointer"} -> Ok(NullOf("sqlnull"))
       [] v.go = "pointer" -> Infer(PointerValue(v.to))
       [] v.go \in {"slice", "array"} ->
            IF all.out = "ok" /\ mixed # {} THEN [Fails EXCEPT !.live = all.live \ {"value", "type"}] ELSE all
       [] OTHER -> Fails

-----------------------------------------------------------------------------
\* Stmt.bindValue: the value that ends up in the parameter's slot, and the handles
\* that outlive the call.  A parameter is described by the type DuckDB resolved,
\* "invalid" when it could not.

\* Mutant: the inferred type is not destroyed.
DestroyValue(made) == [made EXCEPT !.live = @ \ {"value"}]

Destroy(made) == [made EXCEPT !.live = @ \ {"value", "type"}]

BindJSON(v) == IF v.go \in {"[]byte", "string"} THEN Ok(Value(Plain("varchar"), Str(v.str)))
               ELSE IF v = Nil THEN Ok(NullOf("sqlnull")) ELSE Fails

\* bindHugeint, bindUhugeint and bindBigNum look into a nil *big.Int.
BindBigInt(t, v) ==
  LET kind == IF t.kind \in {"hugeint", "uhugeint"} THEN t.kind ELSE "bignum"
  IN IF v = NilBig THEN Panics ELSE CreatePrimitiveValue(kind, v)

BindUUID(v) ==
  CASE v.go = "nil pointer" -> Ok(NullOf("sqlnull"))
    [] v.go # "nil pointer" /\ HasString(v) -> CallString(v)
    [] OTHER -> Fails

BindComplexValue(t, v) ==
  CASE t.kind = "invalid" -> Infer(v)
    [] t.kind = "uuid" -> BindUUID(v)
    [] Leaf(t.kind).kind \in {"timestamp", "date", "time", "timetz"} -> CreatePrimitiveValue(t.kind, v)
    [] t.kind \in {"array", "list", "struct"} -> CreateValue(t, v)
    [] OTHER -> Fails

\* Mutant: a nil is left to the type of the parameter.
NotNil == {"int32", "int64", "string", "[]byte"}

\* The Go types that are bound as they are.
Direct == {"int32", "int64", "string", "[]byte", "nil"}

BindGoValue(t, v, driverValue) ==
  CASE v.go \in Direct ->
         LET kind == IF v.go = "[]byte" THEN "blob" ELSE InferPrimitiveType(v)
         IN Ok(Value(Plain(kind), v))
    [] v.go = "big" \/ v = NilBig -> BindBigInt(t, v)
    [] v.go \in {"Decimal", "Decimal{}"} -> Fails
    [] OTHER -> IF driverValue THEN Infer(v) ELSE BindComplexValue(t, v)

BindValue(t, json, v) ==
  Destroy(
    IF t.kind \in Unsupported \ {"invalid"} THEN Fails
    ELSE IF json THEN BindJSON(v)
    \* A nil *UUID is a Valuer too: its Value calls String.
    ELSE CASE v = NilPtr("UUID") -> Panics
           [] v.go = "failing Valuer" -> Fails
           [] v.go = "Valuer" -> BindGoValue(t, v.value, TRUE)
           [] OTHER -> BindGoValue(t, v, FALSE))
=============================================================================
