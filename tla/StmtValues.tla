----------------------------- MODULE StmtValues -----------------------------
(***************************************************************************)
(* StmtBind with the values of ParamValues: what leaks and what panics     *)
(* when they are made, and the types of a statement's columns.             *)
(***************************************************************************)
EXTENDS StmtBind, ParamValues

\* As in LogicalTypes and ParamValues: HasElements, CallsOnNil and MembersIn are
\* their definitions below, Meaning is MeaningDef, and MakeValue is BindValue.
CONSTANTS
  TypesIn(_), Depth(_),  \* the types a type is made of, and how deep it nests
  ValuesIn(_), Size(_),  \* the Go values a value is made of, and how deep it nests
  HasElements(_), CallsOnNil(_), MembersIn(_)

JsonParam(name) == [name |-> name, type |-> Plain("varchar"), json |-> TRUE]

\* Stmt.ColumnTypeInfo; columns are counted from 0.
ColumnTypeInfo(n) ==
  IF closed \/ n \notin 0..Len(setup.columns) - 1 THEN NoInfo
  ELSE InfoOfLogicalType(setup.columns[n + 1])

-----------------------------------------------------------------------------
\* What a Go value says, read as type t: the Meaning of StmtBind.
MeaningDef(t, v) ==
  IF t.kind = "sqlnull" \/ v.go \in {"nil", "nil pointer"} THEN Nil
  ELSE
  CASE v.go = "Valuer" -> Meaning(t, v.value)
    [] v.go = "pointer" -> Meaning(t, PointerValue(v.to))
    [] v.go = "Stringer" \/ (t.kind = "varchar" /\ v.go \in {"time", "Decimal"}) -> TextOf(v)
    [] v.go = "[]byte" /\ t.kind = "varchar" -> Str(v.str)
    [] v.go \in {"slice", "array", "nil slice"} /\ t.kind \in {"list", "array"} ->
         Slice([i \in DOMAIN v.slice |-> Meaning(t.kids[1], v.slice[i])])
    [] v.go = "map[string]any" /\ t.kind = "struct" ->
         Fields([n \in Range(t.names) |->
           IF n \in DOMAIN v.fields
             THEN Meaning(t.kids[CHOOSE i \in DOMAIN t.names : t.names[i] = n], v.fields[n]) ELSE Nil])
    [] Leaf(t.kind).kind # "none" /\ LeafTakes(Leaf(t.kind), AsNum(v)) ->
         LeafMeaning(Leaf(t.kind), AsNum(v))
    [] OTHER -> v

-----------------------------------------------------------------------------
\* Whether the elements of a value are made too, and whether a method is called on a
\* nil, its own or an element's; and how many members a type's STRUCTs and UNIONs
\* have.
HasElementsDef(v) ==
  \/ v.go \in {"slice", "array"} /\ v.slice # <<>>
  \/ v.go = "map[string]any"
  \/ v.go = "pointer" /\ HasElements(PointerValue(v.to))
  \/ v.go = "Valuer" /\ HasElements(v.value)
CallsOnNilDef(v) ==
  \/ v = ZeroDec
  \/ v.go = "nil pointer" /\ v.type \in HasNilMethods
  \/ v.go \in {"slice", "array"} /\ \E i \in DOMAIN v.slice : CallsOnNil(v.slice[i])
  \/ v.go = "pointer" /\ CallsOnNil(PointerValue(v.to))
  \/ v.go = "Valuer" /\ (v.value = NilBig \/ CallsOnNil(v.value))
MembersInDef(lt) ==
  (IF lt.kind \in {"struct", "union"} THEN Len(lt.kids) ELSE 0)
    + Total([i \in DOMAIN lt.kids |-> MembersIn(lt.kids[i])])

-----------------------------------------------------------------------------
\* What is assumed of columns: their types are made of types, of finite depth, and
\* on these the operators that call themselves are their definitions.
ColumnTypes(s) == UNION {TypesIn(t) : t \in Range(s.columns)}

ASSUME ColumnsAssumption ==
  \A s \in Stmts :
    /\ s.columns \in Seq(ColumnTypes(s))
    /\ \A t \in ColumnTypes(s) :
         /\ IsLogical(t) /\ t.kids \in Seq(ColumnTypes(s)) /\ Depth(t) \in Nat
         /\ \A k \in Range(t.kids) : Depth(k) < Depth(t)
         /\ TypesIn(t) = {t} \cup UNION {TypesIn(k) : k \in Range(t.kids)}
         /\ MembersIn(t) = MembersInDef(t)
         /\ InfoOfLogicalType(t) = InfoOfLogicalTypeDef(t)
         /\ InfoOfLogicalType(t) # NoInfo =>
              LogicalTypeOf(InfoOfLogicalType(t)) = LogicalTypeOfDef(InfoOfLogicalType(t))

\* And of arguments: values are made of values, of finite depth, and types of types.
PartsOf(v) ==
  CASE v.go \in {"slice", "array"} -> Range(v.slice)
    [] v.go = "map[string]any" -> {Nil} \cup Range(v.fields)
    [] v.go = "pointer" -> {PointerValue(v.to)}
    [] v.go = "Valuer" -> {v.value}
    [] OTHER -> {}
AllValues(s) == {Nil} \cup Values(s) \cup UNION {ValuesIn(v) : v \in Values(s)}
ParamTypes(s) ==
  {Plain("sqlnull")} \cup UNION {TypesIn(t) : t \in UNION {TypesOf(s, i) : i \in DOMAIN s.params}}
\* The types a parameter's value may get, whatever the parameter's is.
OwnKinds == {"sqlnull", "integer", "bigint", "varchar", "blob", "timestamp_tz"} \cup BigKinds
ValueTypes(s) ==
  ParamTypes(s) \cup {Plain(kind) : kind \in OwnKinds} \cup {Infer(v).value.type : v \in AllValues(s)}

\* A Decimal given for a HUGEINT, UHUGEINT or BIGNUM has no decimal places, as the
\* conversions drop its scale.
ASSUME ArgumentsAssumption ==
  \A s \in Stmts :
    /\ \A t \in ParamTypes(s) :
         IsLogical(t) /\ t.kids \in Seq(ParamTypes(s))
    /\ \A i \in DOMAIN s.params : \A type \in TypesOf(s, i) :
         /\ type \in ParamTypes(s)
         /\ \A v \in Values(s) : MakeValue(type, s.params[i].json, v) = BindValue(type, s.params[i].json, v)
    /\ \A v \in AllValues(s) :
         /\ PartsOf(v) \subseteq AllValues(s) /\ Size(v) \in Nat
         /\ \A w \in PartsOf(v) : Size(w) < Size(v)
         /\ v.go \in {"slice", "array"} => v.slice \in Seq(AllValues(s))
         /\ v.go = "nil slice" => v.slice = <<>>
         /\ (v.go = "nil" => v = Nil) /\ (v.go = "string" => v = Str(v.str))
         /\ (v.go = "Decimal{}" => v = ZeroDec) /\ (v.go = "pointer" => v.to.go \notin {"pointer", "Valuer"})
         /\ HasElements(v) = HasElementsDef(v) /\ CallsOnNil(v) = CallsOnNilDef(v)
         /\ Infer(v) = InferDef(v)
         /\ \A t \in ParamTypes(s) : CreateValue(t, v) = CreateValueDef(t, v)
         /\ \A t \in ValueTypes(s) :
              /\ Meaning(t, v) = MeaningDef(t, v)
              /\ Leaf(t.kind).kind # "none" /\ (v.go = "Decimal" => t \in ParamTypes(s)) =>
                   LeafReadsBack(Leaf(t.kind), AsNum(v))

-----------------------------------------------------------------------------
\* The deferred destroys of bindCompositeValue and tryBindComplexValue: no call
\* leaves a handle alive, on an error or a panic either, except for the elements
\* of nested values, which value.go does not destroy.
OnlyElementsLeak ==
  /\ leaked \subseteq {"element value", "element type"}
  /\ leaked # {} => \E args \in setup.lists : \E a \in Range(args) : HasElements(a.value)

\* What panics whatever the parameter's type is.
ReachesNil(v) == v = NilBig \/ CallsOnNil(v)

\* bindValue panics for three reasons: createPrimitiveValue and the conversions on an
\* element of the wrong Go type, of a nested parameter whose type is known; a *big.Int
\* that is the argument itself, or what a Valuer gives, and is nil; and Value and
\* String, called on a nil pointer or a Decimal{}, which may be an element.
PanicsAreOfElements ==
  last.out = "panic" =>
    \E i \in Params : types[i].kind \in Nested \/ ReachesNil(Chosen(last.args, i).value)

\* ColumnTypeInfo and TypeInfo.logicalType are inverse, but for BIGNUM, which the
\* second does not know; a type with a part that is not supported or has no name is
\* not reported.  Of the handles, logicalType leaves one for each member of a STRUCT
\* or UNION.
Reportable(lt) ==
  \A t \in TypesIn(lt) : /\ t.kind \notin (Unsupported \ {"any"}) \cup {"sqlnull"}
                         /\ t.kind \in {"struct", "union"} => "" \notin Range(t.names)
Known(lt) == \A t \in TypesIn(lt) : t.kind # "bignum"
ReportedTypeIsTheColumns ==
  \A n \in 0..Len(setup.columns) :
    LET lt == setup.columns[n + 1]
        info == ColumnTypeInfo(n)
    IN IF closed \/ n = Len(setup.columns) \/ ~Reportable(lt) THEN info = NoInfo
       ELSE LogicalTypeOf(info) = Made(IF Known(lt) THEN lt ELSE NullType, MembersIn(lt))
=============================================================================
