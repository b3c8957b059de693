--------------------------- MODULE StmtRowsProofs ---------------------------
(***************************************************************************)
(* Proofs about a statement's two ends: the arguments that go to its slots *)
(* (StmtBind, src/statement.go), and the rows that come out of its result  *)
(* (ResultScan, src/rows.go).                                              *)
(***************************************************************************)
EXTENDS StmtValues, ResultScan, WellFoundedInduction, TLAPS

\* A set of one number has it for its maximum.
LEMMA MaxOfOne ==
  ASSUME NEW k \in Int
  PROVE  Max({k}) = k
  BY DEF Max

\* A set of numbers that is not empty has a least one.
LEMMA MinOfNat ==
  ASSUME NEW S \in SUBSET Nat, S # {}
  PROVE  Min(S) \in S /\ \A y \in S : Min(S) =< y
  <1> DEFINE less == {ss \in Nat \X Nat : ss[1] < ss[2]}
  <1>1. IsWellFoundedOn(less, Nat)  BY NatLessThanWellFounded, Zenon DEF OpToRel
  <1>2. PICK x \in S : \A y \in S : <<y, x>> \notin less
    <2> HIDE DEF less
    <2> QED  BY <1>1, WFMin
  <1>3. ASSUME NEW y \in S PROVE x =< y
    <2>1. ~ (y < x)  BY <1>2
    <2> QED  BY <2>1
  <1> QED  BY <1>3 DEF Min

(***************************************************************************)
(* ParamValues: what is made of an argument, of any type and depth.  A     *)
(* claim about all values holds of the least deep one it could fail for.   *)
(***************************************************************************)

\* What is assumed of arguments, in the form in which it is used.
LEMMA ArgumentFacts ==
  ASSUME NEW s \in Stmts, NEW v \in AllValues(s)
  PROVE  /\ PartsOf(v) \subseteq AllValues(s) /\ Size(v) \in Nat
         /\ \A w \in PartsOf(v) : Size(w) < Size(v) /\ Size(w) \in Nat
         /\ v.go \in {"slice", "array"} => v.slice \in Seq(AllValues(s))
         /\ v.go = "nil slice" => v.slice = <<>>
         /\ (v.go = "nil" => v = Nil) /\ (v.go = "string" => v = Str(v.str))
         /\ v.go = "Decimal{}" => v = ZeroDec
         /\ HasElements(v) = HasElementsDef(v) /\ CallsOnNil(v) = CallsOnNilDef(v)
         /\ Infer(v) = InferDef(v)
         /\ \A t \in ParamTypes(s) : CreateValue(t, v) = CreateValueDef(t, v)
         /\ \A t \in ValueTypes(s) :
              /\ Meaning(t, v) = MeaningDef(t, v)
              /\ Leaf(t.kind).kind # "none" /\ (v.go = "Decimal" => t \in ParamTypes(s)) =>
                   LeafReadsBack(Leaf(t.kind), AsNum(v))
  <1>1. \A u \in AllValues(s) :
         /\ PartsOf(u) \subseteq AllValues(s) /\ Size(u) \in Nat
         /\ \A w \in PartsOf(u) : Size(w) < Size(u)
         /\ u.go \in {"slice", "array"} => u.slice \in Seq(AllValues(s))
         /\ u.go = "nil slice" => u.slice = <<>>
         /\ (u.go = "nil" => u = Nil) /\ (u.go = "string" => u = Str(u.str))
         /\ u.go = "Decimal{}" => u = ZeroDec
         /\ HasElements(u) = HasElementsDef(u) /\ CallsOnNil(u) = CallsOnNilDef(u)
         /\ Infer(u) = InferDef(u)
         /\ \A t \in ParamTypes(s) : CreateValue(t, u) = CreateValueDef(t, u)
         /\ \A t \in ValueTypes(s) :
              /\ Meaning(t, u) = MeaningDef(t, u)
              /\ Leaf(t.kind).kind # "none" /\ (u.go = "Decimal" => t \in ParamTypes(s)) =>
                   LeafReadsBack(Leaf(t.kind), AsNum(u))
    BY ArgumentsAssumption, Zenon
  <1> QED  BY <1>1, Zenon

\* What is assumed of the types of parameters.
LEMMA ParamTypeFacts ==
  ASSUME NEW s \in Stmts, NEW t \in ParamTypes(s)
  PROVE  /\ IsLogical(t) /\ t.kids \in Seq(ParamTypes(s))
         /\ t.kind \in {"list", "array"} => Len(t.kids) = 1
         /\ Plain("sqlnull") \in ParamTypes(s)
  <1>1. IsLogical(t) /\ t.kids \in Seq(ParamTypes(s))  BY ArgumentsAssumption, Zenon
  <1>2. t.kind \in {"list", "array"} => Len(t.kids) = 1  BY <1>1 DEF IsLogical
  <1>3. Plain("sqlnull") \in ParamTypes(s)  BY DEF ParamTypes
  <1> QED  BY <1>1, <1>2, <1>3

\* The parts of a value are values.
LEMMA PartFacts ==
  ASSUME NEW s \in Stmts, NEW v \in AllValues(s)
  PROVE  /\ v.go \in {"slice", "array"} => \A i \in DOMAIN v.slice : v.slice[i] \in PartsOf(v)
         /\ v.go = "map[string]any" => Nil \in PartsOf(v) /\ \A n \in DOMAIN v.fields : v.fields[n] \in PartsOf(v)
         /\ v.go = "pointer" => PointerValue(v.to) \in PartsOf(v)
         /\ v.go = "Valuer" => v.value \in PartsOf(v)
  BY DEF PartsOf, Range

Handles == {"value", "type"}
ElementHandles == {"element value", "element type"}

\* Making a value leaves handles alive that may be those of elements if it has any.
IsResult(m) == m = [out |-> m.out, value |-> m.value, live |-> m.live]
Owns(m) == IsResult(m) /\ m.live \subseteq Handles \cup ElementHandles
Rightly(m, v) == Owns(m) /\ (m.live \cap ElementHandles # {} => HasElements(v))

\* How a value that succeeds, fails or panics ends, and what it leaves.
LEMMA PlainResults ==
  /\ \A value : IsResult(Ok(value)) /\ Ok(value).live = Handles /\ Ok(value).out = "ok"
  /\ IsResult(Fails) /\ Fails.live = {} /\ Fails.out = "error"
  /\ IsResult(Panics) /\ Panics.live = {} /\ Panics.out = "panic"
  BY DEF IsResult, Ok, Fails, Panics, Handles

\* A result that is plain leaves no elements.
LEMMA PlainIsRight ==
  ASSUME NEW m, NEW v, m \in {Fails, Panics} \/ \E value : m = Ok(value)
  PROVE  Rightly(m, v)
  BY PlainResults DEF Rightly, Owns, Handles, ElementHandles

\* createPrimitiveValue has only plain results.
LEMMA PrimitiveIsPlain ==
  ASSUME NEW kind, NEW v
  PROVE  LET m == CreatePrimitiveValue(kind, v) IN m \in {Fails, Panics} \/ \E value : m = Ok(value)
  BY DEF CreatePrimitiveValue

\* The kinds that have no conversion.
LEMMA NoLeaf == \A k \in {"sqlnull", "integer", "bigint", "varchar"} : Leaf(k).kind = "none"
  BY DEF Leaf

\* A value that is not nil never makes a conversion panic.
LEMMA MakingLeaf ==
  ASSUME NEW kind, NEW v, kind # "sqlnull", kind \notin DOMAIN Exact, v # Nil
  PROVE  LET m == CreatePrimitiveValue(kind, v) IN m = Fails \/ \E value : m = Ok(value)
  BY DEF CreatePrimitiveValue

\* A value that was made is of type t and reads as what the Go value says.
Says(m, t, v) ==
  m.out = "ok" => m.value = Value(t, Meaning(t, v)) /\ t.kind # "invalid"

\* The types a value may get.
LEMMA ValueTypeFacts ==
  ASSUME NEW s \in Stmts
  PROVE  /\ ParamTypes(s) \subseteq ValueTypes(s)
         /\ \A kind \in OwnKinds : Plain(kind) \in ValueTypes(s)
         /\ \A v \in AllValues(s) : Infer(v).value.type \in ValueTypes(s)
  BY DEF ValueTypes

\* A plain type and its kind.
LEMMA PlainIs == \A kind : Plain(kind) = Logical(kind, <<>>, <<>>, <<>>) /\ Plain(kind).kind = kind
  BY DEF Plain, Logical

\* The two parts of a value.
LEMMA ValueIs == \A t, r : Value(t, r).type = t /\ Value(t, r).reads = r
  BY DEF Value

\* What a value that was made holds.
LEMMA OkIs == \A value : Ok(value).value = value
  BY DEF Ok

\* The kinds that stand for no leaf, and the Go values that no leaf takes.
LEMMA NoLeafKinds ==
  \A k \in {"sqlnull", "integer", "bigint", "varchar", "blob", "list", "array", "struct", "invalid"} :
    Leaf(k).kind = "none"
  BY DEF Leaf

\* The leaves of Conversions that a parameter can have.
LEMMA LeafKinds ==
  \A k : Leaf(k).kind \in {"none", "timestamp", "huge", "uhuge", "bignum", "date", "time", "timetz"}
  BY DEF Leaf
NoLeafValues == {"nil", "nil pointer", "Valuer", "pointer", "Stringer", "[]byte", "string",
                 "slice", "array", "nil slice", "map[string]any"}

\* A Go value that is no number, time or big integer is refused by every conversion.
LEMMA NotTaken ==
  ASSUME NEW k, NEW v, Leaf(k).kind # "none", v.go \in NoLeafValues
  PROVE  ~LeafTakes(Leaf(k), AsNum(v))
  <1>1. AsNum(v) = v  BY DEF AsNum, NoLeafValues
  <1>2. v.go \notin {"num", "big", "Decimal", "time"}  BY DEF NoLeafValues
  <1>3. Leaf(k).kind \in {"timestamp", "huge", "uhuge", "bignum", "date", "time", "timetz"}  BY LeafKinds
  <1> QED  BY <1>1, <1>2, <1>3 DEF LeafTakes, Integral

\* What MeaningDef says of a scalar, a nested value and one that stands for another.
LEMMA MeaningCases ==
  ASSUME NEW s \in Stmts, NEW v \in AllValues(s), NEW t \in ValueTypes(s)
  PROVE  /\ t.kind = "sqlnull" \/ v.go \in {"nil", "nil pointer"} => Meaning(t, v) = Nil
         /\ t.kind \in {"integer", "bigint", "varchar", "blob"} /\ v.go \in {"int32", "int64", "string"} =>
              Meaning(t, v) = v
         /\ t.kind = "blob" /\ v.go = "[]byte" => Meaning(t, v) = v
         /\ t.kind = "varchar" /\ v.go = "[]byte" => Meaning(t, v) = Str(v.str)
         /\ t.kind = "varchar" /\ v.go \in {"Stringer", "time", "Decimal"} => Meaning(t, v) = TextOf(v)
         /\ t.kind # "sqlnull" /\ v.go = "pointer" => Meaning(t, v) = Meaning(t, PointerValue(v.to))
         /\ t.kind # "sqlnull" /\ v.go = "Valuer" => Meaning(t, v) = Meaning(t, v.value)
         /\ t.kind \in {"list", "array"} /\ v.go \in {"slice", "array", "nil slice"} =>
              Meaning(t, v) = Slice([i \in DOMAIN v.slice |-> Meaning(t.kids[1], v.slice[i])])
         /\ t.kind = "struct" /\ v.go = "map[string]any" =>
              Meaning(t, v) = Fields([n \in Range(t.names) |->
                IF n \in DOMAIN v.fields
                  THEN Meaning(t.kids[CHOOSE i \in DOMAIN t.names : t.names[i] = n], v.fields[n]) ELSE Nil])
         /\ /\ Leaf(t.kind).kind # "none" /\ LeafTakes(Leaf(t.kind), AsNum(v))
            /\ v.go = "Decimal" => t \in ParamTypes(s)
            => Meaning(t, v) = LeafRead(Leaf(t.kind), LeafStored(Leaf(t.kind), AsNum(v)))
  <1>1. Meaning(t, v) = MeaningDef(t, v)  BY ArgumentFacts
  <1>2. t.kind = "sqlnull" \/ v.go \in {"nil", "nil pointer"} => Meaning(t, v) = Nil
    BY <1>1 DEF MeaningDef
  <1>3. t.kind \in {"integer", "bigint", "varchar", "blob"} /\ v.go \in {"int32", "int64", "string"} =>
          Meaning(t, v) = v
    BY <1>1, NoLeafKinds DEF MeaningDef
  <1>4. t.kind = "blob" /\ v.go = "[]byte" => Meaning(t, v) = v
    BY <1>1, NoLeafKinds DEF MeaningDef
  <1>5. /\ t.kind = "varchar" /\ v.go = "[]byte" => Meaning(t, v) = Str(v.str)
        /\ t.kind = "varchar" /\ v.go \in {"Stringer", "time", "Decimal"} => Meaning(t, v) = TextOf(v)
    BY <1>1, NoLeafKinds DEF MeaningDef
  <1>6. ASSUME v.go \in NoLeafValues
        PROVE  ~(Leaf(t.kind).kind # "none" /\ LeafTakes(Leaf(t.kind), AsNum(v)))
    BY <1>6, NotTaken
  <1>7. t.kind # "sqlnull" /\ v.go = "pointer" => Meaning(t, v) = Meaning(t, PointerValue(v.to))
    <2> HAVE t.kind # "sqlnull" /\ v.go = "pointer"
    <2>1. ~(Leaf(t.kind).kind # "none" /\ LeafTakes(Leaf(t.kind), AsNum(v)))  BY <1>6 DEF NoLeafValues
    <2> QED  BY <1>1, <2>1 DEF MeaningDef
  <1>8. t.kind # "sqlnull" /\ v.go = "Valuer" => Meaning(t, v) = Meaning(t, v.value)
    <2> HAVE t.kind # "sqlnull" /\ v.go = "Valuer"
    <2>1. ~(Leaf(t.kind).kind # "none" /\ LeafTakes(Leaf(t.kind), AsNum(v)))  BY <1>6 DEF NoLeafValues
    <2> QED  BY <1>1, <2>1 DEF MeaningDef
  <1>9. t.kind \in {"list", "array"} /\ v.go \in {"slice", "array", "nil slice"} =>
          Meaning(t, v) = Slice([i \in DOMAIN v.slice |-> Meaning(t.kids[1], v.slice[i])])
    BY <1>1, NoLeafKinds DEF MeaningDef
  <1>10. t.kind = "struct" /\ v.go = "map[string]any" =>
           Meaning(t, v) = Fields([n \in Range(t.names) |->
             IF n \in DOMAIN v.fields
               THEN Meaning(t.kids[CHOOSE i \in DOMAIN t.names : t.names[i] = n], v.fields[n]) ELSE Nil])
    BY <1>1, NoLeafKinds DEF MeaningDef
  <1>11. /\ Leaf(t.kind).kind # "none" /\ LeafTakes(Leaf(t.kind), AsNum(v))
         /\ v.go = "Decimal" => t \in ParamTypes(s)
         => Meaning(t, v) = LeafRead(Leaf(t.kind), LeafStored(Leaf(t.kind), AsNum(v)))
    <2> HAVE /\ Leaf(t.kind).kind # "none" /\ LeafTakes(Leaf(t.kind), AsNum(v))
             /\ v.go = "Decimal" => t \in ParamTypes(s)
    <2>1. v.go \notin NoLeafValues  BY NotTaken
    <2>2. t.kind \notin {"sqlnull", "varchar"}  BY NoLeafKinds
    <2>3. Meaning(t, v) = LeafMeaning(Leaf(t.kind), AsNum(v))
      BY <1>1, <2>1, <2>2 DEF MeaningDef, NoLeafValues
    <2>4. LeafReadsBack(Leaf(t.kind), AsNum(v))  BY ArgumentFacts
    <2> QED  BY <2>3, <2>4 DEF LeafReadsBack
  <1> QED  BY <1>2, <1>3, <1>4, <1>5, <1>7, <1>8, <1>9, <1>10, <1>11

\* createPrimitiveValue makes what the value says.
LEMMA PrimitiveMeans ==
  ASSUME NEW s \in Stmts, NEW v \in AllValues(s), NEW kind, Plain(kind) \in ValueTypes(s),
         v.go = "Decimal" => Plain(kind) \in ParamTypes(s)
  PROVE  Says(CreatePrimitiveValue(kind, v), Plain(kind), v)
  <1> DEFINE m == CreatePrimitiveValue(kind, v)
             leaf == Leaf(kind)
  <1>1. /\ DOMAIN Exact = {"integer", "bigint", "varchar"}
        /\ Exact["integer"] = "int32" /\ Exact["bigint"] = "int64" /\ Exact["varchar"] = "string"
    BY DEF Exact
  <1>2. Plain(kind).kind = kind  BY PlainIs
  <1>3. CASE kind = "sqlnull"
    <2>1. Leaf(kind).kind = "none" /\ kind \notin DOMAIN Exact  BY <1>1, <1>3, NoLeaf
    <2>2. m = Ok(NullOf(kind))  BY <1>3, <2>1 DEF CreatePrimitiveValue
    <2>3. m.value = Value(Plain(kind), Nil)  BY <2>2, OkIs DEF NullOf
    <2>4. Meaning(Plain(kind), v) = Nil  BY <1>2, <1>3, MeaningCases
    <2> HIDE DEF m
    <2>5. Says(m, Plain(kind), v)  BY <1>2, <1>3, <2>3, <2>4 DEF Says
    <2> QED  BY <2>5 DEF m
  <1>4. CASE kind \in DOMAIN Exact
    <2>1. Leaf(kind).kind = "none" /\ kind # "sqlnull"  BY <1>1, <1>4, NoLeaf
    <2>2. m = IF v.go = Exact[kind] THEN Ok(Value(Plain(kind), v)) ELSE Panics
      BY <1>4, <2>1 DEF CreatePrimitiveValue
    <2>3. CASE v.go = Exact[kind]
      <3>1. m.value = Value(Plain(kind), v)  BY <2>2, <2>3, OkIs
      <3>2. Meaning(Plain(kind), v) = v
        <4>1. v.go \in {"int32", "int64", "string"} /\ kind \in {"integer", "bigint", "varchar"}
          BY <1>1, <1>4, <2>3
        <4> QED  BY <1>2, <4>1, MeaningCases
      <3> HIDE DEF m
      <3>3. Says(m, Plain(kind), v)  BY <1>1, <1>2, <1>4, <3>1, <3>2 DEF Says
      <3> QED  BY <3>3 DEF m
    <2>4. CASE v.go # Exact[kind]
      <3>1. m = Panics  BY <2>2, <2>4
      <3> HIDE DEF m
      <3>2. Says(m, Plain(kind), v)  BY <3>1, PlainResults DEF Says
      <3> QED  BY <3>2 DEF m
    <2> QED  BY <2>3, <2>4
  <1>5. CASE kind # "sqlnull" /\ kind \notin DOMAIN Exact /\ leaf.kind # "none"
    <2>1. \/ m \in {Fails, Panics}
          \/ /\ LeafTakes(leaf, AsNum(v))
             /\ m = Ok(Value(Plain(kind), LeafRead(leaf, LeafStored(leaf, AsNum(v)))))
      <3>1. m = IF v = Nil THEN Panics
                ELSE IF LeafTakes(leaf, AsNum(v))
                  THEN Ok(Value(Plain(kind), LeafRead(leaf, LeafStored(leaf, AsNum(v)))))
                  ELSE Fails
        BY <1>5 DEF CreatePrimitiveValue
      <3> HIDE DEF m, leaf
      <3> QED  BY <3>1
    <2>2. CASE m \in {Fails, Panics}
      <3> HIDE DEF m
      <3>2. Says(m, Plain(kind), v)  BY <2>2, PlainResults DEF Says
      <3> QED  BY <3>2 DEF m
    <2>3. CASE /\ LeafTakes(leaf, AsNum(v))
               /\ m = Ok(Value(Plain(kind), LeafRead(leaf, LeafStored(leaf, AsNum(v)))))
      <3>1. Meaning(Plain(kind), v) = LeafRead(leaf, LeafStored(leaf, AsNum(v)))
        BY <1>2, <1>5, <2>3, MeaningCases
      <3>2. kind # "invalid"  BY <1>5, NoLeafKinds
      <3> HIDE DEF m, leaf
      <3>3. m.value = Value(Plain(kind), Meaning(Plain(kind), v))  BY <2>3, <3>1, OkIs
      <3>4. Says(m, Plain(kind), v)  BY <1>2, <3>2, <3>3 DEF Says
      <3> QED  BY <3>4 DEF m
    <2> QED  BY <2>1, <2>2, <2>3
  <1>6. CASE kind # "sqlnull" /\ kind \notin DOMAIN Exact /\ leaf.kind = "none"
    <2>1. m = Fails  BY <1>6 DEF CreatePrimitiveValue
    <2> HIDE DEF m
    <2>2. Says(m, Plain(kind), v)  BY <2>1, PlainResults DEF Says
    <2> QED  BY <2>2 DEF m
  <1> QED  BY <1>3, <1>4, <1>5, <1>6

\* The deferred destroys of a nested value leave the elements that were made.
LEMMA CompositeOwns ==
  ASSUME NEW n \in Nat, NEW made, DOMAIN made = 1..n, Len(made) = n, \A i \in 1..n : Owns(made[i]),
         NEW value
  PROVE  LET m == Composite(made, value) IN
         /\ Owns(m)
         /\ n = 0 => m.live \subseteq Handles
         /\ m.out = "panic" => \E i \in 1..n : made[i].out = "panic"
         /\ m.out = "ok" => m.value = value /\ \A i \in 1..n : made[i].out = "ok"
  <1> DEFINE bad == {i \in DOMAIN made : made[i].out # "ok"}
             upto == IF bad = {} THEN Len(made) ELSE Min(bad)
             kept == UNION {KeptOf(made[i].live) : i \in 1..upto}
             whole == IF bad = {} THEN Ok(value) ELSE made[upto]
             m == Composite(made, value)
  <1>1. m = [whole EXCEPT !.live = kept \cup IF bad = {} THEN @ ELSE {}]  BY DEF Composite
  <1>2. upto \in 0..n /\ (bad # {} => upto \in bad)
    <2>1. CASE bad = {}  BY <2>1
    <2>2. CASE bad # {}
      <3>1. bad \in SUBSET Nat /\ bad \subseteq 1..n  OBVIOUS
      <3>2. Min(bad) \in bad
        <4> HIDE DEF bad
        <4> QED  BY <2>2, <3>1, MinOfNat
      <3> QED  BY <2>2, <3>1, <3>2
    <2> QED  BY <2>1, <2>2
  <1>3. kept \subseteq Handles \cup ElementHandles
    <2>1. ASSUME NEW i \in 1..n PROVE KeptOf(made[i].live) \subseteq Handles \cup ElementHandles
      <3>1. made[i].live \subseteq Handles \cup ElementHandles  BY DEF Owns
      <3>2. /\ DOMAIN Kept = {"value", "type"}
            /\ Kept["value"] = "element value" /\ Kept["type"] = "element type"
        BY DEF Kept
      <3> QED  BY <3>1, <3>2 DEF KeptOf, Handles, ElementHandles
    <2>2. \A i \in 1..upto : i \in 1..n  BY <1>2
    <2> HIDE DEF upto
    <2> QED  BY <2>1, <2>2
  <1>4. n = 0 => bad = {} /\ kept = {}  OBVIOUS
  <1>5. /\ IsResult(whole)
        /\ bad = {} => whole.live = Handles /\ whole.out = "ok" /\ whole.value = value
        /\ bad # {} => upto \in 1..n /\ whole.out = made[upto].out /\ whole.out # "ok"
        /\ bad = {} => \A i \in 1..n : made[i].out = "ok"
    <2>1. CASE bad = {}  BY <2>1, PlainResults, OkIs
    <2>2. CASE bad # {}
      <3>1. upto \in bad /\ upto \in 1..n  BY <1>2, <2>2
      <3>2. whole = made[upto]  BY <2>2
      <3> HIDE DEF upto, whole
      <3> QED  BY <2>2, <3>1, <3>2 DEF Owns
    <2> QED  BY <2>1, <2>2
  <1> HIDE DEF kept, whole, bad, upto
  <1>6. m = [out |-> whole.out, value |-> whole.value, live |-> kept \cup IF bad = {} THEN whole.live ELSE {}]
    BY <1>1, <1>5 DEF IsResult
  <1> HIDE DEF m
  <1>7. Owns(m)  BY <1>3, <1>5, <1>6 DEF Owns, IsResult
  <1>8. n = 0 => m.live \subseteq Handles  BY <1>4, <1>5, <1>6
  <1>9. m.out = "panic" => \E i \in 1..n : made[i].out = "panic"  BY <1>5, <1>6
  <1>10. m.out = "ok" => m.value = value /\ \A i \in 1..n : made[i].out = "ok"  BY <1>5, <1>6
  <1> QED  BY <1>7, <1>8, <1>9, <1>10 DEF m

\* A sequence by its length.
LEMMA SeqFacts ==
  ASSUME NEW S, NEW f \in Seq(S)
  PROVE  /\ Len(f) \in Nat /\ DOMAIN f = 1..Len(f) /\ (Len(f) # 0 => f # <<>>)
         /\ \A i \in 1..Len(f) : f[i] \in S
  OBVIOUS

\* createValue leaves only handles of elements, if its parts do.
LEMMA CreateByParts ==
  ASSUME NEW s \in Stmts, NEW v \in AllValues(s),
         \A w \in PartsOf(v) : \A u \in ParamTypes(s) : Rightly(CreateValue(u, w), w),
         NEW t \in ParamTypes(s)
  PROVE  Rightly(CreateValue(t, v), v)
  <1> DEFINE elements == [i \in DOMAIN v.slice |-> CreateValue(t.kids[1], v.slice[i])]
             members == [i \in DOMAIN t.kids |-> IF t.names[i] \in DOMAIN v.fields
                                                   THEN CreateValue(t.kids[i], v.fields[t.names[i]])
                                                   ELSE CreateValue(Plain("sqlnull"), Nil)]
             reads == [n \in Range(t.names) |->
                         members[CHOOSE i \in DOMAIN t.names : t.names[i] = n].value.reads]
             list == Composite(elements, Value(t, Slice(ReadsOf(elements))))
             struct == Composite(members, Value(t, Fields(reads)))
             m == CASE t.kind \in {"list", "array"} ->
                         IF v.go \in {"slice", "array", "nil slice"} THEN list
                         ELSE IF v = Nil THEN Panics ELSE Fails
                    [] t.kind = "struct" ->
                         IF v.go = "map[string]any" THEN struct ELSE IF v = Nil THEN Panics ELSE Fails
                    [] t.kind \in {"decimal", "enum", "map", "union"} \cup Unsupported ->
                         IF v = Nil THEN Panics ELSE Fails
                    [] OTHER -> CreatePrimitiveValue(t.kind, v)
  <1>1. CreateValue(t, v) = [m EXCEPT !.live = @ \ {"type"}]
    <2>1. CreateValue(t, v) = CreateValueDef(t, v)  BY ArgumentFacts
    <2> QED  BY <2>1 DEF CreateValueDef
  <1>2. t.kids \in Seq(ParamTypes(s)) /\ (t.kind \in {"list", "array"} => Len(t.kids) = 1)
        /\ Plain("sqlnull") \in ParamTypes(s)
    BY ParamTypeFacts
  <1> HIDE DEF m, struct, members, reads
  <1>3. ASSUME t.kind \in {"list", "array"}, v.go \in {"slice", "array", "nil slice"} PROVE Rightly(list, v)
    <2> DEFINE n == Len(v.slice)
    <2> HIDE DEF list, elements
    <2>1. n \in Nat /\ DOMAIN v.slice = 1..n
          /\ (v.go = "nil slice" => n = 0) /\ (n # 0 => v.slice # <<>>)
      <3>1. CASE v.go = "nil slice"
        <4>1. v.slice = <<>>  BY <3>1, ArgumentFacts
        <4>2. Len(v.slice) = 0 /\ DOMAIN v.slice = 1..0  BY <4>1
        <4> HIDE DEF n
        <4>3. n = 0 /\ DOMAIN v.slice = 1..n  BY <4>2 DEF n
        <4> QED  BY <4>3
      <3>2. CASE v.go # "nil slice"
        <4>1. v.slice \in Seq(AllValues(s))  BY <1>3, <3>2, ArgumentFacts
        <4> QED  BY <3>2, <4>1, SeqFacts
      <3> QED  BY <3>1, <3>2
    <2> HIDE DEF n
    <2>2. t.kids[1] \in ParamTypes(s)
      <3>1. Len(t.kids) = 1  BY <1>2, <1>3
      <3> QED  BY <1>2, <3>1, SeqFacts
    <2>3. ASSUME NEW i \in 1..n PROVE Owns(elements[i])
      <3>1. v.slice[i] \in PartsOf(v)
        <4>1. ASSUME v.go = "nil slice" PROVE FALSE
          <5>1. n = 0  BY <2>1, <4>1
          <5> QED  BY <5>1
        <4>2. v.go \in {"slice", "array"}  BY <1>3, <4>1
        <4> QED  BY <2>1, <4>2, PartFacts
      <3>2. elements[i] = CreateValue(t.kids[1], v.slice[i])  BY <2>1 DEF elements
      <3> QED  BY <2>2, <3>1, <3>2 DEF Rightly
    <2>4. DOMAIN elements = 1..n /\ Len(elements) = n
      <3>1. DOMAIN elements = DOMAIN v.slice  BY DEF elements
      <3>2. DOMAIN elements = 1..n /\ n \in Nat  BY <2>1, <3>1
      <3> QED  BY <3>2
    <2>5. Owns(list) /\ (n = 0 => list.live \subseteq Handles)
      BY <2>1, <2>3, <2>4, CompositeOwns DEF list
    <2>6. n # 0 => HasElements(v)
      <3>1. HasElements(v) = HasElementsDef(v)  BY ArgumentFacts
      <3> QED  BY <1>3, <2>1, <3>1 DEF HasElementsDef
    <2> QED  BY <2>5, <2>6 DEF Rightly, Handles, ElementHandles
  <1>4. ASSUME v.go = "map[string]any" PROVE Rightly(struct, v)
    <2> DEFINE n == Len(t.kids)
    <2>1. n \in Nat /\ DOMAIN t.kids = 1..n /\ \A i \in 1..n : t.kids[i] \in ParamTypes(s)
      BY <1>2, SeqFacts
    <2> HIDE DEF n
    <2>2. ASSUME NEW i \in 1..n PROVE Owns(members[i])
      <3>1. CASE t.names[i] \in DOMAIN v.fields
        <4>1. v.fields[t.names[i]] \in PartsOf(v)  BY <1>4, <3>1, PartFacts
        <4>2. members[i] = CreateValue(t.kids[i], v.fields[t.names[i]])  BY <2>1, <3>1 DEF members
        <4> QED  BY <2>1, <4>1, <4>2 DEF Rightly
      <3>2. CASE t.names[i] \notin DOMAIN v.fields
        <4>1. Nil \in PartsOf(v)  BY <1>4, PartFacts
        <4>2. members[i] = CreateValue(Plain("sqlnull"), Nil)  BY <2>1, <3>2 DEF members
        <4> QED  BY <1>2, <4>1, <4>2 DEF Rightly
      <3> QED  BY <3>1, <3>2
    <2>3. DOMAIN members = 1..n /\ Len(members) = n  BY <2>1 DEF members
    <2>4. Owns(struct)  BY <2>1, <2>2, <2>3, CompositeOwns DEF struct
    <2>5. HasElements(v)
      <3>1. HasElements(v) = HasElementsDef(v)  BY ArgumentFacts
      <3> QED  BY <1>4, <3>1 DEF HasElementsDef
    <2> QED  BY <2>4, <2>5 DEF Rightly
  <1>5. Rightly(CreatePrimitiveValue(t.kind, v), v)  BY PrimitiveIsPlain, PlainIsRight
  <1>6. Rightly(Fails, v) /\ Rightly(Panics, v)  BY PlainIsRight
  <1> HIDE DEF list
  <1>7. Rightly(m, v)
    <2>1. CASE t.kind \in {"list", "array"}
      <3>1. m \in {list, Panics, Fails} /\ (v.go \notin {"slice", "array", "nil slice"} => m \in {Panics, Fails})
        BY <2>1 DEF m
      <3> QED  BY <1>3, <1>6, <2>1, <3>1
    <2>2. CASE t.kind = "struct"
      <3>1. m \in {struct, Panics, Fails} /\ (v.go # "map[string]any" => m \in {Panics, Fails})
        BY <2>2 DEF m
      <3> QED  BY <1>4, <1>6, <3>1
    <2>3. CASE t.kind \in {"decimal", "enum", "map", "union"} \cup Unsupported
      <3>1. m \in {Panics, Fails}  BY <2>3 DEF m, Unsupported
      <3> QED  BY <1>6, <3>1
    <2>4. CASE t.kind \notin {"list", "array", "struct", "decimal", "enum", "map", "union"} \cup Unsupported
      <3>1. m = CreatePrimitiveValue(t.kind, v)  BY <2>4 DEF m
      <3> QED  BY <1>5, <3>1
    <2> QED  BY <2>1, <2>2, <2>3, <2>4
  <1>8. CreateValue(t, v) = [out |-> m.out, value |-> m.value, live |-> m.live \ {"type"}]
    BY <1>1, <1>7 DEF Rightly, Owns, IsResult
  <1> QED  BY <1>7, <1>8 DEF Rightly, Owns, IsResult

\* And what it makes is of the type that was asked for, and what the Go value says.
LEMMA CreateMeans ==
  ASSUME NEW s \in Stmts, NEW v \in AllValues(s),
         \A w \in PartsOf(v) : \A u \in ParamTypes(s) :
           Rightly(CreateValue(u, w), w) /\ Says(CreateValue(u, w), u, w),
         NEW t \in ParamTypes(s)
  PROVE  Says(CreateValue(t, v), t, v)
  <1> DEFINE elements == [i \in DOMAIN v.slice |-> CreateValue(t.kids[1], v.slice[i])]
             members == [i \in DOMAIN t.kids |-> IF t.names[i] \in DOMAIN v.fields
                                                   THEN CreateValue(t.kids[i], v.fields[t.names[i]])
                                                   ELSE CreateValue(Plain("sqlnull"), Nil)]
             At(n) == CHOOSE i \in DOMAIN t.names : t.names[i] = n
             reads == [n \in Range(t.names) |-> members[At(n)].value.reads]
             list == Composite(elements, Value(t, Slice(ReadsOf(elements))))
             struct == Composite(members, Value(t, Fields(reads)))
             m == CASE t.kind \in {"list", "array"} ->
                         IF v.go \in {"slice", "array", "nil slice"} THEN list
                         ELSE IF v = Nil THEN Panics ELSE Fails
                    [] t.kind = "struct" ->
                         IF v.go = "map[string]any" THEN struct ELSE IF v = Nil THEN Panics ELSE Fails
                    [] t.kind \in {"decimal", "enum", "map", "union"} \cup Unsupported ->
                         IF v = Nil THEN Panics ELSE Fails
                    [] OTHER -> CreatePrimitiveValue(t.kind, v)
  <1>1. CreateValue(t, v) = [m EXCEPT !.live = @ \ {"type"}]
    <2>1. CreateValue(t, v) = CreateValueDef(t, v)  BY ArgumentFacts
    <2> QED  BY <2>1 DEF CreateValueDef
  <1>2. /\ t.kids \in Seq(ParamTypes(s)) /\ (t.kind \in {"list", "array"} => Len(t.kids) = 1)
        /\ Plain("sqlnull") \in ParamTypes(s) /\ t \in ValueTypes(s)
    BY ParamTypeFacts, ValueTypeFacts
  <1>3. Rightly(CreateValue(t, v), v)
    BY CreateByParts
  <1>4. Says(Fails, t, v) /\ Says(Panics, t, v)  BY PlainResults DEF Says
  <1> HIDE DEF m, list, struct, reads, members, elements
  <1>5. ASSUME t.kind \in {"list", "array"}, v.go \in {"slice", "array", "nil slice"} PROVE Says(list, t, v)
    <2> DEFINE n == Len(v.slice)
    <2> HIDE DEF n
    <2>1. n \in Nat /\ DOMAIN v.slice = 1..n /\ (v.go = "nil slice" => n = 0)
      <3>1. CASE v.go = "nil slice"
        <4>1. v.slice = <<>>  BY <3>1, ArgumentFacts
        <4>2. Len(v.slice) = 0 /\ DOMAIN v.slice = 1..0  BY <4>1
        <4>3. n = 0 /\ DOMAIN v.slice = 1..n  BY <4>2 DEF n
        <4> QED  BY <4>3
      <3>2. CASE v.go # "nil slice"
        <4>1. v.slice \in Seq(AllValues(s))  BY <1>5, <3>2, ArgumentFacts
        <4> QED  BY <3>2, <4>1, SeqFacts DEF n
      <3> QED  BY <3>1, <3>2
    <2>2. t.kids[1] \in ParamTypes(s)
      <3>1. Len(t.kids) = 1  BY <1>2, <1>5
      <3> QED  BY <1>2, <3>1, SeqFacts
    <2>3. ASSUME NEW i \in 1..n
          PROVE  Owns(elements[i]) /\ Says(elements[i], t.kids[1], v.slice[i])
      <3>1. v.slice[i] \in PartsOf(v)
        <4>1. ASSUME v.go = "nil slice" PROVE FALSE
          <5>1. n = 0  BY <2>1, <4>1
          <5> QED  BY <5>1
        <4>2. v.go \in {"slice", "array"}  BY <1>5, <4>1
        <4> QED  BY <2>1, <4>2, PartFacts
      <3>2. elements[i] = CreateValue(t.kids[1], v.slice[i])  BY <2>1 DEF elements
      <3> QED  BY <2>2, <3>1, <3>2 DEF Rightly
    <2>4. DOMAIN elements = 1..n /\ Len(elements) = n
      <3>1. DOMAIN elements = DOMAIN v.slice  BY DEF elements
      <3>2. DOMAIN elements = 1..n /\ n \in Nat  BY <2>1, <3>1
      <3> QED  BY <3>2
    <2>5. list.out = "ok" => /\ list.value = Value(t, Slice(ReadsOf(elements)))
                             /\ \A i \in 1..n : elements[i].out = "ok"
      BY <2>1, <2>3, <2>4, CompositeOwns DEF list
    <2>6. Meaning(t, v) = Slice([i \in DOMAIN v.slice |-> Meaning(t.kids[1], v.slice[i])])
      BY <1>2, <1>5, MeaningCases
    <2>7. ASSUME list.out = "ok"
          PROVE  ReadsOf(elements) = [i \in DOMAIN v.slice |-> Meaning(t.kids[1], v.slice[i])]
      <3>1. \A i \in 1..n : elements[i].value.reads = Meaning(t.kids[1], v.slice[i])
        BY <2>3, <2>5, <2>7, ValueIs DEF Says
      <3>2. ReadsOf(elements) = [i \in 1..n |-> elements[i].value.reads]  BY <2>4 DEF ReadsOf
      <3> QED  BY <2>1, <3>1, <3>2
    <2> QED  BY <1>5, <2>5, <2>6, <2>7 DEF Says
  <1>6. ASSUME t.kind = "struct", v.go = "map[string]any" PROVE Says(struct, t, v)
    <2> DEFINE n == Len(t.kids)
    <2>1. n \in Nat /\ DOMAIN t.kids = 1..n /\ \A i \in 1..n : t.kids[i] \in ParamTypes(s)
      BY <1>2, SeqFacts
    <2>2. DOMAIN t.names = 1..n
      <3>1. IsLogical(t)  BY ParamTypeFacts
      <3>2. t.names \in Seq(STRING) /\ Len(t.names) = n  BY <1>6, <3>1 DEF IsLogical
      <3> HIDE DEF n
      <3> QED  BY <3>2, SeqFacts
    <2> HIDE DEF n
    <2>3. ASSUME NEW i \in 1..n
          PROVE  /\ Owns(members[i])
                 /\ members[i].out = "ok" =>
                      members[i].value.reads = IF t.names[i] \in DOMAIN v.fields
                                                 THEN Meaning(t.kids[i], v.fields[t.names[i]]) ELSE Nil
      <3>1. CASE t.names[i] \in DOMAIN v.fields
        <4>1. v.fields[t.names[i]] \in PartsOf(v)  BY <1>6, <3>1, PartFacts
        <4>2. members[i] = CreateValue(t.kids[i], v.fields[t.names[i]])  BY <2>1, <3>1 DEF members
        <4>3. /\ Rightly(members[i], v.fields[t.names[i]])
              /\ Says(members[i], t.kids[i], v.fields[t.names[i]])
          BY <2>1, <4>1, <4>2
        <4> QED  BY <3>1, <4>3, ValueIs DEF Rightly, Says
      <3>2. CASE t.names[i] \notin DOMAIN v.fields
        <4>1. Nil \in PartsOf(v)  BY <1>6, PartFacts
        <4>2. members[i] = CreateValue(Plain("sqlnull"), Nil)  BY <2>1, <3>2 DEF members
        <4>3. Rightly(members[i], Nil) /\ Says(members[i], Plain("sqlnull"), Nil)
          BY <1>2, <4>1, <4>2
        <4>4. Meaning(Plain("sqlnull"), Nil) = Nil
          <5>1. Nil \in AllValues(s) /\ Plain("sqlnull") \in ValueTypes(s)
            BY <1>2, ValueTypeFacts DEF AllValues
          <5>2. Plain("sqlnull").kind = "sqlnull"  BY PlainIs
          <5> QED  BY <5>1, <5>2, MeaningCases
        <4> QED  BY <3>2, <4>3, <4>4, ValueIs DEF Rightly, Says
      <3> QED  BY <3>1, <3>2
    <2>4. DOMAIN members = 1..n /\ Len(members) = n  BY <2>1 DEF members
    <2>5. struct.out = "ok" => struct.value = Value(t, Fields(reads)) /\ \A i \in 1..n : members[i].out = "ok"
      BY <2>1, <2>3, <2>4, CompositeOwns DEF struct
    <2>6. Meaning(t, v) = Fields([name \in Range(t.names) |->
                            IF name \in DOMAIN v.fields THEN Meaning(t.kids[At(name)], v.fields[name]) ELSE Nil])
      BY <1>2, <1>6, MeaningCases
    <2>7. ASSUME struct.out = "ok", NEW name \in Range(t.names)
          PROVE  reads[name] = IF name \in DOMAIN v.fields THEN Meaning(t.kids[At(name)], v.fields[name]) ELSE Nil
      <3>1. At(name) \in 1..n /\ t.names[At(name)] = name
        <4>1. \E i \in DOMAIN t.names : t.names[i] = name  BY DEF Range
        <4>2. At(name) \in DOMAIN t.names /\ t.names[At(name)] = name  BY <4>1
        <4> HIDE DEF At
        <4> QED  BY <2>2, <4>2
      <3>2. reads[name] = members[At(name)].value.reads  BY DEF reads
      <3> HIDE DEF At
      <3> QED  BY <2>3, <2>5, <2>7, <3>1, <3>2
    <2>8. struct.out = "ok" => Fields(reads) = Meaning(t, v)
      <3> HIDE DEF At
      <3>1. reads = [name \in Range(t.names) |-> reads[name]]  BY DEF reads
      <3> QED  BY <2>6, <2>7, <3>1
    <2> QED  BY <1>6, <2>5, <2>8 DEF Says
  <1>7. ASSUME t.kind \notin Composed \cup {"decimal", "enum"} \cup Unsupported
        PROVE  Says(CreatePrimitiveValue(t.kind, v), t, v)
    <2>1. IsLogical(t)  BY ParamTypeFacts
    <2>2. t = Plain(t.kind)
      <3>1. t.kind \notin {"list", "array", "map", "struct", "union"}  BY <1>7 DEF Composed
      <3>2. t.kids = <<>> /\ t.names = <<>> /\ t.nums = <<>>
        BY <1>7, <2>1, <3>1 DEF IsLogical
      <3>3. t = Logical(t.kind, t.kids, t.names, t.nums)  BY <2>1 DEF IsLogical
      <3> QED  BY <3>2, <3>3, PlainIs
    <2>3. Plain(t.kind) \in ValueTypes(s) /\ Plain(t.kind) \in ParamTypes(s)  BY <1>2, <2>2
    <2>4. Says(CreatePrimitiveValue(t.kind, v), Plain(t.kind), v)  BY <2>3, PrimitiveMeans
    <2> QED  BY <2>2, <2>4
  <1>8. Says(m, t, v)
    <2>1. CASE t.kind \in {"list", "array"}
      <3>1. m \in {list, Panics, Fails} /\ (v.go \notin {"slice", "array", "nil slice"} => m \in {Panics, Fails})
        BY <2>1 DEF m
      <3> QED  BY <1>4, <1>5, <2>1, <3>1
    <2>2. CASE t.kind = "struct"
      <3>1. m \in {struct, Panics, Fails} /\ (v.go # "map[string]any" => m \in {Panics, Fails})
        BY <2>2 DEF m
      <3> QED  BY <1>4, <1>6, <2>2, <3>1
    <2>3. CASE t.kind \in {"decimal", "enum", "map", "union"} \cup Unsupported
      <3>1. m \in {Panics, Fails}  BY <2>3 DEF m, Unsupported
      <3> QED  BY <1>4, <3>1
    <2>4. CASE t.kind \notin {"list", "array", "struct", "decimal", "enum", "map", "union"} \cup Unsupported
      <3>1. m = CreatePrimitiveValue(t.kind, v)  BY <2>4 DEF m
      <3>2. t.kind \notin Composed \cup {"decimal", "enum"} \cup Unsupported  BY <2>4 DEF Composed
      <3> QED  BY <1>7, <3>1, <3>2
    <2> QED  BY <2>1, <2>2, <2>3, <2>4
  <1>9. CreateValue(t, v).out = m.out /\ (m.out = "ok" => CreateValue(t, v).value = m.value)
    <2>1. DOMAIN CreateValue(t, v) = {"out", "value", "live"}  BY <1>3 DEF Rightly, Owns, IsResult
    <2> QED  BY <1>1, <2>1
  <1> QED  BY <1>8, <1>9 DEF Says

\* A value of a Go type that has a type of its own does not panic.
LEMMA InferPrimitive ==
  ASSUME NEW v, NEW kind, kind = InferPrimitiveType(v), kind # "",
         NEW w, w = IF kind = "varchar" THEN Str(v.str) ELSE v
  PROVE  LET m == CreatePrimitiveValue(kind, w) IN Rightly(m, v) /\ m.out # "panic"
  <1> DEFINE m == CreatePrimitiveValue(kind, w)
  <1>1. Rightly(m, v)  BY PrimitiveIsPlain, PlainIsRight
  <1>2. /\ DOMAIN Exact = {"integer", "bigint", "varchar"}
        /\ Exact["integer"] = "int32" /\ Exact["bigint"] = "int64" /\ Exact["varchar"] = "string"
    BY DEF Exact
  <1>3. CASE kind = "sqlnull"
    <2>1. Leaf(kind).kind = "none" /\ kind \notin DOMAIN Exact  BY <1>2, <1>3, NoLeaf
    <2>2. m = Ok(NullOf(kind))  BY <1>3, <2>1 DEF CreatePrimitiveValue
    <2> HIDE DEF m
    <2>3. m.out = "ok"  BY <2>2, PlainResults
    <2> QED  BY <1>1, <2>3 DEF m
  <1>4. CASE kind \in DOMAIN Exact
    <2>1. w.go = Exact[kind]
      <3>1. CASE kind = "integer"  BY <1>2, <3>1 DEF InferPrimitiveType
      <3>2. CASE kind = "bigint"  BY <1>2, <3>2 DEF InferPrimitiveType
      <3>3. CASE kind = "varchar"
        <4>1. w = Str(v.str)  BY <3>3
        <4>2. Str(v.str).go = "string"  BY DEF Str
        <4> QED  BY <1>2, <3>3, <4>1, <4>2
      <3> QED  BY <1>2, <1>4, <3>1, <3>2, <3>3
    <2>2. kind # "sqlnull" /\ Leaf(kind).kind = "none"  BY <1>2, <1>4, NoLeaf
    <2>3. m = Ok(Value(Plain(kind), w))  BY <1>4, <2>1, <2>2 DEF CreatePrimitiveValue
    <2> HIDE DEF m
    <2>4. m.out = "ok"  BY <2>3, PlainResults
    <2> QED  BY <1>1, <2>4 DEF m
  <1>5. CASE kind \in {"timestamp_tz", "hugeint"}
    <2>1. w = v /\ (v.go \in {"time", "big"} \/ v = NilBig)
      BY <1>5 DEF InferPrimitiveType
    <2>2. v # Nil
      <3>1. NilBig.go = "nil pointer" /\ Nil.go = "nil"  BY DEF NilBig, NilPtr, Nil
      <3> QED  BY <2>1, <3>1
    <2>3. m = Fails \/ \E value : m = Ok(value)
      <3>1. kind # "sqlnull" /\ kind \notin DOMAIN Exact  BY <1>2, <1>5
      <3> QED  BY <2>1, <2>2, <3>1, MakingLeaf
    <2> HIDE DEF m
    <2>4. m.out # "panic"  BY <2>3, PlainResults
    <2> QED  BY <1>1, <2>4 DEF m
  <1>6. kind \in {"sqlnull", "integer", "bigint", "varchar", "timestamp_tz", "hugeint", ""}
    BY DEF InferPrimitiveType
  <1> QED  BY <1>2, <1>3, <1>4, <1>5, <1>6

\* What is claimed of inferLogicalTypeAndValue.
Inferring(v) == Rightly(Infer(v), v) /\ (Infer(v).out = "panic" => CallsOnNil(v))

\* A String method panics on a nil only.
LEMMA CallStringIsRight ==
  ASSUME NEW s \in Stmts, NEW v \in AllValues(s), HasString(v)
  PROVE  Rightly(CallString(v), v) /\ (CallString(v).out = "panic" => CallsOnNil(v))
  <1> DEFINE m == CallString(v)
  <1>1. m \in {Fails, Panics} \/ \E value : m = Ok(value)  BY DEF CallString
  <1>2. Rightly(m, v)  BY <1>1, PlainIsRight
  <1>3. CallsOnNil(v) = CallsOnNilDef(v)  BY ArgumentFacts
  <1>4. m.out = "panic" => v.go = "nil pointer" \/ Pointed(v) = ZeroDec
    BY PlainResults DEF CallString
  <1>5. CASE v.go = "nil pointer"
    <2>1. v.type \in HasNilMethods  BY <1>5 DEF HasString, Printable
    <2> QED  BY <1>2, <1>3, <1>5, <2>1 DEF CallsOnNilDef
  <1>6. CASE v.go # "nil pointer" /\ v.go # "pointer"
    <2>1. Pointed(v) = v  BY <1>6 DEF Pointed
    <2> QED  BY <1>2, <1>3, <1>4, <1>6, <2>1 DEF CallsOnNilDef
  <1>7. CASE v.go = "pointer"
    <2>1. ASSUME v.to = ZeroDec PROVE CallsOnNil(v)
      <3>1. ZeroDec.go = "Decimal{}"  BY DEF ZeroDec
      <3>2. PointerValue(v.to) = ZeroDec  BY <2>1, <3>1 DEF PointerValue
      <3>3. ZeroDec \in AllValues(s)  BY <1>7, <3>2, PartFacts, ArgumentFacts
      <3>4. CallsOnNil(ZeroDec)
        <4>1. CallsOnNil(ZeroDec) = CallsOnNilDef(ZeroDec)  BY <3>3, ArgumentFacts
        <4> QED  BY <4>1 DEF CallsOnNilDef
      <3> QED  BY <1>3, <1>7, <3>2, <3>4 DEF CallsOnNilDef
    <2>2. Pointed(v) = v.to  BY <1>7 DEF Pointed
    <2> QED  BY <1>2, <1>4, <1>7, <2>1, <2>2
  <1> QED  BY <1>5, <1>6, <1>7

\* A beginning of a sequence.
LEMMA Beginning ==
  ASSUME NEW n \in Nat, NEW f, DOMAIN f = 1..n, Len(f) = n, NEW k \in 1..n
  PROVE  LET g == SubSeq(f, 1, k) IN DOMAIN g = 1..k /\ Len(g) = k /\ \A i \in 1..k : g[i] = f[i]
  OBVIOUS

\* inferLogicalTypeAndValue leaves and panics as is claimed, if it does for the parts.
LEMMA InferByParts ==
  ASSUME NEW s \in Stmts, NEW v \in AllValues(s), \A w \in PartsOf(v) : Inferring(w)
  PROVE  Inferring(v)
  <1> DEFINE kind == InferPrimitiveType(v)
             made == [i \in DOMAIN v.slice |-> Infer(v.slice[i])]
             child == IF made = <<>> THEN Plain("sqlnull") ELSE made[1].value.type
             list == IF v.go = "array" THEN ArrayOf(child, Len(made)) ELSE ListOf(child)
             mixed == {i \in DOMAIN made : made[i].out # "ok" \/ made[i].value.type # child}
             upto == IF mixed = {} THEN made ELSE SubSeq(made, 1, Min(mixed))
             all == Composite(upto, Value(list, Slice(ReadsOf(made))))
             nested == IF all.out = "ok" /\ mixed # {} THEN [Fails EXCEPT !.live = all.live \ {"value", "type"}]
                       ELSE all
  <1>1. Infer(v) =
          IF kind # "" THEN CreatePrimitiveValue(kind, IF kind = "varchar" THEN Str(v.str) ELSE v)
          ELSE IF HasString(v) THEN CallString(v)
          ELSE
            CASE v.go \in {"nil slice", "nil pointer"} -> Ok(NullOf("sqlnull"))
            [] v.go = "pointer" -> Infer(PointerValue(v.to))
            [] v.go \in {"slice", "array"} -> nested
            [] OTHER -> Fails
    <2>1. Infer(v) = InferDef(v)  BY ArgumentFacts
    <2> QED  BY <2>1 DEF InferDef
  <1>2. HasElements(v) = HasElementsDef(v) /\ CallsOnNil(v) = CallsOnNilDef(v)  BY ArgumentFacts
  <1>3. ASSUME v.go \in {"slice", "array"} PROVE Rightly(nested, v) /\ (nested.out = "panic" => CallsOnNil(v))
    <2> DEFINE n == Len(v.slice)
    <2>1. v.slice \in Seq(AllValues(s))  BY <1>3, ArgumentFacts
    <2>2. n \in Nat /\ DOMAIN v.slice = 1..n /\ (n # 0 => v.slice # <<>>)  BY <2>1
    <2>3. DOMAIN made = 1..n /\ Len(made) = n /\ \A i \in 1..n : made[i] = Infer(v.slice[i])  BY <2>2
    <2>4. ASSUME NEW i \in 1..n PROVE Owns(made[i]) /\ (made[i].out = "panic" => CallsOnNil(v.slice[i]))
      <3>1. v.slice[i] \in PartsOf(v)  BY <1>3, <2>2, PartFacts
      <3> QED  BY <2>3, <3>1 DEF Inferring, Rightly
    <2>5. mixed \in SUBSET Nat /\ mixed \subseteq 1..n  BY <2>3
    <2> HIDE DEF made, n, mixed
    <2>6. \E k \in 0..n : /\ DOMAIN upto = 1..k /\ Len(upto) = k /\ \A i \in 1..k : upto[i] = made[i]
                          /\ mixed # {} => k # 0
      <3>1. CASE mixed = {}  BY <2>2, <2>3, <3>1
      <3>2. CASE mixed # {}
        <4>1. Min(mixed) \in 1..n  BY <2>5, <3>2, MinOfNat
        <4> QED  BY <2>2, <2>3, <3>2, <4>1, Beginning
      <3> QED  BY <3>1, <3>2
    <2>7. PICK k \in 0..n : /\ DOMAIN upto = 1..k /\ Len(upto) = k /\ \A i \in 1..k : upto[i] = made[i]
                            /\ mixed # {} => k # 0
      BY <2>6
    <2> HIDE DEF upto
    <2>8. /\ Owns(all) /\ (k = 0 => all.live \subseteq Handles)
          /\ all.out = "panic" => \E i \in 1..k : upto[i].out = "panic"
      <3>1. k \in Nat /\ \A i \in 1..k : Owns(upto[i])  BY <2>2, <2>4, <2>7
      <3> QED  BY <2>7, <3>1, CompositeOwns
    <2> HIDE DEF all
    <2>9. k # 0 => HasElements(v)  BY <1>2, <1>3, <2>2, <2>7 DEF HasElementsDef, n
    <2>10. all.out = "panic" => CallsOnNil(v)
      <3>1. ASSUME all.out = "panic" PROVE \E i \in DOMAIN v.slice : CallsOnNil(v.slice[i])
        BY <2>2, <2>4, <2>7, <2>8, <3>1
      <3> QED  BY <1>2, <1>3, <3>1 DEF CallsOnNilDef
    <2>11. CASE all.out = "ok" /\ mixed # {}
      <3>1. nested = [out |-> "error", value |-> Fails.value, live |-> all.live \ {"value", "type"}]
        BY <2>11, PlainResults DEF IsResult
      <3> QED  BY <2>7, <2>8, <2>9, <2>11, <3>1 DEF Rightly, Owns, IsResult
    <2>12. CASE ~(all.out = "ok" /\ mixed # {})
      <3>1. nested = all  BY <2>12
      <3> QED  BY <2>8, <2>9, <2>10, <3>1 DEF Rightly, Owns, Handles, ElementHandles
    <2> QED  BY <2>11, <2>12
  <1> HIDE DEF nested, all, upto, mixed, list, child, made
  <1>4. CASE kind # ""
    <2> DEFINE w == IF kind = "varchar" THEN Str(v.str) ELSE v
               m == CreatePrimitiveValue(kind, w)
    <2>2. Infer(v) = m  BY <1>1, <1>4
    <2>3. Rightly(m, v) /\ m.out # "panic"
      <3> HIDE DEF kind
      <3>1. kind = InferPrimitiveType(v)  BY DEF kind
      <3> HIDE DEF w
      <3>2. w = IF kind = "varchar" THEN Str(v.str) ELSE v  BY DEF w
      <3> QED  BY <1>4, <3>1, <3>2, InferPrimitive
    <2> HIDE DEF m
    <2> QED  BY <2>2, <2>3 DEF Inferring
  <1>5. CASE kind = "" /\ HasString(v)
    <2>1. Infer(v) = CallString(v)  BY <1>1, <1>5
    <2> QED  BY <1>5, <2>1, CallStringIsRight DEF Inferring
  <1>6. CASE kind = "" /\ ~HasString(v) /\ v.go \in {"nil slice", "nil pointer"}
    <2>1. \E value : Infer(v) = Ok(value)  BY <1>1, <1>6
    <2> QED  BY <2>1, PlainResults, PlainIsRight DEF Inferring
  <1>7. CASE kind = "" /\ ~HasString(v) /\ v.go = "pointer"
    <2> DEFINE w == PointerValue(v.to)
    <2>1. Infer(v) = Infer(w)  BY <1>1, <1>7
    <2>2. Inferring(w)  BY <1>7, PartFacts
    <2>3. (HasElements(w) => HasElements(v)) /\ (CallsOnNil(w) => CallsOnNil(v))
      BY <1>2, <1>7 DEF HasElementsDef, CallsOnNilDef
    <2> QED  BY <2>1, <2>2, <2>3 DEF Inferring, Rightly
  <1>8. CASE kind = "" /\ ~HasString(v) /\ v.go \in {"slice", "array"}
    BY <1>1, <1>3, <1>8 DEF Inferring
  <1>9. CASE /\ kind = "" /\ ~HasString(v)
             /\ v.go \notin {"nil slice", "nil pointer", "pointer", "slice", "array"}
    <2>1. Infer(v) = Fails  BY <1>1, <1>9
    <2> QED  BY <2>1, PlainResults, PlainIsRight DEF Inferring
  <1> QED  BY <1>4, <1>5, <1>6, <1>7, <1>8, <1>9

\* The type of an inferred value says what the Go value says too.
Telling(v) == Says(Infer(v), Infer(v).value.type, v)

\* Of a value of a Go type that has a type of its own.
LEMMA PrimitiveTells ==
  ASSUME NEW s \in Stmts, NEW v \in AllValues(s), NEW kind, kind = InferPrimitiveType(v), kind # "",
         NEW w, w = IF kind = "varchar" THEN Str(v.str) ELSE v
  PROVE  LET m == CreatePrimitiveValue(kind, w) IN
         Says(m, Plain(kind), v) /\ (m.out = "ok" => m.value.type = Plain(kind))
  <1> DEFINE m == CreatePrimitiveValue(kind, w)
  <1>1. kind \in OwnKinds /\ Plain(kind) \in ValueTypes(s)
    <2>1. kind \in OwnKinds  BY DEF InferPrimitiveType, OwnKinds, BigKinds
    <2> QED  BY <2>1, ValueTypeFacts
  <1>2. CASE kind # "varchar"
    <2>1. Says(m, Plain(kind), v)
      <3>1. NilBig.go = "nil pointer"  BY DEF NilBig, NilPtr
      <3>2. v.go # "Decimal"  BY <3>1 DEF InferPrimitiveType
      <3> QED  BY <1>1, <1>2, <3>2, PrimitiveMeans
    <2> HIDE DEF m
    <2>2. m.out = "ok" => m.value.type = Plain(kind)  BY <2>1, ValueIs DEF Says
    <2> QED  BY <2>1, <2>2 DEF m
  <1>3. CASE kind = "varchar"
    <2>1. v.go \in {"string", "[]byte"}  BY <1>3 DEF InferPrimitiveType
    <2>2. "varchar" # "sqlnull" /\ "varchar" \in DOMAIN Exact /\ Exact["varchar"] = "string"  BY DEF Exact
    <2>3. w = Str(v.str) /\ w.go = "string"
      <3>1. w = Str(v.str)  BY <1>3
      <3>2. Str(v.str).go = "string"  BY DEF Str
      <3> QED  BY <3>1, <3>2
    <2>4. Leaf("varchar").kind = "none"  BY NoLeaf
    <2>5. m = Ok(Value(Plain(kind), w))
      BY <1>3, <2>2, <2>3, <2>4 DEF CreatePrimitiveValue
    <2>6. Meaning(Plain(kind), v) = w
      <3>1. Plain(kind).kind = "varchar"  BY <1>3, PlainIs
      <3>2. CASE v.go = "string"
        <4>1. Meaning(Plain(kind), v) = v  BY <1>1, <3>1, <3>2, MeaningCases
        <4>2. v = Str(v.str)  BY <3>2, ArgumentFacts
        <4> QED  BY <2>3, <4>1, <4>2
      <3>3. CASE v.go = "[]byte"
        <4>1. Meaning(Plain(kind), v) = Str(v.str)  BY <1>1, <3>1, <3>3, MeaningCases
        <4> QED  BY <2>3, <4>1
      <3> QED  BY <2>1, <3>2, <3>3
    <2>7. Plain(kind).kind # "invalid"  BY <1>3, PlainIs
    <2> HIDE DEF m
    <2>8. m.value = Value(Plain(kind), w)  BY <2>5, OkIs
    <2>9. Says(m, Plain(kind), v)  BY <2>6, <2>7, <2>8 DEF Says
    <2>10. m.value.type = Plain(kind)  BY <2>8, ValueIs
    <2> QED  BY <2>9, <2>10 DEF m
  <1> QED  BY <1>2, <1>3

\* A value that was made is what is said of it.
LEMMA OkTells ==
  ASSUME NEW s \in Stmts, NEW v \in AllValues(s), NEW kind, NEW r, NEW m, m = Ok(Value(Plain(kind), r)),
         kind # "invalid", Meaning(Plain(kind), v) = r
  PROVE  Says(m, Plain(kind), v) /\ m.value.type = Plain(kind)
  <1>1. m.value = Value(Plain(kind), r)  BY OkIs
  <1>2. m.value.type = Plain(kind)  BY <1>1, ValueIs
  <1> QED  BY <1>1, <1>2, PlainIs DEF Says

\* A String method gives the text that the value says as a VARCHAR.
LEMMA CallStringTells ==
  ASSUME NEW s \in Stmts, NEW v \in AllValues(s), HasString(v), CallString(v).out = "ok"
  PROVE  CallString(v) = Ok(Value(Plain("varchar"), TextOf(v))) /\ Meaning(Plain("varchar"), v) = TextOf(v)
  <1> DEFINE t == Plain("varchar")
  <1>1. t \in ValueTypes(s) /\ t.kind = "varchar"  BY ValueTypeFacts, PlainIs DEF OwnKinds
  <1> HIDE DEF t
  <1>2. v.go # "nil pointer" /\ Pointed(v) # ZeroDec  BY PlainResults DEF CallString
  <1>3. CallString(v) = Ok(Value(t, TextOf(v)))  BY <1>2 DEF CallString, t
  <1>4. CASE v.go \in Printable
    <2>1. v.go # "Decimal{}"
      <3>1. v.go = "Decimal{}" => v = ZeroDec /\ Pointed(v) = v  BY ArgumentFacts DEF Pointed
      <3> QED  BY <1>2, <3>1
    <2> QED  BY <1>1, <1>3, <1>4, <2>1, MeaningCases DEF Printable, t
  <1>5. CASE v.go = "pointer" /\ v.to.go \in Printable
    <2>1. PointerValue(v.to) = v.to  BY <1>5 DEF PointerValue, Printable
    <2>2. v.to \in AllValues(s)  BY <1>5, <2>1, PartFacts, ArgumentFacts
    <2>3. Pointed(v) = v.to /\ Pointed(v.to) = v.to  BY <1>5 DEF Pointed, Printable
    <2>4. v.to.go # "Decimal{}"
      <3>1. v.to.go = "Decimal{}" => v.to = ZeroDec  BY <2>2, ArgumentFacts
      <3> QED  BY <1>2, <2>3, <3>1
    <2>5. Meaning(t, v.to) = TextOf(v.to)  BY <1>1, <1>5, <2>2, <2>4, MeaningCases DEF Printable
    <2>6. Meaning(t, v) = Meaning(t, v.to)  BY <1>1, <1>5, <2>1, MeaningCases
    <2>7. TextOf(v) = TextOf(v.to)  BY <2>3 DEF TextOf
    <2> QED  BY <1>3, <2>5, <2>6, <2>7 DEF t
  <1> QED  BY <1>2, <1>4, <1>5 DEF HasString

\* Of a value of any Go type, if its parts do.
LEMMA InferMeans ==
  ASSUME NEW s \in Stmts, NEW v \in AllValues(s), \A w \in PartsOf(v) : Inferring(w) /\ Telling(w)
  PROVE  Telling(v)
  <1> DEFINE kind == InferPrimitiveType(v)
             made == [i \in DOMAIN v.slice |-> Infer(v.slice[i])]
             child == IF made = <<>> THEN Plain("sqlnull") ELSE made[1].value.type
             list == IF v.go = "array" THEN ArrayOf(child, Len(made)) ELSE ListOf(child)
             mixed == {i \in DOMAIN made : made[i].out # "ok" \/ made[i].value.type # child}
             upto == IF mixed = {} THEN made ELSE SubSeq(made, 1, Min(mixed))
             all == Composite(upto, Value(list, Slice(ReadsOf(made))))
             nested == IF all.out = "ok" /\ mixed # {} THEN [Fails EXCEPT !.live = all.live \ {"value", "type"}]
                       ELSE all
  <1>1. Infer(v) =
          IF kind # "" THEN CreatePrimitiveValue(kind, IF kind = "varchar" THEN Str(v.str) ELSE v)
          ELSE IF HasString(v) THEN CallString(v)
          ELSE
            CASE v.go \in {"nil slice", "nil pointer"} -> Ok(NullOf("sqlnull"))
            [] v.go = "pointer" -> Infer(PointerValue(v.to))
            [] v.go \in {"slice", "array"} -> nested
            [] OTHER -> Fails
    <2>1. Infer(v) = InferDef(v)  BY ArgumentFacts
    <2> QED  BY <2>1 DEF InferDef
  <1>2. Infer(v).value.type \in ValueTypes(s) /\ \A k \in OwnKinds : Plain(k) \in ValueTypes(s)
    BY ValueTypeFacts
  <1>3. ASSUME v.go \in {"slice", "array"}, Infer(v) = nested PROVE Telling(v)
    <2> DEFINE n == Len(v.slice)
    <2>1. v.slice \in Seq(AllValues(s))  BY <1>3, ArgumentFacts
    <2>2. n \in Nat /\ DOMAIN v.slice = 1..n  BY <2>1
    <2>3. DOMAIN made = 1..n /\ Len(made) = n /\ \A i \in 1..n : made[i] = Infer(v.slice[i])  BY <2>2
    <2>4. ASSUME NEW i \in 1..n PROVE Owns(made[i]) /\ Telling(v.slice[i])
      <3>1. v.slice[i] \in PartsOf(v)  BY <1>3, <2>2, PartFacts
      <3> QED  BY <2>3, <3>1 DEF Inferring, Rightly
    <2>5. list.kind \in {"list", "array"} /\ list.kids[1] = child
      <3> HIDE DEF child, made
      <3> QED  BY DEF ListOf, ArrayOf, Logical
    <2>6. mixed = {} => \A i \in 1..n : made[i].out = "ok" /\ made[i].value.type = child
      <3> HIDE DEF child
      <3> QED  BY <2>3
    <2> HIDE DEF made, n, child, list
    <2>7. mixed = {} => upto = made  OBVIOUS
    <2> HIDE DEF mixed, upto
    <2>8. ASSUME Infer(v).out = "ok"
          PROVE  mixed = {} /\ Infer(v).value = Value(list, Slice(ReadsOf(made)))
      <3>1. mixed = {}
        <4> SUFFICES ASSUME mixed # {} PROVE FALSE
          OBVIOUS
        <4>1. CASE all.out = "ok"
          <5> HIDE DEF all
          <5>1. nested = [out |-> "error", value |-> Fails.value, live |-> all.live \ {"value", "type"}]
            BY <4>1, PlainResults DEF IsResult
          <5> QED  BY <1>3, <2>8, <5>1
        <4>2. CASE all.out # "ok"
          <5> HIDE DEF all
          <5> QED  BY <1>3, <2>8, <4>2
        <4> QED  BY <4>1, <4>2
      <3>2. Infer(v) = all
        <4> HIDE DEF all
        <4> QED  BY <1>3, <3>1
      <3>3. all.out = "ok" => all.value = Value(list, Slice(ReadsOf(made)))
        <4>1. all = Composite(made, Value(list, Slice(ReadsOf(made))))  BY <2>7, <3>1
        <4> HIDE DEF all
        <4> QED  BY <2>2, <2>3, <2>4, <4>1, CompositeOwns
      <3> HIDE DEF all
      <3> QED  BY <2>8, <3>1, <3>2, <3>3
    <2> HIDE DEF nested, all
    <2>9. ASSUME Infer(v).out = "ok" PROVE Infer(v).value = Value(list, Meaning(list, v)) /\ list.kind # "invalid"
      <3>1. list \in ValueTypes(s)  BY <1>2, <2>8, <2>9, ValueIs
      <3>2. Meaning(list, v) = Slice([i \in DOMAIN v.slice |-> Meaning(child, v.slice[i])])
        <4>1. Meaning(list, v) = Slice([i \in DOMAIN v.slice |-> Meaning(list.kids[1], v.slice[i])])
          BY <1>3, <2>5, <3>1, MeaningCases
        <4> QED  BY <2>5, <4>1
      <3>3. \A i \in 1..n : made[i].value.reads = Meaning(child, v.slice[i])
        BY <2>3, <2>4, <2>6, <2>8, <2>9, ValueIs DEF Telling, Says
      <3>4. ReadsOf(made) = [i \in 1..n |-> made[i].value.reads]  BY <2>3 DEF ReadsOf
      <3>5. ReadsOf(made) = [i \in DOMAIN v.slice |-> Meaning(child, v.slice[i])]
        BY <2>2, <3>3, <3>4
      <3> QED  BY <2>5, <2>8, <2>9, <3>2, <3>5
    <2> QED  BY <2>9, ValueIs DEF Telling, Says
  <1> HIDE DEF nested, all, upto, mixed, list, child, made
  <1>4. CASE kind # ""
    <2> DEFINE w == IF kind = "varchar" THEN Str(v.str) ELSE v
               m == CreatePrimitiveValue(kind, w)
    <2>1. Infer(v) = m  BY <1>1, <1>4
    <2>2. Says(m, Plain(kind), v) /\ (m.out = "ok" => m.value.type = Plain(kind))
      <3> HIDE DEF kind
      <3>1. kind = InferPrimitiveType(v)  BY DEF kind
      <3> HIDE DEF w
      <3>2. w = IF kind = "varchar" THEN Str(v.str) ELSE v  BY DEF w
      <3> QED  BY <1>4, <3>1, <3>2, PrimitiveTells
    <2> HIDE DEF m
    <2> QED  BY <2>1, <2>2 DEF Telling, Says
  <1>5. CASE kind = "" /\ HasString(v)
    <2>1. Infer(v) = CallString(v)  BY <1>1, <1>5
    <2>2. CASE Infer(v).out = "ok"
      <3>1. Infer(v) = Ok(Value(Plain("varchar"), TextOf(v))) /\ Meaning(Plain("varchar"), v) = TextOf(v)
        BY <1>5, <2>1, <2>2, CallStringTells
      <3>2. Says(Infer(v), Plain("varchar"), v) /\ Infer(v).value.type = Plain("varchar")
        BY <3>1, OkTells
      <3> QED  BY <3>2 DEF Telling
    <2>3. CASE Infer(v).out # "ok"  BY <2>3 DEF Telling, Says
    <2> QED  BY <2>2, <2>3
  <1>6. CASE kind = "" /\ ~HasString(v) /\ v.go \in {"nil slice", "nil pointer"}
    <2>1. Infer(v) = Ok(Value(Plain("sqlnull"), Nil))  BY <1>1, <1>6 DEF NullOf
    <2>2. Meaning(Plain("sqlnull"), v) = Nil
      <3>1. Plain("sqlnull").kind = "sqlnull" /\ Plain("sqlnull") \in ValueTypes(s)
        BY <1>2, PlainIs DEF OwnKinds
      <3> QED  BY <3>1, MeaningCases
    <2>3. Says(Infer(v), Plain("sqlnull"), v) /\ Infer(v).value.type = Plain("sqlnull")
      BY <2>1, <2>2, OkTells
    <2> QED  BY <2>3 DEF Telling
  <1>7. CASE kind = "" /\ ~HasString(v) /\ v.go = "pointer"
    <2> DEFINE t == Infer(v).value.type
               w == PointerValue(v.to)
    <2>1. Infer(v) = Infer(w)  BY <1>1, <1>7
    <2>2. Telling(w) /\ w \in AllValues(s)
      BY <1>7, PartFacts, ArgumentFacts
    <2> HIDE DEF w
    <2>3. Meaning(t, v) = Meaning(t, w)
      <3>1. CASE t.kind = "sqlnull"
        <4>1. Meaning(t, v) = Nil /\ Meaning(t, w) = Nil  BY <1>2, <2>2, <3>1, MeaningCases
        <4> QED  BY <4>1
      <3>2. CASE t.kind # "sqlnull"  BY <1>2, <1>7, <3>2, MeaningCases DEF w
      <3> QED  BY <3>1, <3>2
    <2> QED  BY <2>1, <2>2, <2>3 DEF Telling, Says
  <1>8. CASE kind = "" /\ ~HasString(v) /\ v.go \in {"slice", "array"}  BY <1>1, <1>3, <1>8
  <1>9. CASE /\ kind = "" /\ ~HasString(v)
             /\ v.go \notin {"nil slice", "nil pointer", "pointer", "slice", "array"}
    <2>1. Infer(v) = Fails  BY <1>1, <1>9
    <2> QED  BY <2>1, PlainResults DEF Telling, Says
  <1> QED  BY <1>4, <1>5, <1>6, <1>7, <1>8, <1>9

\* All values are made rightly, and are what the Go values say.
LEMMA AllMadeRightly ==
  ASSUME NEW s \in Stmts
  PROVE  \A v \in AllValues(s) :
           /\ Inferring(v) /\ Telling(v)
           /\ \A t \in ParamTypes(s) : Rightly(CreateValue(t, v), v) /\ Says(CreateValue(t, v), t, v)
  <1> DEFINE Good(v) ==
               /\ Inferring(v) /\ Telling(v)
               /\ \A t \in ParamTypes(s) : Rightly(CreateValue(t, v), v) /\ Says(CreateValue(t, v), t, v)
  <1> SUFFICES ASSUME \E v \in AllValues(s) : ~Good(v) PROVE FALSE
    OBVIOUS
  <1> DEFINE sizes == {Size(v) : v \in {u \in AllValues(s) : ~Good(u)}}
  <1> HIDE DEF Good
  <1>1. sizes \in SUBSET Nat /\ sizes # {}  BY ArgumentFacts
  <1>2. PICK v \in AllValues(s) : ~Good(v) /\ \A d \in sizes : Size(v) <= d
    <2>1. Min(sizes) \in sizes /\ \A d \in sizes : Min(sizes) =< d
      <3> HIDE DEF sizes
      <3> QED  BY <1>1, MinOfNat
    <2> QED  BY <2>1
  <1>3. ASSUME NEW w \in PartsOf(v) PROVE Good(w)
    <2>1. w \in AllValues(s) /\ Size(w) < Size(v) /\ Size(w) \in Nat /\ Size(v) \in Nat
      BY ArgumentFacts
    <2> QED  BY <1>2, <2>1
  <1>4. Good(v)
    <2>1. Inferring(v)  BY <1>3, InferByParts DEF Good
    <2>2. Telling(v)  BY <1>3, InferMeans DEF Good
    <2>3. ASSUME NEW t \in ParamTypes(s)
          PROVE  Rightly(CreateValue(t, v), v) /\ Says(CreateValue(t, v), t, v)
      <3>1. Rightly(CreateValue(t, v), v)  BY <1>3, CreateByParts DEF Good
      <3>2. Says(CreateValue(t, v), t, v)  BY <1>3, CreateMeans DEF Good
      <3> QED  BY <3>1, <3>2
    <2> QED  BY <2>1, <2>2, <2>3 DEF Good
  <1> QED  BY <1>2, <1>4

-----------------------------------------------------------------------------
\* What bindValue makes of a Go value.
LEMMA GoValueIsRight ==
  ASSUME NEW s \in Stmts, NEW t \in ParamTypes(s), NEW v \in AllValues(s), NEW driverValue \in BOOLEAN
  PROVE  LET m == BindGoValue(t, v, driverValue) IN
         /\ Rightly(m, v)
         /\ m.out = "panic" => t.kind \in Nested \/ v = NilBig \/ CallsOnNil(v)
  <1> DEFINE m == BindGoValue(t, v, driverValue)
             Right(r) == Rightly(r, v) /\ (r.out = "panic" => t.kind \in Nested \/ v = NilBig \/ CallsOnNil(v))
  <1>1. Inferring(v) /\ Rightly(CreateValue(t, v), v)  BY AllMadeRightly
  <1>3. /\ Right(Fails) /\ \A value : Right(Ok(value))  BY PlainResults, PlainIsRight
  <1>4. Right(Infer(v))  BY <1>1 DEF Inferring
  <1>5. ASSUME v.go = "big" \/ v = NilBig PROVE Right(BindBigInt(t, v))
    <2>1. PICK kind \in BigKinds :
            BindBigInt(t, v) = IF v = NilBig THEN Panics ELSE CreatePrimitiveValue(kind, v)
      BY DEF BindBigInt, BigKinds
    <2>2. v # Nil
      <3>1. NilBig.go = "nil pointer" /\ Nil.go = "nil"  BY DEF NilBig, NilPtr, Nil
      <3> QED  BY <1>5, <3>1
    <2>3. kind \notin DOMAIN Exact
      <3>1. DOMAIN Exact = {"integer", "bigint", "varchar"}  BY DEF Exact
      <3> QED  BY <3>1 DEF BigKinds
    <2>4. \/ CreatePrimitiveValue(kind, v) = Fails
          \/ \E value : CreatePrimitiveValue(kind, v) = Ok(value)
      <3>1. kind # "sqlnull"  BY DEF BigKinds
      <3> QED  BY <2>2, <2>3, <3>1, MakingLeaf
    <2>5. Rightly(Panics, v)  BY PlainIsRight
    <2> HIDE DEF Right
    <2>6. CASE v = NilBig  BY <2>1, <2>5, <2>6 DEF Right
    <2>7. CASE v # NilBig  BY <1>3, <2>1, <2>4, <2>7
    <2> QED  BY <2>6, <2>7
  <1>6. ASSUME v.go # "nil", v # NilBig PROVE Right(BindComplexValue(t, v))
    <2>1. Right(BindUUID(v))
      <3>1. HasString(v) => Right(CallString(v))  BY CallStringIsRight
      <3> HIDE DEF Right
      <3> QED  BY <1>3, <3>1 DEF BindUUID
    <2>2. ASSUME Leaf(t.kind).kind \in {"timestamp", "date", "time", "timetz"}
          PROVE  Right(CreatePrimitiveValue(t.kind, v))
      <3>1. t.kind \notin DOMAIN Exact
        <4>1. DOMAIN Exact = {"integer", "bigint", "varchar"}  BY DEF Exact
        <4>2. \A k \in {"integer", "bigint", "varchar"} : Leaf(k).kind = "none"  BY DEF Leaf
        <4> QED  BY <2>2, <4>1, <4>2
      <3>2. v # Nil  BY <1>6 DEF Nil
      <3>3. \/ CreatePrimitiveValue(t.kind, v) = Fails
            \/ \E value : CreatePrimitiveValue(t.kind, v) = Ok(value)
        <4>1. t.kind # "sqlnull"
          <5>1. Leaf("sqlnull").kind = "none"  BY DEF Leaf
          <5> QED  BY <2>2, <5>1
        <4> QED  BY <3>1, <3>2, <4>1, MakingLeaf
      <3> HIDE DEF Right
      <3> QED  BY <1>3, <3>3
    <2>3. t.kind \in {"array", "list", "struct"} => Right(CreateValue(t, v))  BY <1>1 DEF Nested
    <2> HIDE DEF Right
    <2> QED  BY <1>3, <1>4, <2>1, <2>2, <2>3 DEF BindComplexValue
  <1> HIDE DEF Right
  <1>7. Right(m)
    <2>1. CASE v.go \in Direct
      <3>1. m = Ok(Value(Plain(IF v.go = "[]byte" THEN "blob" ELSE InferPrimitiveType(v)), v))
        <4>1. v.go # "big" /\ v.go \notin {"Decimal", "Decimal{}"} /\ v # NilBig
          <5>1. NilBig.go = "nil pointer"  BY DEF NilBig, NilPtr
          <5> QED  BY <2>1, <5>1 DEF Direct
        <4> QED  BY <2>1, <4>1 DEF BindGoValue
      <3> QED  BY <1>3, <3>1
    <2>2. CASE v.go \notin Direct /\ (v.go = "big" \/ v = NilBig)
      <3>1. v.go \notin {"Decimal", "Decimal{}"}
        <4>1. NilBig.go = "nil pointer"  BY DEF NilBig, NilPtr
        <4> QED  BY <2>2, <4>1
      <3>2. m = BindBigInt(t, v)  BY <2>2, <3>1 DEF BindGoValue
      <3> QED  BY <1>5, <2>2, <3>2
    <2>3. CASE v.go \notin Direct /\ ~(v.go = "big" \/ v = NilBig)
      <3>1. v.go # "nil"  BY <2>3 DEF Direct
      <3>2. m \in {Fails, Infer(v), BindComplexValue(t, v)}  BY <2>3 DEF BindGoValue
      <3> QED  BY <1>3, <1>4, <1>6, <2>3, <3>1, <3>2
    <2> QED  BY <2>1, <2>2, <2>3
  <1> QED  BY <1>7 DEF Right

\* And what it makes is what the Go value says, of a nested parameter's own type if
\* the value comes from no Valuer.
Fine(s, t, v, m) ==
  m.out = "ok" => /\ m.value.type \in ValueTypes(s) /\ Says(m, m.value.type, v)
                  /\ t.kind \in Nested /\ m.value.type.kind \in Nested => m.value.type = t

\* A value without elements is of the type that was asked for.
LEMMA PlainIsFine ==
  ASSUME NEW s \in Stmts, NEW t \in ParamTypes(s), NEW v \in AllValues(s)
  PROVE  /\ Fine(s, t, v, Fails)
         /\ \A kind \in OwnKinds : \A r : Meaning(Plain(kind), v) = r => Fine(s, t, v, Ok(Value(Plain(kind), r)))
         /\ \A kind : /\ Plain(kind) \in ValueTypes(s) /\ kind \notin Nested
                      /\ v.go = "Decimal" => Plain(kind) \in ParamTypes(s)
                      => Fine(s, t, v, CreatePrimitiveValue(kind, v))
  <1>1. Fine(s, t, v, Fails)  BY PlainResults DEF Fine
  <1>2. ASSUME NEW kind \in OwnKinds, NEW r, Meaning(Plain(kind), v) = r
        PROVE  Fine(s, t, v, Ok(Value(Plain(kind), r)))
    <2> DEFINE m == Ok(Value(Plain(kind), r))
    <2>1. kind # "invalid" /\ kind \notin Nested  BY DEF OwnKinds, BigKinds, Nested
    <2> HIDE DEF m
    <2>2. m = Ok(Value(Plain(kind), r))  BY DEF m
    <2>3. Says(m, Plain(kind), v) /\ m.value.type = Plain(kind)  BY <1>2, <2>1, <2>2, OkTells
    <2>4. Plain(kind) \in ValueTypes(s) /\ Plain(kind).kind = kind  BY ValueTypeFacts, PlainIs
    <2>5. Fine(s, t, v, m)  BY <2>1, <2>3, <2>4 DEF Fine
    <2> QED  BY <2>5 DEF m
  <1>3. ASSUME NEW kind, Plain(kind) \in ValueTypes(s), kind \notin Nested,
               v.go = "Decimal" => Plain(kind) \in ParamTypes(s)
        PROVE  Fine(s, t, v, CreatePrimitiveValue(kind, v))
    <2>1. Says(CreatePrimitiveValue(kind, v), Plain(kind), v)  BY <1>3, PrimitiveMeans
    <2>2. CreatePrimitiveValue(kind, v).out = "ok" => CreatePrimitiveValue(kind, v).value.type = Plain(kind)
      BY <2>1, ValueIs DEF Says
    <2>3. Plain(kind).kind = kind  BY PlainIs
    <2> QED  BY <1>3, <2>1, <2>2, <2>3 DEF Fine
  <1> QED  BY <1>1, <1>2, <1>3

\* What bindValue makes of a Go value says what it says.
LEMMA GoValueMeans ==
  ASSUME NEW s \in Stmts, NEW t \in ParamTypes(s), NEW v \in AllValues(s), NEW driverValue \in BOOLEAN
  PROVE  LET m == BindGoValue(t, v, driverValue) IN
         m.out = "ok" =>
           /\ m.value.type \in ValueTypes(s) /\ Says(m, m.value.type, v)
           /\ ~driverValue /\ t.kind \in Nested /\ m.value.type.kind \in Nested => m.value.type = t
  <1> DEFINE m == BindGoValue(t, v, driverValue)
             Good(r) == Fine(s, t, v, r)
             AsTold(r) == r.out = "ok" => r.value.type \in ValueTypes(s) /\ Says(r, r.value.type, v)
  <1>1. Telling(v) /\ Says(CreateValue(t, v), t, v)  BY AllMadeRightly
  <1>2. /\ Good(Fails)
        /\ \A kind \in OwnKinds : \A r : Meaning(Plain(kind), v) = r => Good(Ok(Value(Plain(kind), r)))
        /\ \A kind : /\ Plain(kind) \in ValueTypes(s) /\ kind \notin Nested
                     /\ v.go = "Decimal" => Plain(kind) \in ParamTypes(s)
                     => Good(CreatePrimitiveValue(kind, v))
        /\ Good(Panics)
    BY PlainIsFine, PlainResults DEF Fine
  <1>3. AsTold(Infer(v)) /\ (t.kind \notin Nested => Good(Infer(v)))
    BY <1>1, ValueTypeFacts DEF Telling, Fine
  <1>4. Good(CreateValue(t, v))
    <2>1. t \in ValueTypes(s)  BY ValueTypeFacts
    <2>2. CreateValue(t, v).out = "ok" => CreateValue(t, v).value.type = t  BY <1>1, ValueIs DEF Says
    <2> QED  BY <1>1, <2>1, <2>2 DEF Fine
  <1>5. ASSUME v.go = "big" \/ v = NilBig PROVE Good(BindBigInt(t, v))
    <2>1. PICK kind \in BigKinds : BindBigInt(t, v) = IF v = NilBig THEN Panics ELSE CreatePrimitiveValue(kind, v)
      BY DEF BindBigInt, BigKinds
    <2>2. Plain(kind) \in ValueTypes(s)  BY ValueTypeFacts DEF OwnKinds
    <2>3. kind \notin Nested  BY DEF BigKinds, Nested
    <2>4. v.go # "Decimal"
      <3>1. NilBig.go = "nil pointer"  BY DEF NilBig, NilPtr
      <3> QED  BY <1>5, <3>1
    <2> HIDE DEF Good
    <2> QED  BY <1>2, <2>1, <2>2, <2>3, <2>4
  <1>6. ASSUME v.go \in Direct
        PROVE  Good(Ok(Value(Plain(IF v.go = "[]byte" THEN "blob" ELSE InferPrimitiveType(v)), v)))
    <2> DEFINE kind == IF v.go = "[]byte" THEN "blob" ELSE InferPrimitiveType(v)
    <2>1. /\ v.go = "nil" => kind = "sqlnull"
          /\ v.go = "int32" => kind = "integer"
          /\ v.go = "int64" => kind = "bigint"
          /\ v.go = "string" => kind = "varchar"
          /\ v.go = "[]byte" => kind = "blob"
      <3>1. v.go \in Direct => v # NilBig
        <4>1. NilBig.go = "nil pointer"  BY DEF NilBig, NilPtr
        <4> QED  BY <4>1 DEF Direct
      <3> QED  BY <1>6, <3>1 DEF InferPrimitiveType
    <2> HIDE DEF kind
    <2>2. v.go \in {"nil", "int32", "int64", "string", "[]byte"}  BY <1>6 DEF Direct
    <2>3. kind \in OwnKinds  BY <2>1, <2>2 DEF OwnKinds
    <2>4. Plain(kind) \in ValueTypes(s) /\ Plain(kind).kind = kind  BY <2>3, ValueTypeFacts, PlainIs
    <2>5. Meaning(Plain(kind), v) = v
      <3>1. CASE v.go = "nil"
        <4>1. v = Nil  BY <3>1, ArgumentFacts
        <4>2. Meaning(Plain(kind), v) = Nil  BY <2>4, <3>1, MeaningCases
        <4> QED  BY <4>1, <4>2
      <3>2. CASE v.go \in {"int32", "int64", "string"}
        <4>1. kind \in {"integer", "bigint", "varchar", "blob"}  BY <2>1, <3>2
        <4> QED  BY <2>4, <3>2, <4>1, MeaningCases
      <3>3. CASE v.go = "[]byte"  BY <2>1, <2>4, <3>3, MeaningCases
      <3> QED  BY <2>2, <3>1, <3>2, <3>3
    <2> HIDE DEF Good
    <2>6. Good(Ok(Value(Plain(kind), v)))  BY <1>2, <2>3, <2>5
    <2> QED  BY <2>6 DEF kind
  <1>7. Good(BindComplexValue(t, v))
    <2>1. Good(BindUUID(v))
      <3>1. Plain("sqlnull") \in ValueTypes(s) /\ Plain("varchar") \in ValueTypes(s)
            /\ Plain("sqlnull").kind = "sqlnull" /\ Plain("varchar").kind = "varchar"
            /\ "sqlnull" \in OwnKinds /\ "varchar" \in OwnKinds
        BY ValueTypeFacts, PlainIs DEF OwnKinds
      <3>2. v.go = "nil pointer" => Good(Ok(NullOf("sqlnull")))
        <4> HAVE v.go = "nil pointer"
        <4>1. Meaning(Plain("sqlnull"), v) = Nil  BY <3>1, MeaningCases
        <4> HIDE DEF Good
        <4> QED  BY <1>2, <3>1, <4>1 DEF NullOf
      <3>3. HasString(v) => Good(CallString(v))
        <4> HAVE HasString(v)
        <4>1. CASE CallString(v).out = "ok"
          <5> HIDE DEF Good
          <5> QED  BY <1>2, <3>1, <4>1, CallStringTells
        <4>2. CASE CallString(v).out # "ok"  BY <4>2 DEF Fine
        <4> QED  BY <4>1, <4>2
      <3> HIDE DEF Good
      <3> QED  BY <1>2, <3>2, <3>3 DEF BindUUID
    <2>2. ASSUME Leaf(t.kind).kind \in {"timestamp", "date", "time", "timetz"}
          PROVE  Good(CreatePrimitiveValue(t.kind, v))
      <3>1. t = Plain(t.kind)
        <4>1. IsLogical(t)  BY ParamTypeFacts
        <4>2. t.kind \notin {"list", "array", "map", "struct", "union", "enum", "decimal"}
          BY <2>2 DEF Leaf
        <4>3. t.kids = <<>> /\ t.names = <<>> /\ t.nums = <<>>
          BY <4>1, <4>2 DEF IsLogical, Composed
        <4>4. t = Logical(t.kind, t.kids, t.names, t.nums)  BY <4>1 DEF IsLogical
        <4> QED  BY <4>3, <4>4, PlainIs
      <3>2. Plain(t.kind) \in ValueTypes(s) /\ Plain(t.kind) \in ParamTypes(s)  BY <3>1, ValueTypeFacts
      <3>3. t.kind \notin Nested  BY <2>2, NoLeafKinds DEF Nested
      <3> HIDE DEF Good
      <3> QED  BY <1>2, <3>2, <3>3
    <2>3. t.kind = "invalid" => Good(Infer(v))
      <3> HAVE t.kind = "invalid"
      <3>1. t.kind \notin Nested  BY DEF Nested
      <3> HIDE DEF Good
      <3> QED  BY <1>3, <3>1
    <2> HIDE DEF Good
    <2> QED  BY <1>2, <1>4, <2>1, <2>2, <2>3 DEF BindComplexValue
  <1>8. Good(m) \/ (driverValue /\ AsTold(m))
    <2>1. NilBig.go = "nil pointer"  BY DEF NilBig, NilPtr
    <2> HIDE DEF Good, AsTold
    <2>2. CASE v.go \in Direct
      <3>1. m = Ok(Value(Plain(IF v.go = "[]byte" THEN "blob" ELSE InferPrimitiveType(v)), v))
        <4>1. v.go # "big" /\ v.go \notin {"Decimal", "Decimal{}"} /\ v # NilBig  BY <2>1, <2>2 DEF Direct
        <4> QED  BY <2>2, <4>1 DEF BindGoValue
      <3> QED  BY <1>6, <2>2, <3>1
    <2>3. CASE v.go \notin Direct /\ (v.go = "big" \/ v = NilBig)
      <3>1. v.go \notin {"Decimal", "Decimal{}"}  BY <2>1, <2>3
      <3>2. m = BindBigInt(t, v)  BY <2>3, <3>1 DEF BindGoValue
      <3> QED  BY <1>5, <2>3, <3>2
    <2>4. CASE v.go \notin Direct /\ ~(v.go = "big" \/ v = NilBig)
      <3>1. \/ m \in {Fails, BindComplexValue(t, v)}
            \/ driverValue /\ m = Infer(v)
        BY <2>4 DEF BindGoValue
      <3> QED  BY <1>2, <1>3, <1>7, <3>1
    <2> QED  BY <2>2, <2>3, <2>4
  <1> HIDE DEF m
  <1>9. m.out = "ok" =>
          /\ m.value.type \in ValueTypes(s) /\ Says(m, m.value.type, v)
          /\ ~driverValue /\ t.kind \in Nested /\ m.value.type.kind \in Nested => m.value.type = t
    BY <1>8 DEF Fine
  <1> QED  BY <1>9 DEF m

\* Stmt.bindValue destroys what it made itself, and panics for a reason.
LEMMA BindValueIsRight ==
  ASSUME NEW s \in Stmts, NEW t \in ParamTypes(s), NEW v \in Values(s), NEW json
  PROVE  LET m == BindValue(t, json, v) IN
         /\ IsResult(m) /\ m.live \subseteq ElementHandles
         /\ m.live # {} => HasElements(v)
         /\ m.out = "panic" => t.kind \in Nested \/ v = NilBig \/ CallsOnNil(v)
  <1> DEFINE made == IF t.kind \in Unsupported \ {"invalid"} THEN Fails
                     ELSE IF json THEN BindJSON(v)
                     ELSE CASE v = NilPtr("UUID") -> Panics
                            [] v.go = "failing Valuer" -> Fails
                            [] v.go = "Valuer" -> BindGoValue(t, v.value, TRUE)
                            [] OTHER -> BindGoValue(t, v, FALSE)
             Right(r) == Rightly(r, v) /\ (r.out = "panic" => t.kind \in Nested \/ v = NilBig \/ CallsOnNil(v))
  <1>1. v \in AllValues(s)  BY DEF AllValues
  <1>2. HasElements(v) = HasElementsDef(v) /\ CallsOnNil(v) = CallsOnNilDef(v)  BY <1>1, ArgumentFacts
  <1>3. Right(Fails) /\ Right(BindJSON(v))
    <2>1. \A value : Right(Ok(value))  BY PlainResults, PlainIsRight
    <2>2. Right(Fails)  BY PlainResults, PlainIsRight
    <2> HIDE DEF Right
    <2> QED  BY <2>1, <2>2 DEF BindJSON
  <1>4. ASSUME v.go = "Valuer" PROVE Right(BindGoValue(t, v.value, TRUE))
    <2>1. v.value \in AllValues(s)  BY <1>1, <1>4, PartFacts, ArgumentFacts
    <2>2. (HasElements(v.value) => HasElements(v)) /\ (v.value = NilBig \/ CallsOnNil(v.value) => CallsOnNil(v))
      BY <1>2, <1>4 DEF HasElementsDef, CallsOnNilDef
    <2> QED  BY <2>1, <2>2, GoValueIsRight DEF Rightly
  <1>5. Right(BindGoValue(t, v, FALSE))  BY <1>1, GoValueIsRight
  <1>6. ASSUME v = NilPtr("UUID") PROVE Right(Panics)
    <2>1. CallsOnNil(v)
      <3>1. v.go = "nil pointer" /\ v.type = "UUID"  BY <1>6 DEF NilPtr
      <3> QED  BY <1>2, <3>1 DEF CallsOnNilDef, HasNilMethods
    <2> QED  BY <2>1, PlainIsRight
  <1>7. NilPtr("UUID").go = "nil pointer"  BY DEF NilPtr
  <1> HIDE DEF Right
  <1>8. Right(made)  BY <1>3, <1>4, <1>5, <1>6, <1>7
  <1>9. BindValue(t, json, v) = [made EXCEPT !.live = @ \ {"value", "type"}]  BY DEF BindValue, Destroy
  <1> HIDE DEF made
  <1>10. BindValue(t, json, v) = [out |-> made.out, value |-> made.value, live |-> made.live \ {"value", "type"}]
    BY <1>8, <1>9 DEF Right, Rightly, Owns, IsResult
  <1> DEFINE m == BindValue(t, json, v)
  <1>11. m.live = made.live \ {"value", "type"} /\ m.out = made.out /\ IsResult(m)  BY <1>10 DEF IsResult
  <1> HIDE DEF m
  <1>12. /\ made.live \subseteq {"value", "type"} \cup ElementHandles
         /\ made.live \cap ElementHandles # {} => HasElements(v)
         /\ made.out = "panic" => t.kind \in Nested \/ v = NilBig \/ CallsOnNil(v)
    BY <1>8 DEF Right, Rightly, Owns, Handles
  <1>13. m.live \subseteq ElementHandles  BY <1>11, <1>12
  <1>14. m.live # {} => HasElements(v)  BY <1>11, <1>12
  <1> QED  BY <1>11, <1>12, <1>13, <1>14 DEF m

\* The values bindValue makes, whatever the Go values and the parameters' types are:
\* a bound value reads as what the Go value says, has a type, and that is the
\* parameter's when both are nested and the value was not inferred for a Valuer.
\* (Not so for a Decimal whose scale an element of type HUGEINT, UHUGEINT or BIGNUM
\* drops: see ArgumentsAssumption.)
THEOREM MadeAsMeant == ValuesAreAsMeant
  <1> SUFFICES ASSUME NEW s \in Stmts, NEW i \in DOMAIN s.params, NEW t \in TypesOf(s, i), NEW v \in Values(s),
                      MakeValue(t, s.params[i].json, v).out = "ok"
               PROVE  AsMeant(t, v, MakeValue(t, s.params[i].json, v).value)
    BY DEF ValuesAreAsMeant
  <1> DEFINE json == s.params[i].json
             made == IF t.kind \in Unsupported \ {"invalid"} THEN Fails
                     ELSE IF json THEN BindJSON(v)
                     ELSE CASE v = NilPtr("UUID") -> Panics
                            [] v.go = "failing Valuer" -> Fails
                            [] v.go = "Valuer" -> BindGoValue(t, v.value, TRUE)
                            [] OTHER -> BindGoValue(t, v, FALSE)
             m == MakeValue(t, json, v)
  <1>1. t \in ParamTypes(s) /\ v \in AllValues(s) /\ m = BindValue(t, json, v)
    <2>1. t \in ParamTypes(s) /\ m = BindValue(t, json, v)  BY ArgumentsAssumption
    <2> QED  BY <2>1 DEF AllValues
  <1>2. m.out = made.out /\ m.value = made.value
    <2>1. DOMAIN BindValue(t, json, v) = {"out", "value", "live"}
      BY <1>1, BindValueIsRight DEF IsResult
    <2>2. BindValue(t, json, v) = [made EXCEPT !.live = @ \ {"value", "type"}]  BY DEF BindValue, Destroy
    <2> HIDE DEF made
    <2> QED  BY <1>1, <2>1, <2>2
  <1> DEFINE Good(r) ==
               r.out = "ok" => /\ Says(r, r.value.type, v)
                               /\ t.kind \in Nested /\ r.value.type.kind \in Nested =>
                                    r.value.type = t \/ v.go = "Valuer"
  <1>3. Good(Fails) /\ Good(Panics)  BY PlainResults
  <1>4. Good(BindJSON(v))
    <2>1. ASSUME v.go \in {"[]byte", "string"} PROVE Good(Ok(Value(Plain("varchar"), Str(v.str))))
      <3>1. Plain("varchar") \in ValueTypes(s) /\ Plain("varchar").kind = "varchar" /\ "varchar" \in OwnKinds
        BY ValueTypeFacts, PlainIs DEF OwnKinds
      <3>2. Meaning(Plain("varchar"), v) = Str(v.str)
        <4>1. CASE v.go = "string"
          <5>1. v = Str(v.str)  BY <1>1, <4>1, ArgumentFacts
          <5>2. Meaning(Plain("varchar"), v) = v  BY <1>1, <3>1, <4>1, MeaningCases
          <5> QED  BY <5>1, <5>2
        <4>2. CASE v.go = "[]byte"  BY <1>1, <3>1, <4>2, MeaningCases
        <4> QED  BY <2>1, <4>1, <4>2
      <3>3. Fine(s, t, v, Ok(Value(Plain("varchar"), Str(v.str))))  BY <1>1, <3>1, <3>2, PlainIsFine
      <3> QED  BY <3>3 DEF Fine
    <2>2. ASSUME v = Nil PROVE Good(Ok(NullOf("sqlnull")))
      <3>1. Plain("sqlnull") \in ValueTypes(s) /\ Plain("sqlnull").kind = "sqlnull" /\ "sqlnull" \in OwnKinds
        BY ValueTypeFacts, PlainIs DEF OwnKinds
      <3>2. Meaning(Plain("sqlnull"), v) = Nil  BY <1>1, <3>1, MeaningCases
      <3>3. Fine(s, t, v, Ok(Value(Plain("sqlnull"), Nil)))  BY <1>1, <3>1, <3>2, PlainIsFine
      <3> QED  BY <3>3 DEF Fine, NullOf
    <2> HIDE DEF Good
    <2> QED  BY <1>3, <2>1, <2>2 DEF BindJSON
  <1>5. ASSUME v.go = "Valuer" PROVE Good(BindGoValue(t, v.value, TRUE))
    <2> DEFINE r == BindGoValue(t, v.value, TRUE)
    <2>1. v.value \in AllValues(s)  BY <1>1, <1>5, PartFacts, ArgumentFacts
    <2>2. r.out = "ok" => r.value.type \in ValueTypes(s) /\ Says(r, r.value.type, v.value)
      BY <1>1, <2>1, GoValueMeans
    <2> HIDE DEF r
    <2>3. r.out = "ok" => Meaning(r.value.type, v) = Meaning(r.value.type, v.value)
      <3> HAVE r.out = "ok"
      <3>1. CASE r.value.type.kind = "sqlnull"
        <4>1. Meaning(r.value.type, v) = Nil /\ Meaning(r.value.type, v.value) = Nil
          BY <1>1, <2>1, <2>2, <3>1, MeaningCases
        <4> QED  BY <4>1
      <3>2. CASE r.value.type.kind # "sqlnull"  BY <1>1, <1>5, <2>2, <3>2, MeaningCases
      <3> QED  BY <3>1, <3>2
    <2>4. Good(r)  BY <1>5, <2>2, <2>3 DEF Says
    <2> QED  BY <2>4 DEF r
  <1>6. Good(BindGoValue(t, v, FALSE))  BY <1>1, GoValueMeans
  <1>7. Good(made)
    <2> HIDE DEF Good
    <2> QED  BY <1>3, <1>4, <1>5, <1>6
  <1> HIDE DEF made
  <1>8. m.out = "ok" => /\ m.value = Value(m.value.type, Meaning(m.value.type, v))
                        /\ m.value.type.kind # "invalid"
                        /\ t.kind \in Nested /\ m.value.type.kind \in Nested =>
                             m.value.type = t \/ v.go = "Valuer"
    BY <1>2, <1>7 DEF Says
  <1> HIDE DEF m
  <1>9. m.out = "ok" => m.value # Unbound
    <2>1. \A x, y : DOMAIN Value(x, y) = {"type", "reads"}  BY DEF Value
    <2>2. DOMAIN Unbound = {"bound"}  BY DEF Unbound
    <2> QED  BY <1>8, <2>1, <2>2
  <1>10. m.out = "ok" => m.value.reads = Meaning(m.value.type, v)  BY <1>8, ValueIs
  <1>11. m.out = "ok" => AsMeant(t, v, m.value)  BY <1>8, <1>9, <1>10 DEF AsMeant
  <1> QED  BY <1>11 DEF m

(***************************************************************************)
(* StmtBind: the arguments of a statement, for all of its calls.           *)
(***************************************************************************)

\* Stmt.bind gives every parameter the argument that is meant for it: the last match
\* of the two loops over the arguments is the only one.
THEOREM ChosenIsMeant ==
  ASSUME setup \in Stmts, NEW args \in setup.lists, NEW i \in Params
  PROVE  Chosen(args, i) = Meant(setup, args, i)
  <1> DEFINE numbered == {a \in Range(args) : a.ordinal = i}
             named == {a \in Range(args) : a.name = setup.params[i].name}
             \* The argument by position or by number.
             Base(arg) == IF numbered # {} THEN CHOOSE a \in numbered : TRUE ELSE arg
  <1>1. /\ args \in Seq(Range(args))
        /\ NamedOnce(args, setup.params[i]) /\ NumberedOnce(args, i)
    BY ListsAssumption DEF Params
  <1>2. DOMAIN args = 1..Len(args)  BY <1>1
  <1>3. Overridden(args[i], args, Numbered(args, i)) = Base(args[i])
    <2>1. CASE Numbered(args, i) = {}
      <3>1. numbered = {}  BY <2>1 DEF Numbered, Range
      <3> QED  BY <2>1, <3>1 DEF Overridden
    <2>2. CASE Numbered(args, i) # {}
      <3>1. PICK k \in DOMAIN args : Numbered(args, i) = {k}
        BY <1>1, <2>2 DEF Numbered, NumberedOnce
      <3>2. numbered = {args[k]}  BY <3>1 DEF Numbered, Range
      <3>3. Overridden(args[i], args, Numbered(args, i)) = args[k]
        BY <1>2, <3>1, MaxOfOne DEF Overridden
      <3> QED  BY <3>2, <3>3
    <2> QED  BY <2>1, <2>2
  <1>4. CASE Named(args, i) = {}
    <2>1. named = {}  BY <1>4 DEF Named, Range
    <2> QED  BY <1>3, <1>4, <2>1 DEF Chosen, Meant, Overridden
  <1>5. CASE Named(args, i) # {}
    <2>1. PICK k \in DOMAIN args : Named(args, i) = {k}
      BY <1>1, <1>5 DEF Named, NamedOnce
    <2>2. named = {args[k]}  BY <2>1 DEF Named, Range
    <2>3. Chosen(args, i) = args[k]  BY <1>2, <2>1, MaxOfOne DEF Chosen, Overridden
    <2>4. Meant(setup, args, i) = args[k]  BY <2>2 DEF Meant
    <2> QED  BY <2>3, <2>4
  <1> QED  BY <1>4, <1>5

\* It is an argument of the list, if the list is long enough.
LEMMA ChosenIsArgument ==
  ASSUME setup \in Stmts, NEW args \in setup.lists, Enough(args), NEW i \in Params
  PROVE  /\ Chosen(args, i).value \in Values(setup)
         /\ Chosen(args, i) \in Range(args)
  <1>1. args \in Seq(Range(args)) /\ setup.params \in Seq(Range(setup.params))
    BY ListsAssumption
  <1>2. i \in DOMAIN args  BY <1>1 DEF Params, Enough
  <1>3. \A k \in DOMAIN args : args[k].value \in Values(setup)  BY DEF Values
  <1>4. Meant(setup, args, i) \in Range(args)
    <2> DEFINE named == {a \in Range(args) : a.name = setup.params[i].name}
               numbered == {a \in Range(args) : a.ordinal = i}
    <2>1. args[i] \in Range(args)  BY <1>2 DEF Range
    <2>2. CASE named # {}  BY <2>2 DEF Meant
    <2>3. CASE named = {} /\ numbered # {}  BY <2>3 DEF Meant
    <2>4. CASE named = {} /\ numbered = {}  BY <2>1, <2>4 DEF Meant
    <2> QED  BY <2>2, <2>3, <2>4
  <1>5. PICK k \in DOMAIN args : Meant(setup, args, i) = args[k]  BY <1>4 DEF Range
  <1>6. Chosen(args, i) = Meant(setup, args, i)  BY ChosenIsMeant
  <1> QED  BY <1>3, <1>4, <1>5, <1>6

-----------------------------------------------------------------------------
\* What is known between the calls.  A parameter has a type that ValuesAreAsMeant
\* speaks of.
TypesOK ==
  /\ setup \in Stmts
  /\ DOMAIN types = Params
  /\ \A i \in Params : types[i] \in TypesOf(setup, i)

\* As long as a parameter has no type of its own, its slot holds a value that was made
\* for that: its type is one that an execution may give the parameter.
UnresolvedSlots(ty, sl) ==
  \A i \in Params : ty[i].kind = "invalid" => sl[i] = Unbound \/ sl[i].type \in Inferred(setup, i)

\* As long as no Bind failed after the last that succeeded, every slot holds what that
\* one's list means for it.
Follows(ty, sl, args) ==
  \A i \in Params :
    /\ sl[i].reads = Meaning(sl[i].type, Meant(setup, args, i).value)
    /\ ty[i].kind \in Nested /\ sl[i].type.kind \in Nested =>
         sl[i].type = ty[i] \/ Meant(setup, args, i).value.go = "Valuer"

\* Both are also needed in the middle of an execution, of the slots it has just bound
\* and the types the parameters had then.
Held(ty, sl, to, bd) ==
  /\ UnresolvedSlots(ty, sl)
  /\ to.whole => Follows(ty, sl, to.args)
  /\ bd => \A i \in Params : sl[i] # Unbound

SlotsOK == Held(types, slots, told, bound)
SlotsInv == TypesOK /\ SlotsOK

\* The statement itself never changes.
LEMMA HeldNext ==
  ASSUME UNCHANGED setup, Held(types', slots', told', bound')
  PROVE  SlotsOK'
  BY DEF SlotsOK, Held, UnresolvedSlots, Follows, Params

-----------------------------------------------------------------------------
\* A value bound for a parameter is what its argument means, and of an unresolved
\* parameter it has a type that an execution may give it.
LEMMA BoundAsMeant ==
  ASSUME TypesOK, NEW args \in setup.lists, Enough(args), NEW i \in Params,
         MadeOf(args)[i].out = "ok"
  PROVE  /\ AsMeant(types[i], Meant(setup, args, i).value, MadeOf(args)[i].value)
         /\ types[i].kind = "invalid" => MadeOf(args)[i].value.type \in Inferred(setup, i)
  <1> DEFINE v == Chosen(args, i).value
             p == setup.params[i]
  <1>1. MadeOf(args)[i] = MakeValue(types[i], p.json, v)  BY DEF MadeOf
  <1>2. v \in Values(setup)  BY ChosenIsArgument DEF TypesOK
  <1>3. types[i] \in TypesOf(setup, i)  BY DEF TypesOK
  <1>4. AsMeant(types[i], v, MadeOf(args)[i].value)
    BY <1>1, <1>2, <1>3, MadeAsMeant DEF ValuesAreAsMeant, TypesOK, Params
  <1>5. v = Meant(setup, args, i).value  BY ChosenIsMeant DEF TypesOK
  <1>6. ASSUME types[i].kind = "invalid" PROVE MadeOf(args)[i].value.type \in Inferred(setup, i)
    <2>1. p.type \in TypesOf(setup, i)  BY DEF TypesOf
    <2>2. \A type \in Inferred(setup, i) : type.kind # "invalid"
      BY <2>1, MadeAsMeant DEF ValuesAreAsMeant, TypesOK, Params, Inferred, AsMeant
    <2>3. types[i] = p.type  BY <1>3, <1>6, <2>2 DEF TypesOf
    <2> QED  BY <1>1, <1>2, <2>3 DEF Inferred
  <1> QED  BY <1>4, <1>5, <1>6

\* Stmt.bind leaves the slots as they should be, whether it fails or not.
LEMMA BindKeeps ==
  ASSUME SlotsInv, NEW args \in setup.lists, BindSlots(args)
  PROVE  /\ Held(types, slots', told', bound')
         /\ BindOut(args) = "ok" => told' = [args |-> args, whole |-> TRUE]
  <1>1. CASE ~Enough(args)  BY <1>1 DEF BindSlots, BindOut, SlotsInv, SlotsOK
  <1>2. CASE Enough(args)
    <2> DEFINE made == MadeOf(args)
    <2>1. /\ slots' = [i \in Params |-> IF i <= Upto(made) /\ made[i].out = "ok"
                                           THEN made[i].value ELSE slots[i]]
          /\ bound' = (bound \/ BoundBy(made))
          /\ told' = IF BoundBy(made) THEN [args |-> args, whole |-> TRUE]
                      ELSE [told EXCEPT !.whole = FALSE]
      BY <1>2 DEF BindSlots
    <2>2. \A i \in Params : made[i].out = "ok" =>
            /\ AsMeant(types[i], Meant(setup, args, i).value, made[i].value)
            /\ types[i].kind = "invalid" => made[i].value.type \in Inferred(setup, i)
      BY <1>2, BoundAsMeant DEF SlotsInv
    <2> HIDE DEF made
    <2>3. UnresolvedSlots(types, slots')
      BY <2>1, <2>2 DEF SlotsInv, SlotsOK, Held, UnresolvedSlots
    <2>4. CASE BoundBy(made)
      <3>1. \A i \in Params : made[i].out = "ok" /\ i <= Upto(made)
        <4>1. setup.params \in Seq(Range(setup.params))  BY ListsAssumption DEF SlotsInv, TypesOK
        <4>2. Upto(made) = Len(setup.params)  BY <2>4 DEF BoundBy, Upto
        <4> QED  BY <2>4, <4>1, <4>2 DEF BoundBy, Stopped, Params
      <3>2. \A i \in Params : slots'[i] = made[i].value  BY <2>1, <3>1
      <3>3. told' = [args |-> args, whole |-> TRUE]  BY <2>1, <2>4
      <3>4. Follows(types, slots', args)  BY <2>2, <3>1, <3>2 DEF Follows, AsMeant
      <3>5. \A i \in Params : slots'[i] # Unbound  BY <2>2, <3>1, <3>2 DEF AsMeant
      <3> QED  BY <2>3, <3>3, <3>4, <3>5 DEF Held
    <2>5. CASE ~BoundBy(made)
      <3>1. ~told'.whole  BY <2>1, <2>5
      <3>2. bound' => bound  BY <2>1, <2>5
      <3>3. bound => \A i \in Params : slots'[i] # Unbound
        BY <2>1, <2>2 DEF AsMeant, SlotsInv, SlotsOK, Held
      <3>4. BindOut(args) # "ok"
        <4>1. setup.params \in Seq(Range(setup.params))  BY ListsAssumption DEF SlotsInv, TypesOK
        <4>2. Stopped(made) \in SUBSET Nat  BY <4>1 DEF Stopped, Params
        <4>3. Upto(made) \in Stopped(made)  BY <2>5, <4>2, MinOfNat DEF Upto, BoundBy
        <4> QED  BY <1>2, <2>5, <4>3 DEF BindOut, BoundBy, Stopped, made
      <3> QED  BY <2>3, <3>1, <3>2, <3>3, <3>4 DEF Held
    <2> QED  BY <2>4, <2>5
  <1> QED  BY <1>1, <1>2

\* An execution runs the slots as they are meant, and may give a type to parameters
\* that have none.
LEMMA RunKeeps ==
  ASSUME TypesOK, Held(types, slots', told', bound'),
         NEW call, NEW args, NEW query, Runs(call, args, query)
  PROVE  SlotsInv' /\ RunsItsArguments'
  <1>1. setup' = setup  BY DEF Runs, Call
  <1>2. ran' = [args |-> told'.args, whole |-> told'.whole, types |-> types, slots |-> slots']
    BY DEF Runs
  <1>3. RunsItsArguments'
    <2> SUFFICES ASSUME told'.whole, NEW i \in Params
                 PROVE  (/\ ran.slots[i].reads =
                              Meaning(ran.slots[i].type, Meant(setup, ran.args, i).value)
                         /\ ran.types[i].kind \in Nested /\ ran.slots[i].type.kind \in Nested =>
                              \/ ran.slots[i].type = ran.types[i]
                              \/ Meant(setup, ran.args, i).value.go = "Valuer")'
      BY <1>1, <1>2 DEF RunsItsArguments, Params
    <2> QED  BY <1>1, <1>2 DEF Held, Follows
  <1>4. CASE UNCHANGED types
    <2>1. TypesOK'  BY <1>1, <1>4 DEF TypesOK, Params
    <2>2. SlotsOK'  BY <1>1, <1>4, HeldNext
    <2> QED  BY <1>3, <2>1, <2>2 DEF SlotsInv
  <1>5. CASE types' = [i \in Params |-> IF types[i].kind = "invalid" THEN slots'[i].type
                                        ELSE types[i]]
    <2>1. \A i \in Params : types[i].kind = "invalid" => slots'[i].type \in Inferred(setup, i)
      BY DEF Runs, Held, UnresolvedSlots
    <2>2. \A i \in Params : types[i].kind = "invalid" => slots'[i].type \in TypesOf(setup, i)
      <3> SUFFICES ASSUME NEW i \in Params, types[i].kind = "invalid"
                   PROVE  slots'[i].type \in TypesOf(setup, i)
        OBVIOUS
      <3>1. types[i] \in TypesOf(setup, i)  BY DEF TypesOK
      <3>2. setup.params[i].type.kind = "invalid"  BY <3>1 DEF TypesOf
      <3> QED  BY <2>1, <3>2 DEF TypesOf
    <2>3. TypesOK'  BY <1>1, <1>5, <2>2 DEF TypesOK, Params
    <2>4. Held(types', slots', told', bound')
      <3>1. UnresolvedSlots(types', slots')
        BY <1>5, <2>1 DEF Held, UnresolvedSlots
      <3>2. told'.whole => Follows(types', slots', told'.args)
        BY <1>5 DEF Held, Follows
      <3> QED  BY <3>1, <3>2 DEF Held
    <2> QED  BY <1>1, <1>3, <2>3, <2>4, HeldNext DEF SlotsInv
  <1> QED  BY <1>3, <1>4, <1>5 DEF Runs

\* A call that does not run leaves what was known of the slots it has bound.
LEMMA NoRunKeeps ==
  ASSUME TypesOK, Held(types, slots', told', bound'), UNCHANGED <<setup, types>>,
         ran' = NoRun
  PROVE  SlotsInv' /\ RunsItsArguments'
  <1>1. TypesOK'  BY DEF TypesOK, Params
  <1>2. SlotsOK'  BY HeldNext
  <1>3. RunsItsArguments'  BY DEF RunsItsArguments, NoRun
  <1> QED  BY <1>1, <1>2, <1>3 DEF SlotsInv

-----------------------------------------------------------------------------
IInv == SlotsInv /\ RunsItsArguments /\ BoundMeansComplete

\* A new statement has bound nothing.
LEMMA InitIInv == Init => IInv
  BY DEF Init, IInv, SlotsInv, SlotsOK, TypesOK, TypesOf, Held, UnresolvedSlots, Follows,
         RunsItsArguments, BoundMeansComplete, NoRun, NoCall, Params

\* Stmt.Bind.
LEMMA BindStep ==
  ASSUME IInv, NEW args \in setup.lists, NEW done \in BOOLEAN, Bind(args, done)
  PROVE  IInv'
  <1>1. /\ UNCHANGED <<setup, types>> /\ ran' = NoRun
        /\ last'.call = "bind"
    BY DEF Bind, Call
  <1>2. Held(types, slots', told', bound')
    <2>1. CASE done \/ closed
      BY <2>1 DEF Bind, IInv, SlotsInv, SlotsOK
    <2>2. CASE ~(done \/ closed)
      <3>1. BindSlots(args)  BY <2>2 DEF Bind
      <3> QED  BY <3>1, BindKeeps DEF IInv
    <2> QED  BY <2>1, <2>2
  <1>3. SlotsInv' /\ RunsItsArguments'  BY <1>1, <1>2, NoRunKeeps DEF IInv, SlotsInv
  <1>4. BoundMeansComplete'
    BY <1>1, <1>3 DEF BoundMeansComplete, SlotsInv, SlotsOK, Held
  <1> QED  BY <1>3, <1>4 DEF IInv

\* Stmt.ExecContext and Stmt.QueryContext.
LEMMA ExecuteStep ==
  ASSUME IInv, NEW args \in setup.lists, NEW call \in {"exec", "query"}, Execute(call, args)
  PROVE  IInv'
  <1>1. CASE \E out \in {"misuse", "error"} :
               DoesNotRun(call, args, out) /\ UNCHANGED <<bound, slots, leaked, told>>
    <2>1. /\ UNCHANGED <<setup, types, bound, slots, told>> /\ ran' = NoRun
          /\ last'.out # "ok"
      BY <1>1 DEF DoesNotRun, Call
    <2>2. Held(types, slots', told', bound')
      BY <2>1 DEF IInv, SlotsInv, SlotsOK
    <2>3. SlotsInv' /\ RunsItsArguments'  BY <2>1, <2>2, NoRunKeeps DEF IInv, SlotsInv
    <2> QED  BY <2>1, <2>3 DEF IInv, BoundMeansComplete, SlotsInv, SlotsOK, Held
  <1>2. CASE BindSlots(args) /\ BindOut(args) = "ok" /\ Runs(call, args, call = "query")
    <2>1. /\ Held(types, slots', told', bound')
          /\ told' = [args |-> args, whole |-> TRUE]
      BY <1>2, BindKeeps DEF IInv
    <2>2. SlotsInv' /\ RunsItsArguments'  BY <1>2, <2>1, RunKeeps DEF IInv, SlotsInv
    <2>3. told'.whole /\ ran'.args = last'.args  BY <1>2, <2>1 DEF Runs, Call
    <2> QED  BY <2>2, <2>3 DEF IInv, BoundMeansComplete, SlotsInv, SlotsOK, Held
  <1>3. CASE /\ BindSlots(args)
             /\ DoesNotRun(call, args, IF BindOut(args) = "panic" THEN "panic" ELSE "error")
    <2>1. UNCHANGED <<setup, types>> /\ ran' = NoRun /\ last'.out # "ok"
      BY <1>3 DEF DoesNotRun, Call
    <2>2. Held(types, slots', told', bound')  BY <1>3, BindKeeps DEF IInv
    <2>3. SlotsInv' /\ RunsItsArguments'  BY <2>1, <2>2, NoRunKeeps DEF IInv, SlotsInv
    <2> QED  BY <2>1, <2>3 DEF IInv, BoundMeansComplete, SlotsInv, SlotsOK, Held
  <1> QED  BY <1>1, <1>2, <1>3 DEF Execute

\* Stmt.ExecBound and Stmt.QueryBound.
LEMMA ExecuteBoundStep ==
  ASSUME IInv, NEW call \in {"exec bound", "query bound"}, ExecuteBound(call)
  PROVE  IInv'
  <1>1. UNCHANGED <<bound, slots, told>>  BY DEF ExecuteBound
  <1>2. Held(types, slots', told', bound')
    BY <1>1 DEF IInv, SlotsInv, SlotsOK
  <1>3. SlotsInv' /\ RunsItsArguments'
    <2>1. CASE DoesNotRun(call, <<>>, "error")
      <3>1. UNCHANGED <<setup, types>> /\ ran' = NoRun  BY <2>1 DEF DoesNotRun, Call
      <3> QED  BY <1>2, <3>1, NoRunKeeps DEF IInv, SlotsInv
    <2>2. CASE Runs(call, <<>>, call = "query bound")
      BY <1>2, <2>2, RunKeeps DEF IInv, SlotsInv
    <2> QED  BY <2>1, <2>2 DEF ExecuteBound
  <1>4. last'.call \notin {"exec", "query"}
    <2>1. PICK out \in {"ok", "error"} : Call(call, <<>>, out)
      BY DEF ExecuteBound, DoesNotRun, Runs
    <2>2. last'.call = call  BY <2>1 DEF Call
    <2> QED  BY <2>2
  <1> QED  BY <1>3, <1>4 DEF IInv, BoundMeansComplete, SlotsInv, SlotsOK, Held

\* Rows.Close, Stmt.Close, and steps of others.
LEMMA CloseStep ==
  ASSUME IInv, CloseRows \/ Close \/ UNCHANGED vars
  PROVE  IInv'
  <1>1. UNCHANGED <<setup, types, slots, told, bound, ran, last>>
    BY DEF CloseRows, Close, vars
  <1>2. TypesOK'  BY <1>1 DEF IInv, SlotsInv, TypesOK, Params
  <1>3. SlotsOK'  BY <1>1, HeldNext DEF IInv, SlotsInv, SlotsOK
  <1>4. RunsItsArguments'  BY <1>1 DEF IInv, RunsItsArguments, Params
  <1>5. BoundMeansComplete'  BY <1>1 DEF IInv, BoundMeansComplete, Params
  <1> QED  BY <1>2, <1>3, <1>4, <1>5 DEF IInv, SlotsInv

\* Every call keeps what is known of the statement.
LEMMA NextIInv == IInv /\ [Next]_vars => IInv'
  BY BindStep, ExecuteStep, ExecuteBoundStep, CloseStep DEF Next

\* What an execution reads in every parameter is what the argument meant for it says,
\* for every argument list, statement and order of calls: by position, by number or by
\* name, with types that an earlier execution resolved, and whatever failed before the
\* last Bind that succeeded (src/statement.go, bind and executeBound).
THEOREM RunsWhatWasMeant == Spec => []RunsItsArguments
  <1>1. IInv => RunsItsArguments  BY DEF IInv
  <1> QED  BY InitIInv, NextIInv, <1>1, PTL DEF Spec

\* Stmt.bound, which nothing clears, is never a lie about a slot: ExecBound and
\* QueryBound find a value in each; and an execution with arguments ran all of them.
THEOREM BoundHoldsValues == Spec => []BoundMeansComplete
  <1>1. IInv => BoundMeansComplete  BY DEF IInv
  <1> QED  BY InitIInv, NextIInv, <1>1, PTL DEF Spec

(***************************************************************************)
(* StmtValues: the types of a statement's columns, which are finitely deep *)
(* as well; and what making values of its arguments leaves behind.         *)
(***************************************************************************)

\* What is assumed of columns, in the form in which it is used.
LEMMA ColumnFacts ==
  ASSUME NEW s \in Stmts, NEW t \in ColumnTypes(s)
  PROVE  /\ IsLogical(t) /\ t.kids \in Seq(ColumnTypes(s)) /\ DOMAIN t.kids = 1..Len(t.kids)
         /\ Len(t.kids) \in Nat /\ Depth(t) \in Nat
         /\ \A i \in DOMAIN t.kids : t.kids[i] \in ColumnTypes(s) /\ Depth(t.kids[i]) < Depth(t)
         /\ TypesIn(t) = {t} \cup UNION {TypesIn(t.kids[i]) : i \in DOMAIN t.kids}
         /\ MembersIn(t) = MembersInDef(t)
         /\ InfoOfLogicalType(t) = InfoOfLogicalTypeDef(t)
         /\ InfoOfLogicalType(t) # NoInfo =>
              LogicalTypeOf(InfoOfLogicalType(t)) = LogicalTypeOfDef(InfoOfLogicalType(t))
  <1>1. /\ IsLogical(t) /\ t.kids \in Seq(ColumnTypes(s)) /\ Depth(t) \in Nat
        /\ \A k \in Range(t.kids) : Depth(k) < Depth(t)
        /\ TypesIn(t) = {t} \cup UNION {TypesIn(k) : k \in Range(t.kids)}
        /\ MembersIn(t) = MembersInDef(t)
        /\ InfoOfLogicalType(t) = InfoOfLogicalTypeDef(t)
        /\ InfoOfLogicalType(t) # NoInfo =>
             LogicalTypeOf(InfoOfLogicalType(t)) = LogicalTypeOfDef(InfoOfLogicalType(t))
    BY ColumnsAssumption, Zenon
  <1>2. {TypesIn(k) : k \in Range(t.kids)} = {TypesIn(t.kids[i]) : i \in DOMAIN t.kids}
    BY DEF Range
  <1>3. \A i \in DOMAIN t.kids : t.kids[i] \in Range(t.kids)  BY DEF Range
  <1>4. DOMAIN t.kids = 1..Len(t.kids) /\ Len(t.kids) \in Nat
        /\ \A i \in DOMAIN t.kids : t.kids[i] \in ColumnTypes(s)
    BY <1>1
  <1> QED  BY <1>1, <1>2, <1>3, <1>4

\* What is said of a type and all of its parts.
ReportableItself(t) ==
  /\ t.kind \notin {"invalid", "bit", "sqlnull"}
  /\ t.kind \in {"struct", "union"} => "" \notin Range(t.names)

\* What a type reports, part by part, is what its own parts report.
LEMMA PartByPart ==
  ASSUME NEW s \in Stmts, NEW t \in ColumnTypes(s)
  PROVE  /\ Reportable(t) <=> ReportableItself(t) /\ \A i \in DOMAIN t.kids : Reportable(t.kids[i])
         /\ Known(t) <=> t.kind # "bignum" /\ \A i \in DOMAIN t.kids : Known(t.kids[i])
  <1>1. TypesIn(t) = {t} \cup UNION {TypesIn(t.kids[i]) : i \in DOMAIN t.kids}  BY ColumnFacts
  <1>2. \A u : u \in TypesIn(t) <=> u = t \/ \E i \in DOMAIN t.kids : u \in TypesIn(t.kids[i])
    BY <1>1
  <1>3. \A k : k \notin (Unsupported \ {"any"}) \cup {"sqlnull"} <=> k \notin {"invalid", "bit", "sqlnull"}
    BY DEF Unsupported
  <1>4. \A u : Reportable(u) <=> \A p \in TypesIn(u) : ReportableItself(p)
    BY <1>3 DEF Reportable, ReportableItself
  <1> QED  BY <1>2, <1>4 DEF Known

\* A TypeInfo is not nil.
LEMMA InfoIsOne ==
  ASSUME NEW type, NEW infos, NEW names, NEW nums
  PROVE  Info(type, infos, names, nums) # NoInfo
  <1>1. DOMAIN Info(type, infos, names, nums) = {"type", "types", "names", "nums"}  BY DEF Info
  <1>2. DOMAIN NoInfo = {"type"}  BY DEF NoInfo
  <1> QED  BY <1>1, <1>2

\* newTypeInfoFromLogicalType describes a type by its own kind, names and numbers,
\* once its parts are described.
LEMMA InfoByParts ==
  ASSUME NEW s \in Stmts, NEW t \in ColumnTypes(s),
         \A i \in DOMAIN t.kids : InfoOfLogicalType(t.kids[i]) # NoInfo
  PROVE  InfoOfLogicalType(t) =
           IF ReportableItself(t)
             THEN Info(t.kind, [i \in DOMAIN t.kids |-> InfoOfLogicalType(t.kids[i])], t.names, t.nums)
             ELSE NoInfo
  <1> DEFINE infos == [i \in DOMAIN t.kids |-> InfoOfLogicalType(t.kids[i])]
             entries == [i \in DOMAIN infos |-> NewStructEntry(infos[i], t.names[i])]
             n == Len(t.kids)
  <1>1. IsLogical(t) /\ DOMAIN t.kids = 1..n /\ n \in Nat  BY ColumnFacts
  <1>2. DOMAIN infos = 1..n /\ NoInfo \notin Range(infos) /\ \A i \in 1..n : infos[i] # NoInfo
    BY <1>1 DEF Range
  <1>3. InfoOfLogicalType(t) =
          CASE t.kind = "decimal" -> NewDecimalInfo(t.nums[1], t.nums[2])
            [] t.kind = "enum" -> NewEnumInfo(t.names)
            [] t.kind = "list" -> NewListInfo(infos[1])
            [] t.kind = "array" -> NewArrayInfo(infos[1], t.nums[1])
            [] t.kind = "map" -> NewMapInfo(infos[1], infos[2])
            [] t.kind = "struct" -> NewStructInfo(entries)
            [] t.kind = "union" -> NewUnionInfo(infos, t.names)
            [] OTHER -> NewTypeInfo(t.kind)
    <2>1. InfoOfLogicalType(t) = InfoOfLogicalTypeDef(t)  BY ColumnFacts
    <2> QED  BY <1>2, <2>1 DEF InfoOfLogicalTypeDef
  <1> HIDE DEF infos
  <1>4. n = 0 => infos = <<>>
    <2>1. infos = [i \in 1..n |-> infos[i]]  BY <1>1 DEF infos
    <2> QED  BY <2>1
  <1>5. /\ n = 1 => infos = <<infos[1]>>
        /\ n = 2 => infos = <<infos[1], infos[2]>>
    <2>1. infos = [i \in 1..n |-> infos[i]]  BY <1>1 DEF infos
    <2> QED  BY <1>1, <2>1
  <1>6. CASE t.kind = "decimal"
    <2>1. /\ t.kids = <<>> /\ t.names = <<>>
          /\ \E width \in 1..MaxDecimalWidth : \E scale \in 0..width : t.nums = <<width, scale>>
      BY <1>1, <1>6 DEF IsLogical, Composed
    <2>2. infos = <<>>  BY <1>4, <2>1
    <2>3. NewDecimalInfo(t.nums[1], t.nums[2]) = Info("decimal", <<>>, <<>>, t.nums)
      BY <2>1 DEF NewDecimalInfo, MaxDecimalWidth
    <2> QED  BY <1>3, <1>6, <2>1, <2>2, <2>3 DEF ReportableItself, infos
  <1>7. CASE t.kind = "enum"
    <2>1. t.kids = <<>> /\ t.nums = <<>> /\ t.names # <<>> /\ IsInjective(t.names)
      BY <1>1, <1>7 DEF IsLogical, Composed
    <2>2. infos = <<>>  BY <1>4, <2>1
    <2> QED  BY <1>3, <1>7, <2>1, <2>2 DEF ReportableItself, NewEnumInfo, infos
  <1>8. CASE t.kind = "list"
    <2>1. n = 1 /\ t.nums = <<>> /\ t.names = <<>>  BY <1>1, <1>8 DEF IsLogical, Composed
    <2>2. infos = <<infos[1]>> /\ infos[1] # NoInfo  BY <1>2, <1>5, <2>1
    <2> QED  BY <1>3, <1>8, <2>1, <2>2 DEF ReportableItself, NewListInfo, infos
  <1>9. CASE t.kind = "array"
    <2>1. n = 1 /\ t.names = <<>> /\ t.nums = <<t.nums[1]>> /\ t.nums[1] # 0
      BY <1>1, <1>9 DEF IsLogical, Composed
    <2>2. infos = <<infos[1]>> /\ infos[1] # NoInfo  BY <1>2, <1>5, <2>1
    <2>3. NewArrayInfo(infos[1], t.nums[1]) = Info("array", infos, <<>>, t.nums)
      BY <2>1, <2>2 DEF NewArrayInfo
    <2> QED  BY <1>3, <1>9, <2>1, <2>3 DEF ReportableItself, infos
  <1>10. CASE t.kind = "map"
    <2>1. n = 2 /\ t.nums = <<>> /\ t.names = <<>>  BY <1>1, <1>10 DEF IsLogical, Composed
    <2>2. infos = <<infos[1], infos[2]>> /\ infos[1] # NoInfo /\ infos[2] # NoInfo  BY <1>2, <1>5, <2>1
    <2>3. NewMapInfo(infos[1], infos[2]) = Info("map", infos, <<>>, <<>>)  BY <2>2 DEF NewMapInfo
    <2> QED  BY <1>3, <1>10, <2>1, <2>3 DEF ReportableItself, infos
  <1>11. CASE t.kind = "struct"
    <2>1. /\ t.nums = <<>> /\ t.names \in Seq(STRING) /\ Len(t.names) = n
          /\ IsInjective(t.names) \/ "" \in Range(t.names)
      BY <1>1, <1>11 DEF IsLogical, Composed
    <2>0. DOMAIN t.names = 1..n /\ t.names = [i \in 1..n |-> t.names[i]]
      <3> DEFINE names == t.names
      <3>1. names \in Seq(STRING) /\ Len(names) = n  BY <2>1
      <3> HIDE DEF names, n
      <3>2. DOMAIN names = 1..n /\ names = [i \in 1..n |-> names[i]]  BY <1>1, <3>1
      <3> QED  BY <3>2 DEF names
    <2>2. InfoOfLogicalType(t) = NewStructInfo(entries)  BY <1>3, <1>11
    <2>3. DOMAIN entries = 1..n /\ \A i \in 1..n : entries[i] = NewStructEntry(infos[i], t.names[i])
      BY <1>2
    <2> HIDE DEF entries
    <2>4. CASE "" \in Range(t.names)
      <3>1. PICK i \in 1..n : t.names[i] = ""  BY <2>0, <2>4 DEF Range
      <3>2. entries[i] = NoInfo  BY <2>3, <3>1 DEF NewStructEntry
      <3>3. NoInfo \in Range(entries)  BY <2>3, <3>2 DEF Range
      <3>4. NewStructInfo(entries) = NoInfo  BY <3>3 DEF NewStructInfo
      <3> QED  BY <1>11, <2>2, <2>4, <3>4 DEF ReportableItself
    <2>5. CASE "" \notin Range(t.names)
      <3>1. \A i \in 1..n : t.names[i] # ""  BY <2>0, <2>5 DEF Range
      <3>2. \A i \in 1..n : entries[i] = [info |-> infos[i], name |-> t.names[i]]
        BY <2>3, <3>1 DEF NewStructEntry
      <3>3. \A i \in 1..n : entries[i] # NoInfo
        <4> SUFFICES ASSUME NEW i \in 1..n PROVE entries[i] # NoInfo  OBVIOUS
        <4>1. entries[i] = [info |-> infos[i], name |-> t.names[i]]  BY <3>2
        <4>2. DOMAIN [info |-> infos[i], name |-> t.names[i]] = {"info", "name"}  OBVIOUS
        <4>3. DOMAIN NoInfo = {"type"}  BY DEF NoInfo
        <4> QED  BY <4>1, <4>2, <4>3
      <3>4. NoInfo \notin Range(entries)  BY <2>3, <3>3 DEF Range
      <3>5. [i \in DOMAIN entries |-> entries[i].info] = infos
        <4>1. infos = [i \in 1..n |-> infos[i]]  BY <1>1 DEF infos
        <4>2. ASSUME NEW i \in 1..n PROVE entries[i].info = infos[i]
          <5>1. entries[i] = [info |-> infos[i], name |-> t.names[i]]  BY <3>2
          <5> QED  BY <5>1
        <4>3. [i \in DOMAIN entries |-> entries[i].info] = [i \in 1..n |-> infos[i]]  BY <2>3, <4>2
        <4> QED  BY <4>1, <4>3
      <3>6. [i \in DOMAIN entries |-> entries[i].name] = t.names
        <4>1. ASSUME NEW i \in 1..n PROVE entries[i].name = t.names[i]
          <5>1. entries[i] = [info |-> infos[i], name |-> t.names[i]]  BY <3>2
          <5> QED  BY <5>1
        <4>2. [i \in DOMAIN entries |-> entries[i].name] = [i \in 1..n |-> t.names[i]]  BY <2>3, <4>1
        <4> QED  BY <2>0, <4>2
      <3>7. NewStructInfo(entries) = Info("struct", infos, t.names, <<>>)
        BY <1>2, <2>1, <2>5, <3>4, <3>5, <3>6 DEF NewStructInfo
      <3> QED  BY <1>11, <2>1, <2>2, <2>5, <3>7 DEF ReportableItself, infos
    <2> QED  BY <2>4, <2>5
  <1>12. CASE t.kind = "union"
    <2>1. /\ t.nums = <<>> /\ t.names \in Seq(STRING) /\ Len(t.names) = n /\ t.kids # <<>>
          /\ IsInjective(t.names) \/ "" \in Range(t.names)
      BY <1>1, <1>12 DEF IsLogical, Composed
    <2>2. n # 0
      <3> DEFINE kids == t.kids
      <3>1. kids \in Seq(ColumnTypes(s)) /\ kids # <<>>  BY <2>1, ColumnFacts
      <3> HIDE DEF kids
      <3>2. Len(kids) # 0  BY <3>1
      <3> QED  BY <3>2 DEF kids
    <2>3. Len(infos) = n /\ infos # <<>>  BY <1>1, <1>2, <2>2
    <2>4. InfoOfLogicalType(t) = NewUnionInfo(infos, t.names)  BY <1>3, <1>12
    <2> QED  BY <1>12, <2>1, <2>3, <2>4 DEF NewUnionInfo, ReportableItself, infos
  <1>13. CASE t.kind \notin {"decimal", "enum"} \cup Composed
    <2>1. /\ t.kids = <<>> /\ t.names = <<>> /\ t.nums = <<>>
          /\ t.kind \in Described \cup {"invalid", "bit", "sqlnull"}
      BY <1>1, <1>13 DEF IsLogical, Composed, Unsupported, Described, Primitive
    <2>2. infos = <<>>  BY <1>4, <2>1
    <2>3. InfoOfLogicalType(t) = NewTypeInfo(t.kind)  BY <1>3, <1>13 DEF Composed
    <2>4. t.kind \in Described <=> ReportableItself(t)
      BY <1>13, <2>1 DEF ReportableItself, Described, Primitive, Composed
    <2> QED  BY <2>1, <2>2, <2>3, <2>4 DEF NewTypeInfo, infos
  <1> QED  BY <1>6, <1>7, <1>8, <1>9, <1>10, <1>11, <1>12, <1>13 DEF Composed

\* What ReportedTypeIsTheColumns says of one type.
Reported(t) ==
  IF Reportable(t)
    THEN /\ InfoOfLogicalType(t) # NoInfo
         /\ LogicalTypeOf(InfoOfLogicalType(t)) = Made(IF Known(t) THEN t ELSE NullType, MembersIn(t))
    ELSE InfoOfLogicalType(t) = NoInfo

\* A type is reported when its parts are.
LEMMA ReportedByParts ==
  ASSUME NEW s \in Stmts, NEW t \in ColumnTypes(s), \A i \in DOMAIN t.kids : Reported(t.kids[i])
  PROVE  Reported(t)
  <1> DEFINE infos == [i \in DOMAIN t.kids |-> InfoOfLogicalType(t.kids[i])]
             info == InfoOfLogicalType(t)
             n == Len(t.kids)
  <1>1. DOMAIN t.kids = 1..n /\ n \in Nat /\ IsLogical(t)  BY ColumnFacts
  <1>2. CASE \E i \in DOMAIN t.kids : ~Reportable(t.kids[i])
    <2>1. ~Reportable(t)  BY <1>2, PartByPart
    <2>2. NoInfo \in Range(infos)
      <3>1. PICK i \in DOMAIN t.kids : InfoOfLogicalType(t.kids[i]) = NoInfo  BY <1>2 DEF Reported
      <3>2. infos[i] = NoInfo /\ i \in DOMAIN infos  BY <3>1
      <3> QED  BY <3>2 DEF Range
    <2>3. info = NoInfo
      <3>1. info = InfoOfLogicalTypeDef(t)  BY ColumnFacts
      <3> QED  BY <2>2, <3>1 DEF InfoOfLogicalTypeDef
    <2> QED  BY <2>1, <2>3 DEF Reported
  <1>3. CASE \A i \in DOMAIN t.kids : Reportable(t.kids[i])
    <2>1. info = IF ReportableItself(t) THEN Info(t.kind, infos, t.names, t.nums) ELSE NoInfo
      <3>1. \A i \in DOMAIN t.kids : InfoOfLogicalType(t.kids[i]) # NoInfo  BY <1>3 DEF Reported
      <3> QED  BY <3>1, InfoByParts
    <2>2. Reportable(t) <=> ReportableItself(t)  BY <1>3, PartByPart
    <2>3. CASE ~ReportableItself(t)  BY <2>1, <2>2, <2>3 DEF Reported
    <2>4. CASE ReportableItself(t)
      <3>1. info # NoInfo  BY <2>1, <2>4, InfoIsOne
      <3> DEFINE made == [i \in 1..n |-> LogicalTypeOf(infos[i])]
                 kids == [i \in 1..n |-> made[i].type]
                 kept == IF t.kind \in {"struct", "union"} THEN n ELSE 0
      <3>2. LogicalTypeOf(info) =
              IF t.kind \in Primitive \cup {"decimal", "enum", "list", "map", "array", "struct", "union"}
                 /\ NullType \notin Range(kids)
                THEN Made(Logical(t.kind, kids, t.names, t.nums), kept + LostBy(made))
                ELSE Made(NullType, kept + LostBy(made))
        <4>1. LogicalTypeOf(info) = LogicalTypeOfDef(info)  BY <3>1, ColumnFacts
        <4>2. info.type = t.kind /\ info.types = infos /\ info.names = t.names /\ info.nums = t.nums
          BY <2>1, <2>4 DEF Info
        <4>3. DOMAIN infos = 1..n  BY <1>1
        <4>4. Len(made) = n /\ DOMAIN made = 1..n  BY <1>1
        <4> HIDE DEF info, infos
        <4> QED  BY <4>1, <4>2, <4>3, <4>4 DEF LogicalTypeOfDef
      <3>3. \A i \in 1..n : made[i] = Made(IF Known(t.kids[i]) THEN t.kids[i] ELSE NullType, MembersIn(t.kids[i]))
        BY <1>1, <1>3 DEF Reported
      <3>4. DOMAIN made = 1..n  OBVIOUS
      <3> HIDE DEF made, infos, info
      <3>5. \A i \in 1..n : /\ made[i].lost = MembersIn(t.kids[i])
                            /\ kids[i] = IF Known(t.kids[i]) THEN t.kids[i] ELSE NullType
        <4>1. \A i \in 1..n : kids[i] = made[i].type  OBVIOUS
        <4> SUFFICES ASSUME NEW i \in 1..n
                     PROVE  /\ made[i].lost = MembersIn(t.kids[i])
                            /\ made[i].type = IF Known(t.kids[i]) THEN t.kids[i] ELSE NullType
          BY <4>1
        <4>2. made[i] = Made(IF Known(t.kids[i]) THEN t.kids[i] ELSE NullType, MembersIn(t.kids[i]))  BY <3>3
        <4> QED  BY <4>2 DEF Made
      <3>6. kept + LostBy(made) = MembersIn(t)
        <4>1. [i \in DOMAIN made |-> made[i].lost] = [i \in DOMAIN t.kids |-> MembersIn(t.kids[i])]
          BY <1>1, <3>4, <3>5
        <4>2. MembersIn(t) = MembersInDef(t)  BY ColumnFacts
        <4> QED  BY <4>1, <4>2 DEF LostBy, MembersInDef
      <3>7. CASE Known(t)
        <4>1. t.kind # "bignum" /\ \A i \in 1..n : Known(t.kids[i])  BY <1>1, <3>7, PartByPart
        <4>2. kids = t.kids
          <5>1. t.kids = [i \in 1..n |-> t.kids[i]]  BY <1>1, ColumnFacts
          <5> QED  BY <3>5, <4>1, <5>1
        <4>3. NullType \notin Range(kids)
          <5>1. \A i \in 1..n : IsLogical(t.kids[i])  BY <1>1, ColumnFacts
          <5>2. \A i \in 1..n : t.kids[i].kind # "null handle"
            BY <5>1 DEF IsLogical, Described, Primitive, Unsupported, Composed
          <5>3. NullType.kind = "null handle"  BY DEF NullType, Plain, Logical
          <5>4. DOMAIN kids = 1..n  OBVIOUS
          <5> HIDE DEF kids
          <5> QED  BY <4>2, <5>2, <5>3, <5>4 DEF Range
        <4>4. t.kind \in Primitive \cup {"decimal", "enum", "list", "map", "array", "struct", "union"}
          BY <1>1, <2>4, <4>1 DEF IsLogical, ReportableItself, Described, Primitive, Unsupported, Composed
        <4>5. t = Logical(t.kind, t.kids, t.names, t.nums)  BY <1>1 DEF IsLogical
        <4> HIDE DEF kids, kept
        <4>6. LogicalTypeOf(info) = Made(t, MembersIn(t))  BY <3>2, <3>6, <4>2, <4>3, <4>4, <4>5
        <4> QED  BY <2>2, <2>4, <3>1, <3>7, <4>6 DEF Reported, info
      <3>8. CASE ~Known(t)
        <4>1. t.kind = "bignum" \/ NullType \in Range(kids)
          <5>1. CASE \E i \in 1..n : ~Known(t.kids[i])
            <6>1. PICK i \in 1..n : ~Known(t.kids[i])  BY <5>1
            <6>2. kids[i] = NullType /\ i \in DOMAIN kids  BY <3>5, <6>1
            <6> QED  BY <6>2 DEF Range
          <5> QED  BY <1>1, <3>8, <5>1, PartByPart
        <4> HIDE DEF kids, kept
        <4>2. LogicalTypeOf(info) = Made(NullType, MembersIn(t))
          BY <3>2, <3>6, <4>1 DEF Primitive
        <4> QED  BY <2>2, <2>4, <3>1, <3>8, <4>2 DEF Reported, info
      <3> QED  BY <3>7, <3>8
    <2> QED  BY <2>3, <2>4
  <1> QED  BY <1>2, <1>3

\* Every type of a statement's columns is reported.
LEMMA AllReported ==
  ASSUME NEW s \in Stmts
  PROVE  \A t \in ColumnTypes(s) : Reported(t)
  <1> SUFFICES ASSUME \E t \in ColumnTypes(s) : ~Reported(t) PROVE FALSE
    OBVIOUS
  <1> DEFINE depths == {Depth(t) : t \in {u \in ColumnTypes(s) : ~Reported(u)}}
  <1>1. depths \in SUBSET Nat /\ depths # {}  BY ColumnFacts
  <1>2. PICK t \in ColumnTypes(s) : ~Reported(t) /\ \A d \in depths : Depth(t) <= d
    <2>1. Min(depths) \in depths /\ \A d \in depths : Min(depths) =< d
      <3> HIDE DEF depths
      <3> QED  BY <1>1, MinOfNat
    <2> QED  BY <2>1
  <1>3. \A i \in DOMAIN t.kids : Reported(t.kids[i])
    <2> SUFFICES ASSUME NEW i \in DOMAIN t.kids, ~Reported(t.kids[i]) PROVE FALSE
      OBVIOUS
    <2>1. t.kids[i] \in ColumnTypes(s) /\ Depth(t.kids[i]) < Depth(t) /\ Depth(t) \in Nat
          /\ Depth(t.kids[i]) \in Nat
      BY ColumnFacts
    <2> QED  BY <1>2, <2>1
  <1> QED  BY <1>2, <1>3, ReportedByParts

\* ColumnTypeInfo describes every type that has no unsupported part, and the type
\* that logicalType makes of the description is the column's own, or none if it
\* holds a BIGNUM; one handle is lost for each member of its STRUCTs and UNIONs
\* (src/type_info.go).
THEOREM ReportedTypesAreTrue == Spec => []ReportedTypeIsTheColumns
  <1>1. Init => setup \in Stmts  BY DEF Init
  <1>2. setup \in Stmts /\ [Next]_vars => (setup \in Stmts)'
    BY DEF Next, Bind, Execute, ExecuteBound, Runs, DoesNotRun, Call, CloseRows, Close, vars
  <1>3. setup \in Stmts => ReportedTypeIsTheColumns
    <2> SUFFICES ASSUME setup \in Stmts, NEW n \in 0..Len(setup.columns)
                 PROVE  LET lt == setup.columns[n + 1]
                            info == ColumnTypeInfo(n)
                        IN IF closed \/ n = Len(setup.columns) \/ ~Reportable(lt) THEN info = NoInfo
                           ELSE LogicalTypeOf(info) = Made(IF Known(lt) THEN lt ELSE NullType, MembersIn(lt))
      BY DEF ReportedTypeIsTheColumns
    <2>1. setup.columns \in Seq(ColumnTypes(setup)) /\ Len(setup.columns) \in Nat
      BY ColumnsAssumption
    <2>2. CASE closed \/ n = Len(setup.columns)
      BY <2>1, <2>2 DEF ColumnTypeInfo
    <2>3. CASE ~closed /\ n # Len(setup.columns)
      <3>1. setup.columns[n + 1] \in ColumnTypes(setup)  BY <2>1, <2>3
      <3>2. ColumnTypeInfo(n) = InfoOfLogicalType(setup.columns[n + 1])
        BY <2>1, <2>3 DEF ColumnTypeInfo
      <3> QED  BY <2>3, <3>1, <3>2, AllReported DEF Reported
    <2> QED  BY <2>2, <2>3
  <1> QED  BY <1>1, <1>2, <1>3, PTL DEF Spec

-----------------------------------------------------------------------------
\* What a call does to the handles that are alive, and how it ends.
LEMMA BindLeaves ==
  ASSUME TypesOK, NEW args \in setup.lists, Enough(args), NEW i \in Params
  PROVE  LET m == MadeOf(args)[i] IN
         /\ m.live \subseteq ElementHandles
         /\ m.live # {} => \E a \in Range(args) : HasElements(a.value)
         /\ m.out = "panic" => types[i].kind \in Nested \/ ReachesNil(Chosen(args, i).value)
  <1> DEFINE v == Chosen(args, i).value
             json == setup.params[i].json
  <1>1. v \in Values(setup) /\ \E a \in Range(args) : a.value = v  BY ChosenIsArgument DEF TypesOK
  <1>2. types[i] \in ParamTypes(setup) /\ MadeOf(args)[i] = BindValue(types[i], json, v)
    <2>1. types[i] \in TypesOf(setup, i) /\ setup \in Stmts  BY DEF TypesOK
    <2>2. \A type \in TypesOf(setup, i) :
            /\ type \in ParamTypes(setup)
            /\ \A w \in Values(setup) : MakeValue(type, json, w) = BindValue(type, json, w)
      BY <2>1, ArgumentsAssumption, Zenon DEF Params
    <2>3. MadeOf(args)[i] = MakeValue(types[i], json, v)  BY DEF MadeOf
    <2> QED  BY <1>1, <2>1, <2>2, <2>3
  <1> HIDE DEF v, json
  <1> QED  BY <1>1, <1>2, BindValueIsRight DEF TypesOK, ReachesNil, v

Harmless == OnlyElementsLeak /\ PanicsAreOfElements

\* Stmt.bind leaks only elements and panics only for them.
LEMMA BindIsHarmless ==
  ASSUME TypesOK, OnlyElementsLeak, NEW args \in setup.lists, BindSlots(args), UNCHANGED setup
  PROVE  /\ OnlyElementsLeak'
         /\ BindOut(args) = "panic" =>
              \E i \in Params : types[i].kind \in Nested \/ ReachesNil(Chosen(args, i).value)
  <1>1. CASE ~Enough(args)
    BY <1>1 DEF BindSlots, BindOut, OnlyElementsLeak
  <1>2. CASE Enough(args)
    <2> DEFINE made == MadeOf(args)
    <2>1. /\ leaked' = leaked \cup UNION {made[i].live : i \in 1..Upto(made)}
          /\ BindOut(args) = IF Stopped(made) = {} THEN "ok" ELSE made[Upto(made)].out
      BY <1>2 DEF BindSlots, BindOut
    <2>2. /\ Params = 1..Len(setup.params) /\ Len(setup.params) \in Nat
      BY ListsAssumption DEF TypesOK, Params
    <2>3. Stopped(made) # {} => Upto(made) \in Params
      <3>1. Stopped(made) \in SUBSET Nat /\ Stopped(made) \subseteq Params  BY <2>2 DEF Stopped
      <3> HIDE DEF made
      <3> QED  BY <3>1, MinOfNat DEF Upto
    <2>4. \A i \in 1..Upto(made) : i \in Params
      <3>1. Upto(made) \in 0..Len(setup.params)  BY <2>2, <2>3 DEF Upto
      <3> QED  BY <2>2, <3>1
    <2>5. \A i \in Params :
            /\ made[i].live \subseteq ElementHandles
            /\ made[i].live # {} => \E a \in Range(args) : HasElements(a.value)
            /\ made[i].out = "panic" => types[i].kind \in Nested \/ ReachesNil(Chosen(args, i).value)
      BY <1>2, BindLeaves
    <2> HIDE DEF made
    <2>6. OnlyElementsLeak'
      <3>1. leaked' \subseteq ElementHandles
        BY <2>1, <2>4, <2>5 DEF OnlyElementsLeak, ElementHandles
      <3>2. leaked' # {} => \E list \in setup.lists : \E a \in Range(list) : HasElements(a.value)
        <4>1. CASE leaked # {}  BY <4>1 DEF OnlyElementsLeak
        <4>2. CASE \E i \in 1..Upto(made) : made[i].live # {}  BY <2>4, <2>5, <4>2
        <4>3. CASE leaked = {} /\ \A i \in 1..Upto(made) : made[i].live = {}
          <5>1. leaked' = {}  BY <2>1, <4>3
          <5> QED  BY <5>1
        <4> QED  BY <4>1, <4>2, <4>3
      <3> QED  BY <3>1, <3>2 DEF OnlyElementsLeak, ElementHandles
    <2>7. BindOut(args) = "panic" =>
            \E i \in Params : types[i].kind \in Nested \/ ReachesNil(Chosen(args, i).value)
      BY <2>1, <2>3, <2>5
    <2> QED  BY <2>6, <2>7
  <1> QED  BY <1>1, <1>2

\* What is needed of a call that does not run: the slots may have been bound.
LEMMA CallIsHarmless ==
  ASSUME TypesOK, OnlyElementsLeak, NEW args, NEW call, NEW out, Call(call, args, out), UNCHANGED types,
         \/ UNCHANGED leaked /\ out # "panic"
         \/ /\ args \in setup.lists /\ BindSlots(args)
            /\ out = "panic" => BindOut(args) = "panic"
  PROVE  Harmless'
  <1>1. UNCHANGED setup /\ last' = [call |-> call, args |-> args, out |-> out]  BY DEF Call
  <1>2. CASE UNCHANGED leaked /\ out # "panic"
    BY <1>1, <1>2 DEF Harmless, OnlyElementsLeak, PanicsAreOfElements
  <1>3. CASE /\ args \in setup.lists /\ BindSlots(args)
             /\ out = "panic" => BindOut(args) = "panic"
    <2>1. OnlyElementsLeak'  BY <1>1, <1>3, BindIsHarmless
    <2>2. out = "panic" => \E i \in Params : types[i].kind \in Nested \/ ReachesNil(Chosen(args, i).value)
      BY <1>1, <1>3, BindIsHarmless
    <2>3. Params' = Params /\ \A i \in Params : Chosen(args, i)' = Chosen(args, i)
      BY <1>1 DEF Params, Chosen, Overridden, Numbered, Named
    <2>4. PanicsAreOfElements'
      <3> SUFFICES ASSUME last'.out = "panic"
                   PROVE  (\E i \in Params : types[i].kind \in Nested \/ ReachesNil(Chosen(last.args, i).value))'
        BY DEF PanicsAreOfElements
      <3>1. PICK i \in Params : types[i].kind \in Nested \/ ReachesNil(Chosen(args, i).value)
        BY <1>1, <2>2
      <3>2. last'.args = args /\ types' = types /\ i \in Params'  BY <1>1, <2>3
      <3>3. Chosen(last.args, i)' = Chosen(args, i)
        BY <1>1, <3>2 DEF Chosen, Overridden, Numbered, Named
      <3> QED  BY <3>1, <3>2, <3>3
    <2> QED  BY <2>1, <2>4 DEF Harmless
  <1> QED  BY <1>2, <1>3

\* So does every call.
LEMMA NextHarmless == IInv /\ Harmless /\ [Next]_vars => Harmless'
  <1> SUFFICES ASSUME IInv, Harmless, [Next]_vars PROVE Harmless'
    OBVIOUS
  <1>1. TypesOK /\ OnlyElementsLeak  BY DEF IInv, SlotsInv, Harmless
  <1>2. ASSUME NEW args \in setup.lists, NEW done \in BOOLEAN, Bind(args, done) PROVE Harmless'
    <2>1. CASE Call("bind", args, "error") /\ UNCHANGED <<leaked, types>>
      BY <1>1, <2>1, CallIsHarmless
    <2>2. CASE Call("bind", args, BindOut(args)) /\ BindSlots(args) /\ UNCHANGED types
      BY <1>1, <2>2, CallIsHarmless
    <2> QED  BY <1>2, <2>1, <2>2 DEF Bind
  <1>3. ASSUME NEW args \in setup.lists, NEW call \in {"exec", "query"}, Execute(call, args) PROVE Harmless'
    <2>1. CASE \E out \in {"misuse", "error"} : DoesNotRun(call, args, out) /\ UNCHANGED leaked
      <3>1. PICK out \in {"misuse", "error"} : Call(call, args, out) /\ UNCHANGED types /\ UNCHANGED leaked
        BY <2>1 DEF DoesNotRun
      <3> QED  BY <1>1, <3>1, CallIsHarmless
    <2>2. CASE BindSlots(args) /\ Runs(call, args, call = "query")
      <3>1. Call(call, args, "ok") /\ UNCHANGED setup /\ last'.out = "ok"  BY <2>2 DEF Runs, Call
      <3>2. OnlyElementsLeak'  BY <1>1, <2>2, <3>1, BindIsHarmless
      <3> QED  BY <3>1, <3>2 DEF Harmless, PanicsAreOfElements
    <2>3. CASE /\ BindSlots(args)
               /\ DoesNotRun(call, args, IF BindOut(args) = "panic" THEN "panic" ELSE "error")
      <3>1. /\ Call(call, args, IF BindOut(args) = "panic" THEN "panic" ELSE "error")
            /\ UNCHANGED types
        BY <2>3 DEF DoesNotRun
      <3> QED  BY <1>1, <2>3, <3>1, CallIsHarmless
    <2> QED  BY <1>3, <2>1, <2>2, <2>3 DEF Execute
  <1>4. ASSUME NEW call \in {"exec bound", "query bound"}, ExecuteBound(call) PROVE Harmless'
    <2>1. UNCHANGED leaked /\ \E out \in {"ok", "error"} : Call(call, <<>>, out)
      <3>1. UNCHANGED leaked  BY <1>4 DEF ExecuteBound
      <3>2. Call(call, <<>>, "error") \/ Call(call, <<>>, "ok")
        BY <1>4 DEF ExecuteBound, DoesNotRun, Runs
      <3> QED  BY <3>1, <3>2
    <2>2. PICK out \in {"ok", "error"} : Call(call, <<>>, out)  BY <2>1
    <2>3. UNCHANGED setup /\ last' = [call |-> call, args |-> <<>>, out |-> out]  BY <2>2 DEF Call
    <2>4. last'.out # "panic"  BY <2>3
    <2> QED  BY <2>1, <2>3, <2>4 DEF Harmless, OnlyElementsLeak, PanicsAreOfElements
  <1>5. ASSUME CloseRows \/ Close \/ UNCHANGED vars PROVE Harmless'
    <2>1. UNCHANGED <<setup, types, leaked, last>>  BY <1>5 DEF CloseRows, Close, vars
    <2> QED  BY <2>1 DEF Harmless, OnlyElementsLeak, PanicsAreOfElements, Params, Chosen, Overridden, Numbered, Named
  <1> QED  BY <1>2, <1>3, <1>4, <1>5 DEF Next

\* A new statement has leaked nothing.
LEMMA InitHarmless == Init => Harmless
  BY DEF Init, Harmless, OnlyElementsLeak, PanicsAreOfElements, NoCall

\* Of the handles that bindValue and the functions under it make for any argument of
\* any Go type, only those of the elements of nested values are left alive, and none
\* by a list without nested values, on errors and panics too (src/value.go).
THEOREM OnlyElementsStayAlive == Spec => []OnlyElementsLeak
  <1>1. Harmless => OnlyElementsLeak  BY DEF Harmless
  <1> QED  BY InitIInv, NextIInv, InitHarmless, NextHarmless, <1>1, PTL DEF Spec

\* A call that panics had an argument for a parameter of a nested type, or one that
\* is a nil *big.Int, or one whose Value or String method is called on a nil.
THEOREM PanicsHaveAReason == Spec => []PanicsAreOfElements
  <1>1. Harmless => PanicsAreOfElements  BY DEF Harmless
  <1> QED  BY InitIInv, NextIInv, InitHarmless, NextHarmless, <1>1, PTL DEF Spec

(***************************************************************************)
(* ResultScan: rows.Next implements RowCursor for every result, however    *)
(* its rows are divided into chunks.  The invariant ties the number of     *)
(* rows given to the position in the current chunk.                        *)
(***************************************************************************)

\* How many rows are in the chunks before the current one.
Before == IF fetched = 0 THEN 0 ELSE Offset[fetched - 1]

\* The size is the current chunk's, and without a chunk there is none.
SizeOfChunk ==
  /\ fetched = 0 => size = 0 /\ ~closeChunk
  /\ fetched > 0 => size = Offset[fetched] - Offset[fetched - 1]

\* The rows given are those before the position.
Position ==
  /\ result.readable => rowCount <= size /\ given = Before + rowCount
  /\ ~result.readable => rowCount = 0 /\ given = 0

\* What is alive is what closeChunk says, until the rows are closed.
Owned ==
  /\ live = IF closeChunk /\ open THEN {fetched} ELSE {}
  /\ rowCount # size => closeChunk
  /\ pc = "Next" => open

ScanInv == TypeOK /\ SizeOfChunk /\ Position /\ Owned

-----------------------------------------------------------------------------
\* What is known of the result: its offsets are numbers, and they grow.
LEMMA Division ==
  ASSUME TypeOK
  PROVE  /\ Chunks \in Nat /\ result.readable \in BOOLEAN
         /\ \A c \in 0..Chunks : Offset[c] \in Nat
         /\ Offset[0] = 0
         /\ \A c, d \in 0..Chunks : c <= d => Offset[c] <= Offset[d]
  BY ResultAssumption DEF TypeOK, IsDivision, Chunks, Offset

\* Before the first chunk nothing has been read.
LEMMA ScanInitInv == ScanInit => ScanInv
<1> SUFFICES ASSUME ScanInit PROVE ScanInv OBVIOUS
<1>1. TypeOK
  <2>1. result.chunks \in Nat
    BY ResultAssumption DEF ScanInit, IsDivision
  <2>2. fetched \in 0..Chunks /\ live \subseteq 1..Chunks
    BY <2>1 DEF ScanInit, Chunks
  <2> QED BY <2>2 DEF ScanInit, TypeOK
<1>2. SizeOfChunk /\ Position /\ Owned
  BY <1>1, Division DEF ScanInit, SizeOfChunk, Position, Owned, Before
<1> QED BY <1>1, <1>2 DEF ScanInv

\* Fetching the next chunk.
LEMMA FetchInv ==
  ASSUME ScanInv, Fetch, pc' \in {"user", "Next"},
         answer' \in {"none", "row", "eof", "error", "panic"}, rowCount' = 0
  PROVE  ScanInv'
<1> USE DEF ScanInv
<1>1. PICK n \in Nat : n = fetched /\ n < Chunks /\ fetched' = n + 1
  BY Division DEF Fetch, TypeOK
<1>2. /\ Chunks \in Nat /\ Chunks' = Chunks /\ Offset' = Offset /\ result' = result
      /\ Offset[n] \in Nat /\ Offset[n + 1] \in Nat /\ Offset[n] <= Offset[n + 1]
  BY <1>1, Division DEF Fetch, Chunks, Offset
<1>3. size' = Offset[n + 1] - Offset[n] /\ size' \in Nat
  BY <1>1, <1>2 DEF Fetch, ChunkSize
<1>4. TypeOK'
  <2>1. fetched' \in 0..Chunks' /\ live' \subseteq 1..Chunks'
    BY <1>1, <1>2 DEF Fetch, TypeOK
  <2> QED BY <2>1, <1>2, <1>3 DEF Fetch, TypeOK
<1>5. SizeOfChunk'
  BY <1>1, <1>2, <1>3 DEF SizeOfChunk
<1>6. Position'
  <2>1. CASE result.readable
    <3>1. rowCount = size /\ given = Before + size
      BY <2>1 DEF Fetch, UsedUp, Position
    <3>2. Before + size = Offset[n]
      BY <1>1, <1>2, Division DEF Before, SizeOfChunk
    <3>3. Before' = Offset[n]
      BY <1>1, <1>2 DEF Before
    <3> QED BY <2>1, <3>1, <3>2, <3>3, <1>2, <1>3 DEF Fetch, Position
  <2>2. CASE ~result.readable
    BY <2>2, <1>2 DEF Fetch, Position
  <2> QED BY <2>1, <2>2
<1>7. Owned'
  BY <1>1 DEF Fetch, Owned, TypeOK
<1> QED BY <1>4, <1>5, <1>6, <1>7

\* Every step of rows.Next keeps the position in step with the rows given.
LEMMA ScanStepInv == ScanInv /\ [ScanNext]_scanVars => ScanInv'
<1> SUFFICES ASSUME ScanInv, [ScanNext]_scanVars PROVE ScanInv' OBVIOUS
<1> USE DEF ScanInv
<1>1. CASE CallNext
  BY <1>1 DEF CallNext, duckdb, scan, history, TypeOK, SizeOfChunk, Position, Owned,
              Before, Chunks, Offset
<1>2. CASE CloseUsedUp
  BY <1>2 DEF CloseUsedUp, FlagAfterClose, UsedUp, history, TypeOK, SizeOfChunk, Position,
              Owned, Before, Chunks, Offset
<1>3. CASE FetchNone
  BY <1>3 DEF FetchNone, duckdb, scan, TypeOK, SizeOfChunk, Position, Owned, Before,
              Chunks, Offset
<1>4. CASE FetchReadable
  BY <1>4, FetchInv DEF FetchReadable, NewPosition, TypeOK, Fetch
<1>5. CASE FetchUnreadable
  BY <1>5, FetchInv DEF FetchUnreadable, Fetch, Position
<1>6. CASE GiveRow
  <2>1. /\ fetched > 0 /\ Offset[fetched - 1] \in Nat /\ rowCount < size
        /\ given = Offset[fetched - 1] + rowCount
    BY <1>6, Division DEF GiveRow, UsedUp, TypeOK, SizeOfChunk, Position, Before
  <2>2. TypeOK'
    BY <1>6, <2>1 DEF GiveRow, duckdb, TypeOK, Chunks
  <2>3. SizeOfChunk' /\ Owned'
    BY <1>6, <2>1 DEF GiveRow, duckdb, SizeOfChunk, Owned, Offset, UsedUp
  <2>4. Position'
    BY <1>6, <2>1 DEF GiveRow, duckdb, TypeOK, Position, Before, Offset
  <2> QED BY <2>2, <2>3, <2>4
<1>7. CASE ReadUnreadable
  BY <1>7 DEF ReadUnreadable, duckdb, scan, TypeOK, SizeOfChunk, Position, Owned, Before,
              Chunks, Offset
<1>8. CASE CloseResult
  BY <1>8 DEF CloseResult, AfterClose, scan, history, TypeOK, SizeOfChunk, Position, Owned, Before,
              Chunks, Offset
<1>9. CASE UNCHANGED scanVars
  BY <1>9 DEF scanVars, duckdb, scan, history, TypeOK, SizeOfChunk, Position, Owned, Before,
              Chunks, Offset
<1> QED BY <1>1, <1>2, <1>3, <1>4, <1>5, <1>6, <1>7, <1>8, <1>9 DEF ScanNext, InNext

-----------------------------------------------------------------------------
\* rows.go:60-75: fetched never passes the number of chunks and every size and
\* position is a number.
THEOREM TypeCorrect == ScanSpec => []TypeOK
<1>1. ScanInv => TypeOK
  BY DEF ScanInv
<1> QED BY ScanInitInv, ScanStepInv, <1>1, PTL DEF ScanSpec

\* rows.go:60-64 and 160-162: each chunk is destroyed before the next is fetched
\* and none is alive after Close, whatever the result.
THEOREM ChunksAreOwned == ScanSpec => []ChunkOwned
<1>1. ScanInv => ChunkOwned
  BY DEF ScanInv, Owned, ChunkOwned
<1> QED BY ScanInitInv, ScanStepInv, <1>1, PTL DEF ScanSpec

\* rows.go:77-84: whatever the result, a row is read from a chunk that is alive,
\* inside of it.
THEOREM ReadsAreSafe == ScanSpec => ReadsLiveChunk
<1>1. ScanInv /\ [ScanNext]_scanVars =>
        [given' # given => fetched \in live /\ rowCount < size]_scanVars
  <2> SUFFICES ASSUME ScanInv, [ScanNext]_scanVars, given' # given
               PROVE  fetched \in live /\ rowCount < size
    OBVIOUS
  <2>1. GiveRow
    BY DEF ScanNext, InNext, CallNext, CloseUsedUp, FetchNone, FetchReadable, FetchUnreadable,
           Fetch, ReadUnreadable, CloseResult, scanVars, history
  <2> QED BY <2>1 DEF GiveRow, UsedUp, ScanInv, Owned, Position, TypeOK
<1> QED BY ScanInitInv, ScanStepInv, <1>1, PTL DEF ScanSpec, ReadsLiveChunk

-----------------------------------------------------------------------------
\* The total never changes.
LEMMA TotalKept ==
  ASSUME result' = result
  PROVE  Offset[Chunks]' = Offset[Chunks] /\ (result.readable)' = result.readable
  BY DEF Offset, Chunks

\* The scan begins where the cursor does.
LEMMA ScanInitRefines == ScanInit => Cursor!Init
<1> SUFFICES ASSUME ScanInit PROVE Cursor!Init OBVIOUS
<1>1. TypeOK
  BY ScanInitInv DEF ScanInv
<1> QED BY <1>1, Division DEF ScanInit, Cursor!Init

\* Every step of the scan is a step of the cursor, or none that can be seen.
LEMMA ScanStepRefines == ScanInv /\ [ScanNext]_scanVars => [Cursor!Next]_Cursor!vars
<1> SUFFICES ASSUME ScanInv, [ScanNext]_scanVars PROVE [Cursor!Next]_Cursor!vars OBVIOUS
<1>0. result' = result
  BY DEF ScanNext, InNext, CallNext, CloseUsedUp, FetchNone, FetchReadable, FetchUnreadable,
         Fetch, GiveRow, ReadUnreadable, CloseResult, scanVars
<1>1. CASE CallNext
  BY <1>0, <1>1, TotalKept DEF CallNext, history, Cursor!vars
<1>2. CASE CloseUsedUp
  BY <1>0, <1>2, TotalKept DEF CloseUsedUp, history, Cursor!vars
<1>3. CASE FetchNone
  <2>1. result.readable => given = Offset[Chunks]
    BY <1>3, Division DEF FetchNone, UsedUp, ScanInv, TypeOK, SizeOfChunk, Position, Before
  <2> QED BY <1>0, <1>3, <2>1, TotalKept DEF FetchNone, ScanInv, Owned, Cursor!Next, Cursor!End
<1>4. CASE FetchReadable
  BY <1>0, <1>4, TotalKept DEF FetchReadable, Fetch, Cursor!vars
<1>5. CASE FetchUnreadable
  BY <1>0, <1>5, TotalKept DEF FetchUnreadable, Fetch, ScanInv, Owned, Cursor!Next, Cursor!Fail
<1>6. CASE GiveRow
  <2>1. /\ fetched \in 1..Chunks /\ rowCount < size
        /\ given = Offset[fetched - 1] + rowCount
        /\ size = Offset[fetched] - Offset[fetched - 1]
    BY <1>6, Division DEF GiveRow, UsedUp, ScanInv, TypeOK, SizeOfChunk, Position, Before
  <2>2. /\ Chunks \in Nat
        /\ Offset[fetched - 1] \in Nat /\ Offset[fetched] \in Nat /\ Offset[Chunks] \in Nat
        /\ Offset[fetched] <= Offset[Chunks]
    BY <2>1, Division DEF ScanInv
  <2>3. given < Offset[Chunks]
    BY <2>1, <2>2 DEF ScanInv, TypeOK
  <2>4. row' = given + 1
    BY <1>6, <2>1, <2>2 DEF GiveRow, ScanInv, TypeOK
  <2> QED BY <1>0, <1>6, <2>3, <2>4, TotalKept
          DEF GiveRow, ScanInv, Owned, Cursor!Next, Cursor!GiveRow
<1>7. CASE ReadUnreadable
  BY <1>0, <1>7, TotalKept DEF ReadUnreadable, ScanInv, Owned, Cursor!Next, Cursor!Fail
<1>8. CASE CloseResult
  BY <1>0, <1>8, TotalKept DEF CloseResult, history, Cursor!Next, Cursor!Close
<1>9. CASE UNCHANGED scanVars
  BY <1>0, <1>9, TotalKept DEF scanVars, history, Cursor!vars
<1> QED BY <1>1, <1>2, <1>3, <1>4, <1>5, <1>6, <1>7, <1>8, <1>9 DEF ScanNext, InNext

\* rows.go:59-86: for every result and every division of its rows into chunks the
\* reader is given row 1, row 2 and so on to the last, and the end only then.
THEOREM Implements == ScanSpec => ImplementsRowCursor
<1> QED BY ScanInitInv, ScanStepInv, ScanInitRefines, ScanStepRefines, PTL
        DEF ScanSpec, ImplementsRowCursor, Cursor!Spec
=============================================================================
