------------------------------ MODULE StmtBind ------------------------------
(***************************************************************************)
(* The parameters of a prepared statement: Stmt.Bind and the calls that    *)
(* execute with arguments or with what was bound before                    *)
(* (src/statement.go).  A statement is used by one goroutine, so a call is *)
(* one step.                                                               *)
(*                                                                         *)
(* The slots belong to DuckDB: a value stays in its slot until another     *)
(* takes its place, and a parameter whose type DuckDB could not resolve    *)
(* may get that of the value it was first executed with.                   *)
(*                                                                         *)
(* How a value is made of a Go value is a parameter of this module, which  *)
(* StmtValues fills in.                                                    *)
(***************************************************************************)
EXTENDS Sequences, FiniteSetsExt

CONSTANTS
  Stmts,            \* statements: parameters, columns, the argument lists they are given, and
                    \* how many calls bind or execute them (a bound)
  MakeValue(_, _, _),  \* bindValue: what making a value of a type comes to, for a parameter
                    \* that is JSON or is not, of a Go value
  Meaning(_, _)     \* what a Go value says, read as a type

Arg(name, ordinal, value) == [name |-> name, ordinal |-> ordinal, value |-> value]
Param(name, type) == [name |-> name, type |-> type, json |-> FALSE]

\* A slot that nothing was bound to.
Unbound == [bound |-> FALSE]

-----------------------------------------------------------------------------
\* What is assumed of a statement: a list of arguments has no name and no number
\* of a parameter twice (of two, bind takes the last, whichever is meant).
NamedOnce(args, param) ==
  \A j, k \in DOMAIN args : args[j].name = param.name /\ args[k].name = param.name => j = k
NumberedOnce(args, i) ==
  \A j, k \in DOMAIN args : args[j].ordinal = i /\ args[k].ordinal = i => j = k

ASSUME ListsAssumption ==
  \A s \in Stmts :
    /\ s.params \in Seq(Range(s.params))
    /\ \A args \in s.lists :
         /\ args \in Seq(Range(args))
         /\ \A i \in DOMAIN s.params : NamedOnce(args, s.params[i]) /\ NumberedOnce(args, i)

\* What is relied on of the values made for it.  A parameter has the type DuckDB resolved, or else
\* that of a value it was given; a value reads as what the Go value says, and has
\* the type of the parameter when both are nested (a Valuer's is always inferred).
Nested == {"list", "array", "struct"}
Values(s) == UNION {{args[k].value : k \in DOMAIN args} : args \in s.lists}
Inferred(s, i) ==
  {MakeValue(s.params[i].type, s.params[i].json, v).value.type : v \in
     {w \in Values(s) : MakeValue(s.params[i].type, s.params[i].json, w).out = "ok"}}
TypesOf(s, i) ==
  {s.params[i].type} \cup IF s.params[i].type.kind = "invalid" THEN Inferred(s, i) ELSE {}

AsMeant(type, v, value) ==
  /\ value # Unbound /\ value.type.kind # "invalid"
  /\ value.reads = Meaning(value.type, v)
  /\ type.kind \in Nested /\ value.type.kind \in Nested => value.type = type \/ v.go = "Valuer"

ValuesAreAsMeant ==
  \A s \in Stmts : \A i \in DOMAIN s.params : \A type \in TypesOf(s, i), v \in Values(s) :
    LET made == MakeValue(type, s.params[i].json, v)
    IN made.out = "ok" => AsMeant(type, v, made.value)

-----------------------------------------------------------------------------
VARIABLES
  setup,                 \* the statement's text, and what DuckDB made of it
  closed, rows, bound,   \* Stmt.closed, Stmt.rows, Stmt.bound
  types,                 \* ParamLogicalType of every parameter
  slots,                 \* the value bound to every parameter
  leaked,                \* handles that nobody destroys any more
  told,                  \* history: the last list bound, and whether a later one failed
  ran,                   \* history: what the last call ran, if it did
  last,                  \* history: how the last call ended
  calls                  \* how many calls there were

vars == <<setup, closed, rows, bound, types, slots, leaked, told, ran, last, calls>>

Params == DOMAIN setup.params   \* NumInput
NoCall == [call |-> "none", args |-> <<>>, out |-> "ok"]
NoRun == [args |-> <<>>, whole |-> FALSE, types |-> <<>>, slots |-> <<>>]

Init ==
  /\ setup \in Stmts
  /\ closed = FALSE /\ rows = FALSE /\ bound = FALSE
  /\ types = [i \in Params |-> setup.params[i].type]
  /\ slots = [i \in Params |-> Unbound]
  /\ leaked = {}
  /\ told = [args |-> <<>>, whole |-> FALSE]
  /\ ran = NoRun /\ last = NoCall /\ calls = 0

Call(call, args, out) ==
  /\ calls < setup.calls /\ calls' = calls + 1
  /\ last' = [call |-> call, args |-> args, out |-> out]
  /\ UNCHANGED setup

-----------------------------------------------------------------------------
\* The argument of parameter i: by position, unless an ordinal is i, unless a name
\* is the parameter's; the last of them wins.
Overridden(arg, args, ks) == IF ks = {} THEN arg ELSE args[Max(ks)]
Numbered(args, i) == {k \in DOMAIN args : args[k].ordinal = i}
Named(args, i) == {k \in DOMAIN args : args[k].name = setup.params[i].name}

\* Mutant: a number wins over a name.
NumberWins(args, i) ==
  Overridden(Overridden(args[i], args, Named(args, i)), args, Numbered(args, i))

Chosen(args, i) ==
  Overridden(Overridden(args[i], args, Numbered(args, i)), args, Named(args, i))

\* Stmt.bind up to the first parameter that fails, whose slot stays as it was.
\* More arguments than parameters are allowed.
Enough(args) == Len(args) >= Len(setup.params)
MadeOf(args) == [i \in Params |-> MakeValue(types[i], setup.params[i].json, Chosen(args, i).value)]
Stopped(made) == {i \in Params : made[i].out # "ok"}
Upto(made) == IF Stopped(made) = {} THEN Len(setup.params) ELSE Min(Stopped(made))
BindOut(args) ==
  LET made == MadeOf(args)
  IN IF ~Enough(args) THEN "error"
     ELSE IF Stopped(made) = {} THEN "ok" ELSE made[Upto(made)].out

\* Mutant: Stmt.bound is set as soon as a parameter is bound.
BoundByOne(made) == \E i \in Params : i < Upto(made) \/ made[i].out = "ok"

BoundBy(made) == Stopped(made) = {}

BindSlots(args) ==
  LET made == MadeOf(args)
  IN IF ~Enough(args) THEN UNCHANGED <<slots, bound, leaked, told>>
     ELSE /\ slots' = [i \in Params |-> IF i <= Upto(made) /\ made[i].out = "ok"
                                          THEN made[i].value ELSE slots[i]]
          /\ bound' = (bound \/ BoundBy(made))
          /\ leaked' = leaked \cup UNION {made[i].live : i \in 1..Upto(made)}
          /\ told' = IF BoundBy(made) THEN [args |-> args, whole |-> TRUE]
                     ELSE [told EXCEPT !.whole = FALSE]

\* Stmt.BindWithCtx; done is ctx.Err().
Bind(args, done) ==
  /\ ran' = NoRun /\ UNCHANGED <<closed, rows, types>>
  /\ IF done \/ closed
       THEN Call("bind", args, "error") /\ UNCHANGED <<bound, slots, leaked, told>>
       ELSE Call("bind", args, BindOut(args)) /\ BindSlots(args)

\* Stmt.executeBound on the slots as they will be.  DuckDB may refuse the pending
\* result or the execution, and the context may end between them.
Runs(call, args, query) ==
  /\ Call(call, args, "ok")
  /\ rows' = query
  /\ \A i \in Params : slots'[i] # Unbound
  /\ ran' = [args |-> told'.args, whole |-> told'.whole, types |-> types, slots |-> slots']
  /\ \/ UNCHANGED types
     \/ types' = [i \in Params |-> IF types[i].kind = "invalid" THEN slots'[i].type ELSE types[i]]
DoesNotRun(call, args, out) == Call(call, args, out) /\ ran' = NoRun /\ UNCHANGED <<rows, types>>

\* Stmt.ExecContext and Stmt.QueryContext: execute panics on misuse, binds, and runs.
Execute(call, args) ==
  /\ UNCHANGED closed
  /\ IF closed \/ rows
       THEN DoesNotRun(call, args, "misuse") /\ UNCHANGED <<bound, slots, leaked, told>>
       ELSE \/ BindSlots(args) /\ BindOut(args) = "ok" /\ Runs(call, args, call = "query")
            \/ /\ BindSlots(args)
               /\ DoesNotRun(call, args, IF BindOut(args) = "panic" THEN "panic" ELSE "error")
            \/ DoesNotRun(call, args, "error") /\ UNCHANGED <<bound, slots, leaked, told>>

\* Stmt.ExecBound and Stmt.QueryBound return an error where execute panics.
ExecuteBound(call) ==
  /\ UNCHANGED <<closed, bound, slots, leaked, told>>
  /\ \/ DoesNotRun(call, <<>>, "error")
     \/ ~closed /\ ~rows /\ bound /\ Runs(call, <<>>, call = "query bound")

\* Rows.Close and Stmt.Close.
CloseRows == rows /\ rows' = FALSE
             /\ UNCHANGED <<setup, closed, bound, types, slots, leaked, told, ran, last, calls>>
Close == ~rows /\ ~closed /\ closed' = TRUE
         /\ UNCHANGED <<setup, rows, bound, types, slots, leaked, told, ran, last, calls>>

Next ==
  \/ \E args \in setup.lists :
       \/ \E done \in BOOLEAN : Bind(args, done)
       \/ \E call \in {"exec", "query"} : Execute(call, args)
  \/ \E call \in {"exec bound", "query bound"} : ExecuteBound(call)
  \/ CloseRows \/ Close

Spec == Init /\ [][Next]_vars

-----------------------------------------------------------------------------
\* The argument a caller means for parameter i: the one with its name, or else
\* with its number, or else in its place.  Lists have no name and no number twice.
Meant(s, args, i) ==
  LET named == {a \in Range(args) : a.name = s.params[i].name}
      numbered == {a \in Range(args) : a.ordinal = i}
  IN IF named # {} THEN CHOOSE a \in named : TRUE
     ELSE IF numbered # {} THEN CHOOSE a \in numbered : TRUE ELSE args[i]

\* Stmt.bind and bindValue: what an execution reads in every parameter is what the
\* Go value meant for it says, in the parameter's type when it is a nested one (a
\* Valuer's value is always inferred); unless a Bind failed halfway after the last
\* that succeeded.
RunsItsArguments ==
  ran.whole => \A i \in Params : LET slot == ran.slots[i] IN
    /\ slot.reads = Meaning(slot.type, Meant(setup, ran.args, i).value)
    /\ ran.types[i].kind \in Nested /\ slot.type.kind \in Nested =>
         slot.type = ran.types[i] \/ Meant(setup, ran.args, i).value.go = "Valuer"

\* Stmt.bound, which is never cleared: ExecBound and QueryBound find a value in
\* every slot, whatever failed after the Bind that set it; and the arguments of
\* an execution that got to run were all bound by it.
BoundMeansComplete ==
  /\ bound => \A i \in Params : slots[i] # Unbound
  /\ last.out = "ok" /\ last.call \in {"exec", "query"} => told.whole /\ ran.args = last.args
=============================================================================
