----------------------------- MODULE UdfRegistry -----------------------------
(***************************************************************************)
(* Registering functions written in Go: src/table_udf.go,                  *)
(* src/scalar_udf.go, src/replacement_scan.go and src/udf_utils.go.        *)
(*                                                                         *)
(* A registration makes a native function object and a cgo handle that     *)
(* keeps the Go function alive.  The handle is attached to the object; when*)
(* the last reference to it is gone, the delete callback of the function   *)
(* deletes the handle.  A database that accepted a function refers to it,  *)
(* until it is closed.                                                     *)
(***************************************************************************)
EXTENDS Naturals, FiniteSets

CONSTANTS
  Fn,      \* the functions that are registered
  KindOf,  \* each one's kind
  Nobody   \* in place of the thread that owns a handle

VARIABLES
  problem,  \* of the functions to be registered: what is wrong with each, or happens meanwhile
  called,   \* the functions whose registration was called
  catalog,  \* the functions the database knows
  native,   \* the native objects that nobody destroyed
  handles   \* the live cgo handles: what each one keeps, of which thread

registry == <<problem, called, catalog, native, handles>>

Kinds == {"table", "scalar", "scalar set", "replacement scan"}
Problems == {"none", "no name", "no function", "nil type", "no context store", "connection closed", "refused"}

ASSUME RegistryAssumption == KindOf \in [Fn -> Kinds]

FunctionHandle(f) == <<"function", f, Nobody>>

\* p is a function from some of Fn to Problems; nothing goes wrong with a
\* replacement scan, which returns no error.
RegistryInit(p) ==
  /\ problem = p
  /\ called = {} /\ catalog = {} /\ native = {} /\ handles = {}

-----------------------------------------------------------------------------
\* How far a registration gets before its problem, in the order of the code, and
\* whether it destroys its native object on the way out.
Outcome(made, pinned, destroyed) == [made |-> made, pinned |-> pinned, destroyed |-> destroyed]

\* registerParallelTableUDF checks the function and its types after it has pinned
\* the function, and returns; it destroys the object inside of Raw's callback.
TableOutcome(p) ==
  Outcome(p # "no name", p \notin {"no name", "no context store"},
          p \in {"no context store", "refused", "none"})

\* createScalarFunc destroys the object on every error and pins the function last.
ScalarMade(p) == p \notin {"no name", "no function"}
ScalarPinned(p) == p \notin {"no name", "no function", "nil type", "no context store"}

\* RegisterScalarUDF defers the destroy.
ScalarOutcome(p) == Outcome(ScalarMade(p), ScalarPinned(p), TRUE)

\* RegisterScalarUDFSet destroys each function once the set holds it, and the set
\* when a function fails or inside of Raw's callback.
SetOutcome(p) == Outcome(TRUE, ScalarPinned(p), p # "connection closed")

\* RegisterReplacementScan hands the handle to the database at once.
ReplacementOutcome(p) == Outcome(FALSE, TRUE, TRUE)

OutcomeOf(f) ==
  CASE KindOf[f] = "table" -> TableOutcome(problem[f])
    [] KindOf[f] = "scalar" -> ScalarOutcome(problem[f])
    [] KindOf[f] = "scalar set" -> SetOutcome(problem[f])
    [] KindOf[f] = "replacement scan" -> ReplacementOutcome(problem[f])

\* The object is gone when it was destroyed and no database knows the function.
Register(f) ==
  LET o == OutcomeOf(f)
      known == problem[f] = "none"
  IN /\ f \in DOMAIN problem \ called /\ called' = called \cup {f}
     /\ catalog' = IF known THEN catalog \cup {f} ELSE catalog
     /\ native' = IF o.made /\ ~o.destroyed THEN native \cup {f} ELSE native
     /\ handles' = IF o.pinned /\ (known \/ ~o.destroyed) THEN handles \cup {FunctionHandle(f)} ELSE handles
     /\ UNCHANGED problem

\* Mutant: the value is unpinned and its handle kept.
UnpinOnly(hs) == handles' = handles

\* table_udf_delete_callback and its kin: unpin the value, delete the handle.
DeleteCallback(hs) == handles' = handles \ hs

\* The database drops its functions.
CloseDatabase ==
  /\ catalog # {} /\ catalog' = {}
  /\ DeleteCallback({FunctionHandle(f) : f \in catalog})
  /\ UNCHANGED <<problem, called, native>>
=============================================================================
