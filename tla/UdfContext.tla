------------------------------ MODULE UdfContext ------------------------------
(***************************************************************************)
(* The context a user-defined function gets: contextStore (src/context.go),*)
(* Conn.setContext (src/connection.go), and the bind data and RowExecutor  *)
(* of scalar functions (src/scalar_udf.go).                                *)
(*                                                                         *)
(* A driver call stores its context under its connection's id and deletes  *)
(* it when it returns; a call made inside it finds the entry and leaves it *)
(* alone.  DuckDB binds a function while it prepares a statement, and the  *)
(* bind data it gets then lives as long as the plan.  A custom binder      *)
(* derives a context from the stored one and keeps it in the bind data;    *)
(* without one the first execution loads the stored context and keeps that.*)
(* DuckDB runs the row function on several threads, which share the plan's *)
(* bind data.                                                              *)
(*                                                                         *)
(* A Go interface is two words, and info.ctx is written without a lock: a  *)
(* thread that reads it meanwhile may get one word of each value (Torn).   *)
(* DuckDB and database/sql are external: DuckDB keeps a plan for as many   *)
(* executions as its statement sees and may copy it, and one driver call   *)
(* runs on a connection at a time.                                         *)
(***************************************************************************)
EXTENDS Naturals, Sequences

CONSTANTS
  Conn,       \* the connections
  Ctx,        \* the contexts of the users' calls
  Background, \* context.Background()
  Nil,        \* no context
  Torn,       \* half of a context
  Plan,       \* the bound functions
  Thread,     \* DuckDB's threads
  MaxCalls    \* bound: how many driver calls are made

ASSUME ContextAssumption ==
  /\ {Background, Nil, Torn} \cap Ctx = {}
  /\ Background # Nil /\ Nil # Torn /\ Torn # Background
  /\ Nil \notin Conn \cup Plan /\ MaxCalls \in Nat

VARIABLES
  cancelled, \* the contexts that are done
  m,         \* contextStore.m
  frames,    \* the setContext frames open on a connection, outermost first
  plan,      \* the plans: their connection (Nil: not bound), whether their function has a
             \* custom binder, and bindData.ctx
  running,   \* the plan that a connection executes, if any
  pc,        \* a thread's place in scalar_udf_callback
  loaded,    \* what a thread has loaded and not yet written
  seen,      \* the context the row function was last called with
  calls,     \* history: the contexts of the calls that bound or executed a plan
  made       \* how many driver calls were made

vars == <<cancelled, m, frames, plan, running, pc, loaded, seen, calls, made>>
threads == <<pc, loaded, seen>>

AnyCtx == Ctx \cup {Background}

Init ==
  /\ cancelled = {}
  /\ m = [k \in Conn |-> Nil]
  /\ frames = [k \in Conn |-> <<>>]
  /\ plan = [p \in Plan |-> [conn |-> Nil, binder |-> FALSE, ctx |-> Nil]]
  /\ running = [k \in Conn |-> Nil]
  /\ pc = [t \in Conn \X Thread |-> "idle"]
  /\ loaded = [t \in Conn \X Thread |-> Nil]
  /\ seen = [t \in Conn \X Thread |-> Nil]
  /\ calls = [p \in Plan |-> {}]
  /\ made = 0

-----------------------------------------------------------------------------
\* The context store.

\* Mutant: the entry of any connection.
LoadAny(k) == IF \E j \in Conn : m[j] # Nil THEN m[CHOOSE j \in Conn : m[j] # Nil]
                                            ELSE Background

\* load(connId): Background when there is no entry.
Load(k) == IF m[k] = Nil THEN Background ELSE m[k]

\* Mutant: the entry is replaced, and deleted, by every frame.
AlwaysStored(k) == TRUE

\* store(connId, ctx, false) stores only where there is no entry, and only then
\* returns a cleanup that deletes it.
Stores(k) == m[k] = Nil

\* A driver call, or a call it makes itself, sets its context.
SetContext(k, x) ==
  /\ m' = [m EXCEPT ![k] = IF Stores(k) THEN x ELSE @]
  /\ frames' = [frames EXCEPT ![k] = Append(@, [ctx |-> x, stored |-> Stores(k)])]

\* The context of the user's call on k: Conn.Prepare runs without one.
CallCtx(k) == IF frames[k] = <<>> THEN Background ELSE Head(frames[k]).ctx

Begin(k, x) ==
  /\ frames[k] = <<>> /\ made < MaxCalls /\ x \notin cancelled
  /\ made' = made + 1
  /\ SetContext(k, x)
  /\ UNCHANGED <<cancelled, plan, running, threads, calls>>

\* Conn.ExecContext and Conn.QueryContext call Stmt's methods with their context.
Nest(k) ==
  /\ Len(frames[k]) = 1 /\ running[k] = Nil
  /\ SetContext(k, CallCtx(k))
  /\ UNCHANGED <<cancelled, plan, running, threads, calls, made>>

\* The deferred cleanupCtx of the innermost frame.
Leave(k) ==
  /\ frames[k] # <<>> /\ running[k] = Nil
  /\ LET n == Len(frames[k]) IN
       /\ m' = [m EXCEPT ![k] = IF frames[k][n].stored THEN Nil ELSE @]
       /\ frames' = [frames EXCEPT ![k] = SubSeq(@, 1, n - 1)]
  /\ UNCHANGED <<cancelled, plan, running, threads, calls, made>>

Cancel(x) ==
  /\ x \in Ctx \ cancelled
  /\ cancelled' = cancelled \cup {x}
  /\ UNCHANGED <<m, frames, plan, running, threads, calls, made>>

-----------------------------------------------------------------------------
\* DuckDB binds, copies and executes plans in the middle of a driver call.

\* scalar_udf_bind_callback: only a function with a custom binder keeps a context.
Bind(k, p) ==
  /\ plan[p].conn = Nil /\ running[k] = Nil
  /\ \E b \in BOOLEAN :
       plan' = [plan EXCEPT ![p] =
                  [conn |-> k, binder |-> b, ctx |-> IF b THEN Load(k) ELSE Nil]]
  /\ calls' = [calls EXCEPT ![p] = {CallCtx(k)}]
  /\ UNCHANGED <<cancelled, m, frames, running, threads, made>>

\* scalar_udf_bind_copy_callback, while a statement is prepared.
Copy(p, q) ==
  /\ plan[p].conn # Nil /\ plan[q].conn = Nil
  /\ running[plan[p].conn] = Nil /\ frames[plan[p].conn] # <<>>
  /\ plan' = [plan EXCEPT ![q] = plan[p]]
  /\ calls' = [calls EXCEPT ![q] = calls[p] \cup {CallCtx(plan[p].conn)}]
  /\ UNCHANGED <<cancelled, m, frames, running, threads, made>>

Execute(k, p) ==
  /\ frames[k] # <<>> /\ running[k] = Nil /\ plan[p].conn = k
  /\ running' = [running EXCEPT ![k] = p]
  /\ pc' = [t \in Conn \X Thread |-> IF t[1] = k THEN "check" ELSE pc[t]]
  /\ calls' = [calls EXCEPT ![p] = @ \cup {CallCtx(k)}]
  /\ UNCHANGED <<cancelled, m, frames, plan, loaded, seen, made>>

\* The execution is over when every thread is.
ExecuteDone(k) ==
  /\ running[k] # Nil
  /\ \A t \in Conn \X Thread : t[1] = k => pc[t] = "over"
  /\ running' = [running EXCEPT ![k] = Nil]
  /\ pc' = [t \in Conn \X Thread |-> IF t[1] = k THEN "idle" ELSE pc[t]]
  /\ seen' = [t \in Conn \X Thread |-> IF t[1] = k THEN Nil ELSE seen[t]]
  /\ UNCHANGED <<cancelled, m, frames, plan, loaded, calls, made>>

-----------------------------------------------------------------------------
\* One thread in scalar_udf_callback; info is the running plan's bind data.

Info(t) == plan[running[t[1]]]
Goto(t, l) == pc' = [pc EXCEPT ![t] = l]

\* info.ctx != nil, and then its Err().
CheckCtx(t) ==
  /\ pc[t] = "check"
  /\ Goto(t, IF Info(t).ctx = Nil THEN "load"
             ELSE IF Info(t).ctx \in cancelled THEN "over" ELSE "rows")
  /\ UNCHANGED <<cancelled, m, frames, plan, running, loaded, seen, calls, made>>

\* s.ctxStore.load(info.connId), and the first word of info.ctx.
LoadCtx(t) ==
  /\ pc[t] = "load" /\ Goto(t, "write")
  /\ loaded' = [loaded EXCEPT ![t] = Load(Info(t).conn)]
  /\ plan' = [plan EXCEPT ![running[t[1]]].ctx = IF @ = Nil THEN Torn ELSE @]
  /\ UNCHANGED <<cancelled, m, frames, running, seen, calls, made>>

\* The second word of info.ctx.
WriteCtx(t) ==
  /\ pc[t] = "write" /\ Goto(t, "rows")
  /\ plan' = [plan EXCEPT ![running[t[1]]].ctx = loaded[t]]
  /\ loaded' = [loaded EXCEPT ![t] = Nil]
  /\ UNCHANGED <<cancelled, m, frames, running, seen, calls, made>>

\* The row function is called with info.ctx; it may fail, or be the last row.
CallRow(t) ==
  /\ pc[t] = "rows"
  /\ seen' = [seen EXCEPT ![t] = Info(t).ctx]
  /\ \E l \in {"rows", "over"} : Goto(t, l)
  /\ UNCHANGED <<cancelled, m, frames, plan, running, loaded, calls, made>>

-----------------------------------------------------------------------------
Next ==
  \/ \E x \in Ctx : Cancel(x)
  \/ \E k \in Conn :
       \/ \E x \in AnyCtx : Begin(k, x)
       \/ Nest(k) \/ Leave(k) \/ ExecuteDone(k)
       \/ \E p \in Plan : Bind(k, p) \/ Execute(k, p)
  \/ \E p, q \in Plan : Copy(p, q)
  \/ \E t \in Conn \X Thread : CheckCtx(t) \/ LoadCtx(t) \/ WriteCtx(t) \/ CallRow(t)

Spec == Init /\ [][Next]_vars

-----------------------------------------------------------------------------
\* context.go:36-49 and connection.go:321-324: between the frames of one call the
\* store holds the context of the user's call and of no other, and an entry
\* does not outlive its call.
StoreFollowsCalls ==
  \A k \in Conn : m[k] = IF frames[k] = <<>> THEN Nil ELSE CallCtx(k)

\* scalar_udf.go:114-135 and 368-392: a row function gets the context of a call
\* that bound or executed its own plan, never that of another plan's call or,
\* in a call with a context, Background.
ContextOfAPlansCall ==
  \A k \in Conn, t \in Thread :
    running[k] # Nil /\ seen[<<k, t>>] \notin {Nil, Torn} =>
      seen[<<k, t>>] \in calls[running[k]]

\* scalar_udf.go:127-128: without a custom bind function the row function gets
\* "the parent context from the connection context store", the context of the
\* call that executes it.
ContextOfThisCall ==
  \A k \in Conn, t \in Thread :
    running[k] # Nil /\ ~plan[running[k]].binder /\ seen[<<k, t>>] \notin {Nil, Torn} =>
      seen[<<k, t>>] = CallCtx(k)
=============================================================================
