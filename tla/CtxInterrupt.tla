---------------------------- MODULE CtxInterrupt ----------------------------
(***************************************************************************)
(* runWithCtxInterrupt and interrupterRoutine (src/context.go).            *)
(*                                                                         *)
(* A driver call that runs DuckDB code wraps it in runWithCtxInterrupt:    *)
(* a goroutine waits for the call's context to be cancelled and then keeps *)
(* calling duckdb_interrupt on the connection until the call closes `done`;*)
(* the call waits for `bgDoneCh` before it returns.  Calls nest (a         *)
(* Conn.QueryContext runs Stmt.ExecContext and Stmt.QueryContext inside    *)
(* its own wrapper), and a marker in the context keeps the inner ones from *)
(* starting a second goroutine.                                            *)
(*                                                                         *)
(* A frame is one activation of runWithCtxInterrupt: a pair <<call, level>>*)
(* with its own two channels and at most one goroutine.  DuckDB is         *)
(* external: an execution clears the connection's interrupt flag when it   *)
(* begins, and aborts once it sees the flag set.  A query may run forever. *)
(* database/sql is external: it runs one driver call at a time on a        *)
(* connection, and puts the connection back in its pool when a driver call *)
(* panics.                                                                 *)
(***************************************************************************)
EXTENDS Naturals

CONSTANTS
  Call,       \* the driver calls
  Conn,       \* the connections
  Ctx,        \* the contexts
  On,         \* the connection of a call
  CtxOf,      \* the context of a call; calls may share one
  Cancelable, \* the contexts that can be cancelled (Background cannot)
  Panicking,  \* the calls whose fn may panic (Stmt.execute on misuse)
  MaxDepth,   \* bound: how deep wrapped calls nest
  MaxWork     \* bound: nested calls and executions in one driver call

ASSUME CallAssumption == /\ On \in [Call -> Conn]
                         /\ CtxOf \in [Call -> Ctx]
                         /\ Cancelable \subseteq Ctx
                         /\ Panicking \subseteq Call
ASSUME BoundAssumption == MaxDepth \in Nat \ {0} /\ MaxWork \in Nat

VARIABLES
  cancelled, \* the contexts whose Done channel is closed
  phase,     \* what the call's innermost frame is doing
  depth,     \* how many frames the call has open
  err,       \* whether fn has an error to return
  left,      \* how much work the call may still start
  done,      \* the frame's `done` channel
  bgDone,    \* the frame's `bgDoneCh` channel
  gpc,       \* where the frame's goroutine is
  interrupted \* DuckDB's flag on the connection

vars == <<cancelled, phase, depth, err, left, done, bgDone, gpc, interrupted>>
caller == <<phase, depth, err, left>>

Level == 1..MaxDepth
Frame == Call \X Level
Chan == {"nil", "open", "closed"}
InCall == {"fn", "armed", "native", "wait"}
Looping == {"loop", "interrupt", "sleep"}

Active(c) == phase[c] \in InCall
Canceled(c) == CtxOf[c] \in cancelled
Top(c) == <<c, depth[c]>>

TypeOK ==
  /\ cancelled \subseteq Cancelable
  /\ phase \in [Call -> InCall \cup {"ready", "returned", "refused", "panicked"}]
  /\ depth \in [Call -> 0..MaxDepth]
  /\ err \in [Call -> BOOLEAN]
  /\ left \in [Call -> 0..MaxWork]
  /\ done \in [Frame -> Chan]
  /\ bgDone \in [Frame -> Chan]
  /\ gpc \in [Frame -> Looping \cup {"none", "select"}]
  /\ interrupted \in [Conn -> BOOLEAN]

Init ==
  /\ cancelled = {}
  /\ phase = [c \in Call |-> "ready"]
  /\ depth = [c \in Call |-> 0]
  /\ err = [c \in Call |-> FALSE]
  /\ left = [c \in Call |-> MaxWork]
  /\ done = [f \in Frame |-> "nil"]
  /\ bgDone = [f \in Frame |-> "nil"]
  /\ gpc = [f \in Frame |-> "none"]
  /\ interrupted = [k \in Conn |-> FALSE]

\* The user cancels a context, or its deadline passes.
Cancel(x) ==
  /\ x \in Cancelable \ cancelled
  /\ cancelled' = cancelled \cup {x}
  /\ UNCHANGED <<caller, done, bgDone, gpc, interrupted>>

-----------------------------------------------------------------------------
\* The caller's side: runWithCtxInterrupt, and the DuckDB calls inside fn.

\* Mutant: nested calls do not see the marker.
MarkerLost(c) == FALSE

\* ctx.Value(interruptActiveKey{}) != nil: the context comes from a frame
\* that has already started an interrupter.
Marked(c) == depth[c] > 0

\* Open the next frame of c; an unmarked context gets channels and a goroutine.
OpenFrame(c) ==
  LET f == <<c, depth[c] + 1>> IN
  /\ depth' = [depth EXCEPT ![c] = @ + 1]
  /\ IF Marked(c)
       THEN UNCHANGED <<done, bgDone, gpc>>
       ELSE /\ done' = [done EXCEPT ![f] = "open"]
            /\ bgDone' = [bgDone EXCEPT ![f] = "open"]
            /\ gpc' = [gpc EXCEPT ![f] = "select"]

\* database/sql grants c its connection; a cancelled context is refused.
Start(c) ==
  /\ phase[c] = "ready"
  /\ \A o \in Call : On[o] = On[c] => ~Active(o)
  /\ \/ /\ Canceled(c)
        /\ phase' = [phase EXCEPT ![c] = "refused"]
        /\ UNCHANGED <<depth, done, bgDone, gpc>>
     \/ /\ ~Canceled(c)
        /\ phase' = [phase EXCEPT ![c] = "fn"]
        /\ OpenFrame(c)
  /\ UNCHANGED <<cancelled, err, left, interrupted>>

\* fn makes a nested wrapped call; a refused one makes fn fail.
Enter(c) ==
  /\ phase[c] = "fn" /\ ~err[c] /\ left[c] > 0 /\ depth[c] < MaxDepth
  /\ left' = [left EXCEPT ![c] = @ - 1]
  /\ \/ /\ Canceled(c)
        /\ err' = [err EXCEPT ![c] = TRUE]
        /\ UNCHANGED <<depth, done, bgDone, gpc>>
     \/ /\ ~Canceled(c)
        /\ OpenFrame(c)
        /\ UNCHANGED err
  /\ UNCHANGED <<cancelled, phase, interrupted>>

\* fn passes its last ctx.Err() check before an execution, or fails it.
Arm(c) ==
  /\ phase[c] = "fn" /\ ~err[c] /\ left[c] > 0
  /\ left' = [left EXCEPT ![c] = @ - 1]
  /\ phase' = [phase EXCEPT ![c] = IF Canceled(c) THEN "fn" ELSE "armed"]
  /\ err' = [err EXCEPT ![c] = Canceled(c)]
  /\ UNCHANGED <<cancelled, depth, done, bgDone, gpc, interrupted>>

\* DuckDB begins to execute: it clears an interrupt that came too early.
BeginNative(c) ==
  /\ phase[c] = "armed"
  /\ phase' = [phase EXCEPT ![c] = "native"]
  /\ interrupted' = [interrupted EXCEPT ![On[c]] = FALSE]
  /\ UNCHANGED <<cancelled, depth, err, left, done, bgDone, gpc>>

\* The execution ends by itself, well or with an error.
EndNative(c) ==
  /\ phase[c] = "native"
  /\ phase' = [phase EXCEPT ![c] = "fn"]
  /\ \E e \in BOOLEAN : err' = [err EXCEPT ![c] = e]
  /\ UNCHANGED <<cancelled, depth, left, done, bgDone, gpc, interrupted>>

\* The execution sees the interrupt flag and fails.
AbortNative(c) ==
  /\ phase[c] = "native" /\ interrupted[On[c]]
  /\ phase' = [phase EXCEPT ![c] = "fn"]
  /\ err' = [err EXCEPT ![c] = TRUE]
  /\ UNCHANGED <<cancelled, depth, left, done, bgDone, gpc, interrupted>>

\* Mutant: a frame is left twice.
CloseFrameTwice(c) ==
  /\ depth' = [depth EXCEPT ![c] = @ - 2]
  /\ phase' = [phase EXCEPT ![c] = "returned"]

\* Leave the innermost frame: the outermost one is the end of the call.
CloseFrame(c) ==
  /\ depth' = [depth EXCEPT ![c] = @ - 1]
  /\ phase' = [phase EXCEPT ![c] = IF depth[c] = 1 THEN "returned" ELSE "fn"]

\* fn returns: a frame that started a goroutine closes `done` and waits.
Return(c) ==
  /\ phase[c] = "fn"
  /\ IF done[Top(c)] = "nil"
       THEN CloseFrame(c) /\ UNCHANGED done
       ELSE /\ done' = [done EXCEPT ![Top(c)] = "closed"]
            /\ phase' = [phase EXCEPT ![c] = "wait"]
            /\ UNCHANGED depth
  /\ UNCHANGED <<cancelled, err, left, bgDone, gpc, interrupted>>

\* Mutant: return without the wait.
NotAwaited(c) == TRUE

\* The receive from bgDoneCh goes through.
Awaited(c) == bgDone[Top(c)] = "closed"

\* <-bgDoneCh
Join(c) ==
  /\ phase[c] = "wait" /\ Awaited(c)
  /\ CloseFrame(c)
  /\ done' = [done EXCEPT ![Top(c)] = "nil"]
  /\ bgDone' = [bgDone EXCEPT ![Top(c)] = "nil"]
  /\ UNCHANGED <<cancelled, err, left, gpc, interrupted>>

\* fn panics: the frames unwind without close(done) and without the wait.
Panic(c) ==
  /\ c \in Panicking /\ phase[c] = "fn"
  /\ phase' = [phase EXCEPT ![c] = "panicked"]
  /\ depth' = [depth EXCEPT ![c] = 0]
  /\ UNCHANGED <<cancelled, err, left, done, bgDone, gpc, interrupted>>

CallerStep(c) == \/ Start(c) \/ Enter(c) \/ Arm(c) \/ BeginNative(c)
                 \/ AbortNative(c) \/ Return(c) \/ Join(c)

-----------------------------------------------------------------------------
\* The goroutine of frame f: interrupterRoutine.

\* close(bgDoneCh); return
Exit(f) ==
  /\ bgDone' = [bgDone EXCEPT ![f] = "closed"]
  /\ gpc' = [gpc EXCEPT ![f] = "none"]
  /\ UNCHANGED <<cancelled, caller, done, interrupted>>

Goto(f, l) ==
  /\ gpc' = [gpc EXCEPT ![f] = l]
  /\ UNCHANGED <<cancelled, caller, done, bgDone>>

\* Mutant: interrupt whether or not the context is cancelled.
CtxIgnored(f) == TRUE

\* The receive from ctx.Done() goes through.
CtxDone(f) == Canceled(f[1])

\* The blocking select; when both channels are ready either case is taken.
SelectCanceled(f) ==
  /\ gpc[f] = "select" /\ CtxDone(f)
  /\ Goto(f, "loop") /\ UNCHANGED interrupted
SelectDone(f) == gpc[f] = "select" /\ done[f] = "closed" /\ Exit(f)

\* The loop's select: `default` is taken only while `done` is open.
LoopDone(f) == gpc[f] = "loop" /\ done[f] = "closed" /\ Exit(f)
LoopDefault(f) ==
  /\ gpc[f] = "loop" /\ done[f] # "closed"
  /\ Goto(f, "interrupt") /\ UNCHANGED interrupted

Interrupt(f) ==
  /\ gpc[f] = "interrupt"
  /\ interrupted' = [interrupted EXCEPT ![On[f[1]]] = TRUE]
  /\ Goto(f, "sleep")

\* Mutant: interrupt once, then wait for `done`.
WakeWhenDone(f) ==
  gpc[f] = "sleep" /\ done[f] = "closed" /\ Goto(f, "loop") /\ UNCHANGED interrupted

\* time.Sleep(interruptInterval) is over.
Wake(f) == gpc[f] = "sleep" /\ Goto(f, "loop") /\ UNCHANGED interrupted

Routine(f) == \/ SelectCanceled(f) \/ SelectDone(f) \/ LoopDone(f)
              \/ LoopDefault(f) \/ Interrupt(f) \/ Wake(f)

-----------------------------------------------------------------------------
\* Every call is over and no goroutine is left: nothing more has to happen.
Quiescent ==
  /\ \A c \in Call : phase[c] \in {"returned", "refused", "panicked"}
  /\ \A f \in Frame : gpc[f] = "none"
  /\ UNCHANGED vars

Next ==
  \/ \E x \in Ctx : Cancel(x)
  \/ \E c \in Call : CallerStep(c) \/ EndNative(c) \/ Panic(c)
  \/ \E f \in Frame : Routine(f)
  \/ Quiescent

\* The Go scheduler runs every runnable goroutine; an interrupted DuckDB
\* execution stops.  Nothing makes a query end by itself, or a user cancel.
Fairness == /\ \A c \in Call : WF_vars(CallerStep(c))
            /\ \A f \in Frame : WF_vars(Routine(f))

Spec == Init /\ [][Next]_vars
FairSpec == Spec /\ Fairness

-----------------------------------------------------------------------------
\* context.go:69: "The interrupt loop is strictly scoped to the lifetime of
\* this call": a goroutine exists only while its own call is in flight.
LoopScopedToCall == \A f \in Frame : gpc[f] # "none" => Active(f[1])

\* context.go:72 and 101-104: an interrupt that a running execution can see
\* was asked for by that execution's own cancelled context: no late goroutine
\* cancels another call's query.
NoStrayInterrupt ==
  \A c \in Call : phase[c] = "native" /\ interrupted[On[c]] => Canceled(c)

\* context.go:74-76: however calls nest, one goroutine serves a driver call,
\* so a connection in use never has two (but for those that panics left).
OneInterrupterPerConn ==
  \A f, g \in Frame :
    /\ gpc[f] # "none" /\ gpc[g] # "none" /\ On[f[1]] = On[g[1]]
    /\ Active(f[1]) /\ Active(g[1])
    => f = g

\* When fn may panic (Stmt.execute does, on misuse), the two scoping promises
\* weaken: only the goroutine of a panicked call outlives its call ...
OnlyPanicLeaks ==
  \A f \in Frame :
    gpc[f] # "none" => Active(f[1]) \/ phase[f[1]] = "panicked"

\* ... and an execution is interrupted either for its own context or for that
\* of a call that panicked on the same connection.
StrayOnlyAfterPanic ==
  \A c \in Call :
    phase[c] = "native" /\ interrupted[On[c]] =>
      \E o \in Call :
        /\ On[o] = On[c] /\ Canceled(o)
        /\ (o = c \/ phase[o] = "panicked")

\* context.go:66-67: a call whose context is cancelled returns, even when its
\* query would run forever and when an interrupt came before DuckDB began.
CanceledCallReturns ==
  \A c \in Call : (Active(c) /\ Canceled(c)) ~> ~Active(c)
=============================================================================
