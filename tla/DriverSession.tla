---------------------------- MODULE DriverSession ----------------------------
(***************************************************************************)
(* The life of connections, prepared statements, result rows and           *)
(* transactions: src/duckdb.go, connection.go, statement.go, rows.go and   *)
(* transaction.go, with the native DuckDB handles behind them.             *)
(*                                                                         *)
(* database/sql (external) runs one driver call at a time on a connection, *)
(* and its user decides which.  A call on a connection goes through the    *)
(* steps of Conn.prepareStmts: it extracts the statements of its query,    *)
(* prepares, executes and closes each but the last, and treats the last as *)
(* the call asks.  Its context can be cancelled between any two steps, and *)
(* every step can fail.  A call the driver answers with a misuse panic     *)
(* changes nothing, so it is an action that is not enabled.  A panic while *)
(* arguments are bound does change something: it skips the Close of the    *)
(* statement in Conn.ExecContext and QueryContext.                         *)
(*                                                                         *)
(* DuckDB is external: a statement may fail, a failing statement may abort *)
(* the transaction it runs in, COMMIT and ROLLBACK end the transaction     *)
(* even when they report an error, a native prepared statement stays       *)
(* executable after its connection is disconnected.                        *)
(***************************************************************************)
EXTENDS Naturals, Sequences, FiniteSets

CONSTANTS
  Conn,   \* the connection objects
  Stmt,   \* the statement objects, one identity for each native statement
  Rows,   \* the rows objects, one identity for each native result
  Query,  \* the SQL texts users run, as sequences of statement kinds
  NoStmt  \* no statement

Kind == {"work", "begin", "commit", "rollback"}

ASSUME QueryAssumption == Query \subseteq Seq(Kind) \ {<<>>}
ASSUME NoStmtAssumption == NoStmt \notin Stmt

VARIABLES
  connector, \* whether the Connector is open
  conn,      \* Conn objects: "init" while connInitFn runs, "failed" if it failed
  tx,        \* Conn.tx
  manual,    \* connections on which SQL text has controlled a transaction
  call,      \* the driver call in flight on a connection
  stmt,      \* Stmt objects: "held" by the user, the driver's own "inner", or "lost"
  rows,      \* rows objects: "closing" in the middle of rows.Close
  native     \* DuckDB's side: the live handles, and each connection's transaction

vars == <<connector, conn, tx, manual, call, stmt, rows, native>>

Idle == [pc |-> "idle", op |-> "exec", todo |-> <<>>, cur |-> NoStmt,
         canceled |-> FALSE]
Unused == [state |-> "none", conn |-> CHOOSE k \in Conn : TRUE, kind |-> "work",
           rows |-> FALSE, closeOnRowsClose |-> FALSE]
TxOp == {"begin", "commit", "rollback"}

Init ==
  /\ connector = "open"
  /\ conn = [k \in Conn |-> "none"]
  /\ tx = [k \in Conn |-> FALSE]
  /\ manual = {}
  /\ call = [k \in Conn |-> Idle]
  /\ stmt = [s \in Stmt |-> Unused]
  /\ rows = [r \in Rows |-> [state |-> "none", stmt |-> NoStmt, closeChunk |-> FALSE]]
  /\ native = [conns |-> {}, stmts |-> {}, results |-> {}, chunks |-> {},
               tx |-> [k \in Conn |-> "none"]]

\* Rows have their statement until rows.Close lets go of it.
HasStmt(r) == rows[r].state \in {"open", "closing"}

\* database/sql's lock on the connection is free.
Free(k) ==
  /\ call[k].pc = "idle"
  /\ \A r \in Rows : rows[r].state = "closing" => stmt[rows[r].stmt].conn # k

-----------------------------------------------------------------------------
\* DuckDB's answers.

\* Executing a statement of this kind in transaction state t: may it succeed,
\* and the transaction states it may leave behind.
Succeeds(kind, t) == CASE kind = "work"     -> t # "aborted"
                       [] kind = "begin"    -> t = "none"
                       [] OTHER             -> t # "none"
AfterOk(kind, t) == CASE kind = "work"  -> t
                      [] kind = "begin" -> "active"
                      [] OTHER          -> "none"
AfterError(kind, t) == CASE t = "none"                     -> {"none"}
                         [] kind \in {"commit", "rollback"} -> {"none"}
                         [] OTHER                           -> {t, "aborted"}

\* A statement that controls transactions, in a query the user wrote.
MarkManual(k, kind, op) ==
  manual' = IF kind # "work" /\ op \notin TxOp THEN manual \cup {k} ELSE manual

-----------------------------------------------------------------------------
\* Connector.Connect and Connector.Close.

\* The native connection is made, then connInitFn runs on the new Conn.
Connect(k) ==
  /\ connector = "open" /\ conn[k] = "none"
  /\ conn' = [conn EXCEPT ![k] = "init"]
  /\ native' = [native EXCEPT !.conns = @ \cup {k}]
  /\ UNCHANGED <<connector, tx, manual, call, stmt, rows>>

\* connInitFn is over: its error makes Connect return without the Conn.
InitDone(k) ==
  /\ conn[k] = "init" /\ call[k].pc = "idle"
  /\ \E st \in {"open", "failed"} : conn' = [conn EXCEPT ![k] = st]
  /\ UNCHANGED <<connector, tx, manual, call, stmt, rows, native>>

\* A second Close of the Connector does nothing.
CloseConnector ==
  /\ connector = "open"
  /\ connector' = "closed"
  /\ UNCHANGED <<conn, tx, manual, call, stmt, rows, native>>

\* Conn.Close: it disconnects and forgets; a second one is an error.  It destroys
\* no statement: what the user holds stays alive without its connection.
CloseConn(k) ==
  /\ conn[k] = "open" /\ Free(k)
  /\ conn' = [conn EXCEPT ![k] = "closed"]
  /\ native' = [native EXCEPT !.conns = @ \ {k}]
  /\ UNCHANGED <<connector, tx, manual, call, stmt, rows>>

-----------------------------------------------------------------------------
\* Calls on a Conn: ExecContext, QueryContext, PrepareContext, BeginTx, Commit
\* and Rollback.  connInitFn only gets an ExecerContext.

\* A call that is over leaves no trace in `call`.
Finish(k) == call' = [call EXCEPT ![k] = Idle]
To(k, c) == call' = [call EXCEPT ![k] = c]

Call(k, o, q) ==
  /\ Free(k)
  /\ conn[k] \in {"open", "closed"} \/ (conn[k] = "init" /\ o = "exec")
  /\ To(k, [Idle EXCEPT !.pc = "extract", !.op = o, !.todo = q])
  /\ UNCHANGED <<connector, conn, manual, stmt, rows, native>>

UserCall(k, o, q) == Call(k, o, q) /\ UNCHANGED tx

\* Mutant: BeginTx sets Conn.tx before it knows that BEGIN worked.
BeginTxEarly(k) ==
  ~tx[k] /\ Call(k, "begin", <<"begin">>) /\ tx' = [tx EXCEPT ![k] = TRUE]

\* BeginTx refuses a second transaction before it runs anything.
BeginTx(k) == ~tx[k] /\ Call(k, "begin", <<"begin">>) /\ UNCHANGED tx

\* Commit and Rollback panic without a transaction; they clear Conn.tx first.
EndTx(k, o) ==
  /\ tx[k]
  /\ tx' = [tx EXCEPT ![k] = FALSE]
  /\ Call(k, o, <<o>>)

\* The user's context is cancelled; Commit and Rollback use Background.
Cancel(k) ==
  /\ call[k].pc # "idle" /\ call[k].op \notin {"commit", "rollback"}
  /\ ~call[k].canceled
  /\ call' = [call EXCEPT ![k].canceled = TRUE]
  /\ UNCHANGED <<connector, conn, tx, manual, stmt, rows, native>>

\* extractStmts; a closed connection and a cancelled context are refused, and
\* the user's text may not parse.
Extract(k) ==
  /\ call[k].pc = "extract"
  /\ \/ /\ conn[k] = "closed" \/ call[k].canceled \/ call[k].op \notin TxOp
        /\ Finish(k)
     \/ /\ conn[k] # "closed" /\ ~call[k].canceled
        /\ call' = [call EXCEPT ![k].pc = "prepare"]
  /\ UNCHANGED <<connector, conn, tx, manual, stmt, rows, native>>

\* prepareExtractedStmt fails: there is no Stmt, nothing stays behind.
PrepareFails(k) ==
  /\ call[k].pc = "prepare"
  /\ call[k].canceled \/ call[k].op \notin TxOp
  /\ Finish(k)
  /\ UNCHANGED <<connector, conn, tx, manual, stmt, rows, native>>

\* prepareExtractedStmt makes a Stmt; PrepareContext hands out the last one.
PrepareNext(k, s) ==
  LET c == call[k]
      handOut == Len(c.todo) = 1 /\ c.op = "prepare" IN
  /\ c.pc = "prepare" /\ ~c.canceled /\ stmt[s].state = "none"
  /\ stmt' = [stmt EXCEPT ![s] =
                [Unused EXCEPT !.state = IF handOut THEN "held" ELSE "inner",
                               !.conn = k, !.kind = Head(c.todo)]]
  /\ native' = [native EXCEPT !.stmts = @ \cup {s}]
  /\ IF handOut THEN Finish(k)
                ELSE call' = [call EXCEPT ![k].pc = "execute", ![k].cur = s]
  /\ UNCHANGED <<connector, conn, tx, manual, rows>>

\* Stmt.Close of a statement only the driver knows.
DropInner(s) == stmt' = [stmt EXCEPT ![s] = Unused]

\* Mutant: an error path forgets to close the statement.
Forgotten(k) == {}

\* The statement an error path closes.
ClosedOnError(k) == {call[k].cur}

\* The statement is cancelled or fails in DuckDB: the driver closes it and the
\* call, with the statements still to come, is over.
ExecuteFails(k) ==
  LET c == call[k] IN
  /\ c.pc = "execute"
  /\ \E t \in IF c.canceled THEN {native.tx[k]} \cup AfterError(Head(c.todo), native.tx[k])
                            ELSE AfterError(Head(c.todo), native.tx[k]) :
       native' = [native EXCEPT !.stmts = @ \ ClosedOnError(k), !.tx[k] = t]
  /\ DropInner(c.cur)
  /\ Finish(k)
  /\ MarkManual(k, Head(c.todo), c.op)
  /\ UNCHANGED <<connector, conn, tx, rows>>

\* The statement after the loop of prepareStmts.
IsLast(k) == Len(call[k].todo) = 1

\* Binding the arguments of the call panics: Close is skipped, the statement is
\* nobody's.  Only the last statement gets arguments; the loop of prepareStmts
\* passes nil, which a statement with parameters answers with an error.  The same
\* panic in a call on a Stmt the user holds changes nothing.
BindPanics(k) ==
  LET c == call[k] IN
  /\ c.pc = "execute" /\ IsLast(k) /\ c.op \in {"exec", "query"}
  /\ stmt' = [stmt EXCEPT ![c.cur].state = "lost"]
  /\ Finish(k)
  /\ UNCHANGED <<connector, conn, tx, manual, rows, native>>

\* The statement succeeds and is not the result of a query: close it, and go on
\* with the next one or finish the call.
ExecuteOk(k) ==
  LET c == call[k]
      last == IsLast(k) IN
  /\ c.pc = "execute" /\ Succeeds(Head(c.todo), native.tx[k])
  /\ ~(last /\ c.op = "query")
  /\ native' = [native EXCEPT !.stmts = @ \ {c.cur},
                              !.tx[k] = AfterOk(Head(c.todo), @)]
  /\ DropInner(c.cur)
  /\ MarkManual(k, Head(c.todo), c.op)
  /\ tx' = [tx EXCEPT ![k] = @ \/ c.op = "begin"]
  /\ IF last THEN Finish(k)
             ELSE To(k, [c EXCEPT !.pc = "prepare", !.todo = Tail(@), !.cur = NoStmt])
  /\ UNCHANGED <<connector, conn, rows>>

\* newRowsWithStmt: the result belongs to the rows, the statement is busy.
OpenRows(r, s) ==
  /\ rows[r].state = "none"
  /\ rows' = [rows EXCEPT ![r] = [state |-> "open", stmt |-> s, closeChunk |-> FALSE]]

\* The last statement of QueryContext: the rows will close it.
ExecuteQuery(k, r) ==
  LET c == call[k] IN
  /\ c.pc = "execute" /\ c.op = "query" /\ Len(c.todo) = 1
  /\ Succeeds(Head(c.todo), native.tx[k])
  /\ OpenRows(r, c.cur)
  /\ stmt' = [stmt EXCEPT ![c.cur].rows = TRUE, ![c.cur].closeOnRowsClose = TRUE]
  /\ native' = [native EXCEPT !.results = @ \cup {r}, !.tx[k] = AfterOk(Head(c.todo), @)]
  /\ MarkManual(k, Head(c.todo), c.op)
  /\ Finish(k)
  /\ UNCHANGED <<connector, conn, tx>>

-----------------------------------------------------------------------------
\* Calls on a Stmt the user holds.  They never look at Conn.closed.

\* Mutant: the checks for active rows are missing.
UsableWithRows(s) == stmt[s].state = "held" /\ Free(stmt[s].conn)

\* The calls that panic with active rows or after Close are not made.
Usable(s) == stmt[s].state = "held" /\ ~stmt[s].rows /\ Free(stmt[s].conn)

\* Stmt.ExecContext, or a QueryContext that fails: a result is destroyed before
\* the call returns.
StmtExec(s) ==
  LET k == stmt[s].conn
      t == native.tx[k]
      ok == IF Succeeds(stmt[s].kind, t) THEN {AfterOk(stmt[s].kind, t)} ELSE {} IN
  /\ Usable(s)
  /\ \E u \in ok \cup AfterError(stmt[s].kind, t) :
       native' = [native EXCEPT !.tx[k] = u]
  /\ MarkManual(k, stmt[s].kind, "exec")
  /\ UNCHANGED <<connector, conn, tx, call, stmt, rows>>

\* Stmt.QueryContext panics with active rows.
StmtQuery(s, r) ==
  LET k == stmt[s].conn IN
  /\ Usable(s) /\ Succeeds(stmt[s].kind, native.tx[k])
  /\ OpenRows(r, s)
  /\ native' = [native EXCEPT !.results = @ \cup {r},
                              !.tx[k] = AfterOk(stmt[s].kind, @)]
  /\ stmt' = [stmt EXCEPT ![s].rows = TRUE]
  /\ MarkManual(k, stmt[s].kind, "query")
  /\ UNCHANGED <<connector, conn, tx, call>>

\* Stmt.Close panics with active rows, and on a second Close.
CloseStmt(s) ==
  /\ Usable(s)
  /\ stmt' = [stmt EXCEPT ![s].state = "closed"]
  /\ native' = [native EXCEPT !.stmts = @ \ {s}]
  /\ UNCHANGED <<connector, conn, tx, manual, call, rows>>

-----------------------------------------------------------------------------
\* Calls on rows.

\* rows.Next at the end of a chunk: destroy it, and fetch the next, if any.
NextChunk(r) ==
  /\ rows[r].state = "open" /\ Free(stmt[rows[r].stmt].conn)
  /\ \E more \in BOOLEAN :
       /\ rows' = [rows EXCEPT ![r].closeChunk = more]
       /\ native' = [native EXCEPT !.chunks = IF more THEN @ \cup {r} ELSE @ \ {r}]
  /\ UNCHANGED <<connector, conn, tx, manual, call, stmt>>

\* The statement that belongs to the rows, which rows.Close closes.
OwnStmt(r) == IF stmt[rows[r].stmt].closeOnRowsClose THEN {rows[r].stmt} ELSE {}

\* Mutant: rows.Close closes its statement before it destroys the result.
StmtFirst(r) == [chunks |-> {}, results |-> {}, stmts |-> OwnStmt(r)]

\* What rows.Close destroys before it looks at the statement: its chunk, if it has
\* one, and its result.
FreedFirst(r) ==
  [chunks |-> IF rows[r].closeChunk THEN {r} ELSE {}, results |-> {r}, stmts |-> {}]

\* rows.Close begins: the chunk and the result go.
CloseRows(r) ==
  /\ rows[r].state = "open" /\ Free(stmt[rows[r].stmt].conn)
  /\ rows' = [rows EXCEPT ![r].state = "closing"]
  /\ native' = [native EXCEPT !.chunks = @ \ FreedFirst(r).chunks,
                              !.results = @ \ FreedFirst(r).results,
                              !.stmts = @ \ FreedFirst(r).stmts]
  /\ UNCHANGED <<connector, conn, tx, manual, call, stmt>>

\* rows.Close ends: it marks the statement as free, closes it if it belongs to the
\* rows, and lets go of it.
ReleaseStmt(r) ==
  LET s == rows[r].stmt IN
  /\ rows[r].state = "closing"
  /\ rows' = [rows EXCEPT ![r].state = "closed", ![r].stmt = NoStmt]
  /\ native' = [native EXCEPT !.stmts = @ \ OwnStmt(r)]
  /\ stmt' = [stmt EXCEPT ![s] = IF OwnStmt(r) = {} THEN [@ EXCEPT !.rows = FALSE]
                                                    ELSE Unused]
  /\ UNCHANGED <<connector, conn, tx, manual, call>>

-----------------------------------------------------------------------------
Next ==
  \/ CloseConnector
  \/ \E k \in Conn :
       \/ Connect(k) \/ InitDone(k) \/ CloseConn(k)
       \/ \E q \in Query, o \in {"exec", "query", "prepare"} : UserCall(k, o, q)
       \/ BeginTx(k) \/ EndTx(k, "commit") \/ EndTx(k, "rollback")
       \/ Cancel(k) \/ Extract(k) \/ PrepareFails(k) \/ BindPanics(k) \/ ExecuteFails(k) \/ ExecuteOk(k)
       \/ \E s \in Stmt : PrepareNext(k, s)
       \/ \E r \in Rows : ExecuteQuery(k, r)
  \/ \E s \in Stmt : StmtExec(s) \/ CloseStmt(s) \/ \E r \in Rows : StmtQuery(s, r)
  \/ \E r \in Rows : NextChunk(r) \/ CloseRows(r) \/ ReleaseStmt(r)

Spec == Init /\ [][Next]_vars

-----------------------------------------------------------------------------
OpenRowsOf(s) == {r \in Rows : HasStmt(r) /\ rows[r].stmt = s}

\* Who will destroy a native statement: the user who holds it, the call that works
\* on it, or the rows that close it.
Owned(s) ==
  \/ stmt[s].state = "held"
  \/ \E k \in Conn : call[k].cur = s
  \/ stmt[s].closeOnRowsClose /\ OpenRowsOf(s) # {}

\* No error path of prepareStmts, ExecContext or QueryContext loses a native
\* prepared statement, and none is destroyed under its user: one lives exactly
\* while somebody will destroy it.  Only a panic of Bind (connection.go:64 and 92)
\* leaves one behind: it lives on, and nobody, Conn.Close included, destroys it.
StatementsOwned ==
  \A s \in Stmt :
    /\ s \in native.stmts <=> Owned(s) \/ stmt[s].state = "lost"
    /\ ~(Owned(s) /\ stmt[s].state = "lost")

\* Stmt.rows (statement.go:54): a statement has at most one open rows object,
\* is marked busy exactly while it has it, and outlives it (rows.go:165-172).
BusyWhileRowsOpen ==
  \A s \in Stmt :
    /\ Cardinality(OpenRowsOf(s)) <= 1
    /\ stmt[s].rows <=> OpenRowsOf(s) # {}
    /\ stmt[s].rows => s \in native.stmts

\* Native results and data chunks live exactly while open rows own them, and at no
\* moment of rows.Close does a result outlive the statement it comes from
\* (rows.go:61-64 and 159-176).
ResultsOwned ==
  /\ \A r \in Rows : rows[r].state = "open" => r \in native.results
  /\ \A r \in native.results : HasStmt(r) /\ rows[r].stmt \in native.stmts
  /\ native.chunks = {r \in native.results : rows[r].closeChunk}

\* Conn.tx says whether DuckDB has a transaction open, whatever fails or is
\* cancelled in BEGIN, COMMIT or ROLLBACK (connection.go:160-163,
\* transaction.go:14-16), as long as no SQL text controls transactions.
TxMatchesDuckDB ==
  \A k \in Conn :
    conn[k] = "open" /\ Free(k) /\ k \notin manual =>
      (tx[k] <=> native.tx[k] # "none")
=============================================================================
