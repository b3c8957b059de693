------------------------- MODULE DriverSessionProofs -------------------------
(***************************************************************************)
(* The driver owns what it makes of DuckDB, for any number of connections, *)
(* statements, rows objects and SQL texts: every native statement, result  *)
(* and chunk belongs to somebody on every path, and Conn.tx follows        *)
(* DuckDB's transaction.                                                   *)
(***************************************************************************)
EXTENDS DriverSession, FiniteSetTheorems, SequenceTheorems, TLAPS

StmtState == {"none", "inner", "held", "closed", "lost"}
TxState == {"none", "active", "aborted"}
Op == {"exec", "query", "prepare"} \cup TxOp

ConnOK ==
  /\ connector \in {"open", "closed"}
  /\ conn \in [Conn -> {"none", "init", "open", "failed", "closed"}]
  /\ tx \in [Conn -> BOOLEAN]
  /\ manual \in SUBSET Conn
CallOK ==
  call \in [Conn -> [pc : {"idle", "extract", "prepare", "execute"}, op : Op,
                     todo : Seq(Kind), cur : Stmt \cup {NoStmt}, canceled : BOOLEAN]]
StmtOK ==
  stmt \in [Stmt -> [state : StmtState, conn : Conn \cup {Unused.conn}, kind : Kind,
                     rows : BOOLEAN, closeOnRowsClose : BOOLEAN]]
RowsOK ==
  rows \in [Rows -> [state : {"none", "open", "closing", "closed"}, stmt : Stmt \cup {NoStmt},
                     closeChunk : BOOLEAN]]
NativeOK ==
  native \in [conns : SUBSET Conn, stmts : SUBSET Stmt, results : SUBSET Rows,
              chunks : SUBSET Rows, tx : [Conn -> TxState]]
TypeOK == ConnOK /\ CallOK /\ StmtOK /\ RowsOK /\ NativeOK

\* A call works on a statement while it executes one, and has one more to go; the
\* transaction's own calls run one statement each.
CallsInOrder ==
  \A k \in Conn :
    /\ call[k].pc = "execute" <=> call[k].cur # NoStmt
    /\ call[k].pc # "idle" => call[k].todo # <<>>
    /\ call[k].op \in {"commit", "rollback"} => ~call[k].canceled
    /\ call[k].pc # "idle" /\ call[k].op \in TxOp => call[k].todo = <<call[k].op>>

\* The statement a call works on is the driver's own, and of its connection.
CallsOwn ==
  \A k \in Conn : call[k].cur # NoStmt =>
    LET s == call[k].cur
    IN stmt[s].state = "inner" /\ stmt[s].conn = k /\ ~stmt[s].rows

\* Rows have a statement to themselves, which is marked.
RowsOwn ==
  /\ \A r \in Rows : HasStmt(r) => rows[r].stmt \in Stmt /\ stmt[rows[r].stmt].rows
  /\ \A q, r \in Rows : HasStmt(q) /\ HasStmt(r) /\ rows[q].stmt = rows[r].stmt => q = r
  /\ \A s \in Stmt : stmt[s].rows => \E r \in Rows : HasStmt(r) /\ rows[r].stmt = s

\* Only open rows have a result, and only those with a chunk have one.
ResultsOfOpen ==
  /\ native.results = {r \in Rows : rows[r].state = "open"}
  /\ native.chunks = {r \in native.results : rows[r].closeChunk}

\* A marked statement is held, or it is the driver's own and will be closed with
\* the rows; the driver's own that is not marked is what a call works on.
StatesAgree ==
  \A s \in Stmt :
    /\ stmt[s].rows => stmt[s].state \in {"inner", "held"}
    /\ stmt[s].closeOnRowsClose <=> stmt[s].rows /\ stmt[s].state = "inner"
    /\ stmt[s].state = "inner" /\ ~stmt[s].rows => \E k \in Conn : call[k].cur = s
    /\ stmt[s].state # "none" => stmt[s].conn \in Conn
    /\ s \in native.stmts <=> stmt[s].state \in {"inner", "held", "lost"}

OwnInv == TypeOK /\ CallsInOrder /\ CallsOwn /\ RowsOwn /\ StatesAgree /\ ResultsOfOpen

\* What Conn.tx and DuckDB say in the middle of a call: BEGIN has no transaction
\* yet, COMMIT and ROLLBACK still have one.  A closed Conn forgets.
TxFollows ==
  \A k \in Conn : conn[k] # "closed" /\ k \notin manual =>
    IF call[k].pc # "idle" /\ call[k].op \in TxOp
      THEN /\ ~tx[k]
           /\ native.tx[k] = "none" <=> call[k].op = "begin"
      ELSE tx[k] <=> native.tx[k] # "none"

-----------------------------------------------------------------------------
\* Nothing is open or owned when the Connector is made.
LEMMA InitOwn == Init => OwnInv /\ TxFollows
<1> SUFFICES ASSUME Init PROVE OwnInv /\ TxFollows OBVIOUS
<1>1. TypeOK
  BY DEF Init, TypeOK, ConnOK, CallOK, StmtOK, RowsOK, NativeOK, Idle, Unused, Op, Kind,
         StmtState, TxState
<1>2. CallsInOrder /\ CallsOwn
  BY DEF Init, CallsInOrder, CallsOwn, Idle
<1>3. RowsOwn /\ StatesAgree /\ ResultsOfOpen
  BY DEF Init, RowsOwn, StatesAgree, ResultsOfOpen, Unused, HasStmt
<1>4. TxFollows
  BY DEF Init, TxFollows, Idle
<1> QED BY <1>1, <1>2, <1>3, <1>4 DEF OwnInv

-----------------------------------------------------------------------------
\* Every step is well typed.  First what the steps share: a call that is over,
LEMMA IdleTyped ==
  ASSUME CallOK, NEW k \in Conn, Finish(k)
  PROVE  CallOK'
BY DEF CallOK, Finish, Idle, Op, Kind

\* a call that begins, which touches nothing else,
LEMMA CallTyped ==
  ASSUME CallOK, NEW k \in Conn, NEW o \in Op, NEW q \in Seq(Kind), Call(k, o, q)
  PROVE  CallOK' /\ UNCHANGED <<connector, conn, manual, stmt, rows, native>>
BY DEF CallOK, Call, Free, To, Idle

\* a statement only the driver knew, closed,
LEMMA UnusedTyped ==
  ASSUME StmtOK, NEW s \in Stmt, DropInner(s)
  PROVE  StmtOK'
BY DEF StmtOK, DropInner, Unused, Kind, StmtState

\* DuckDB's answers,
LEMMA TxTyped ==
  ASSUME NEW kind \in Kind, NEW t \in TxState
  PROVE  AfterOk(kind, t) \in TxState /\ AfterError(kind, t) \subseteq TxState
BY DEF AfterOk, AfterError, TxState, Kind

\* the connections on which user text controls transactions,
LEMMA ManualTyped ==
  ASSUME ConnOK, NEW k \in Conn, NEW kind, NEW o, MarkManual(k, kind, o)
  PROVE  manual' \in SUBSET Conn
BY DEF ConnOK, MarkManual

\* and rows that open.
LEMMA OpenRowsTyped ==
  ASSUME RowsOK, NEW r \in Rows, NEW s \in Stmt, OpenRows(r, s)
  PROVE  RowsOK'
BY DEF RowsOK, OpenRows

\* The statement in execution and the kind of it.
LEMMA Executing ==
  ASSUME TypeOK, CallsInOrder, NEW k \in Conn, call[k].pc = "execute"
  PROVE  /\ call[k].cur \in Stmt /\ Head(call[k].todo) \in Kind
         /\ native.tx[k] \in TxState
BY DEF TypeOK, CallOK, NativeOK, CallsInOrder

\* One action at a time.
LEMMA StepTyped ==
  ASSUME TypeOK, CallsInOrder, StatesAgree, [Next]_vars
  PROVE  TypeOK'
<1> USE DEF TypeOK
<1>1. CASE CloseConnector
  BY <1>1 DEF CloseConnector, ConnOK, CallOK, StmtOK, RowsOK, NativeOK
<1>2. ASSUME NEW k \in Conn, Connect(k) PROVE TypeOK'
  BY <1>2 DEF Connect, ConnOK, CallOK, StmtOK, RowsOK, NativeOK
<1>3. ASSUME NEW k \in Conn, InitDone(k) PROVE TypeOK'
  BY <1>3 DEF InitDone, ConnOK, CallOK, StmtOK, RowsOK, NativeOK
<1>4. ASSUME NEW k \in Conn, CloseConn(k) PROVE TypeOK'
  BY <1>4 DEF CloseConn, ConnOK, CallOK, StmtOK, RowsOK, NativeOK
<1>5. ASSUME NEW k \in Conn, NEW q \in Query, NEW o \in {"exec", "query", "prepare"}, UserCall(k, o, q)
      PROVE TypeOK'
  <2>1. q \in Seq(Kind) /\ o \in Op
    BY QueryAssumption DEF Op
  <2> QED BY <1>5, <2>1, CallTyped DEF UserCall, ConnOK, StmtOK, RowsOK, NativeOK
<1>6. ASSUME NEW k \in Conn, BeginTx(k) PROVE TypeOK'
  <2>1. <<"begin">> \in Seq(Kind) /\ "begin" \in Op
    BY DEF Op, TxOp, Kind
  <2> QED BY <1>6, <2>1, CallTyped DEF BeginTx, ConnOK, StmtOK, RowsOK, NativeOK
<1>7. ASSUME NEW k \in Conn, NEW o \in {"commit", "rollback"}, EndTx(k, o) PROVE TypeOK'
  <2>1. <<o>> \in Seq(Kind) /\ o \in Op
    BY DEF Op, TxOp, Kind
  <2> QED BY <1>7, <2>1, CallTyped DEF EndTx, ConnOK, StmtOK, RowsOK, NativeOK
<1>8. ASSUME NEW k \in Conn, Cancel(k) PROVE TypeOK'
  <2>1. CallOK'
    BY <1>8 DEF Cancel, CallOK
  <2> QED BY <1>8, <2>1 DEF Cancel, ConnOK, StmtOK, RowsOK, NativeOK
<1>9. ASSUME NEW k \in Conn, Extract(k) PROVE TypeOK'
  <2>1. CallOK'
    <3>1. CASE Finish(k)
      BY <3>1, IdleTyped
    <3>2. CASE call' = [call EXCEPT ![k].pc = "prepare"]
      BY <3>2 DEF CallOK
    <3> QED BY <1>9, <3>1, <3>2 DEF Extract
  <2> QED BY <1>9, <2>1 DEF Extract, ConnOK, StmtOK, RowsOK, NativeOK
<1>10. ASSUME NEW k \in Conn, PrepareFails(k) PROVE TypeOK'
  BY <1>10, IdleTyped DEF PrepareFails, ConnOK, StmtOK, RowsOK, NativeOK
<1>11. ASSUME NEW k \in Conn, ExecuteFails(k) PROVE TypeOK'
  <2>1. call[k].cur \in Stmt /\ Head(call[k].todo) \in Kind /\ native.tx[k] \in TxState
    BY <1>11, Executing DEF ExecuteFails
  <2>2. PICK t \in TxState : native' = [native EXCEPT !.stmts = @ \ ClosedOnError(k), !.tx[k] = t]
    BY <1>11, <2>1, TxTyped DEF ExecuteFails
  <2>3. NativeOK'
    BY <2>2 DEF NativeOK
  <2> QED BY <1>11, <2>1, <2>3, IdleTyped, UnusedTyped, ManualTyped DEF ExecuteFails, ConnOK, RowsOK
<1>12. ASSUME NEW k \in Conn, ExecuteOk(k) PROVE TypeOK'
  <2>1. call[k].cur \in Stmt /\ Head(call[k].todo) \in Kind /\ native.tx[k] \in TxState
    BY <1>12, Executing DEF ExecuteOk
  <2>2. NativeOK'
    BY <1>12, <2>1, TxTyped DEF ExecuteOk, NativeOK
  <2>3. CallOK'
    <3>1. CASE Finish(k)
      BY <3>1, IdleTyped
    <3>2. CASE To(k, [call[k] EXCEPT !.pc = "prepare", !.todo = Tail(@), !.cur = NoStmt])
      <4>1. Tail(call[k].todo) \in Seq(Kind)
        BY <1>12 DEF ExecuteOk, CallsInOrder, CallOK
      <4> QED BY <3>2, <4>1 DEF To, CallOK
    <3> QED BY <1>12, <3>1, <3>2 DEF ExecuteOk
  <2>4. ConnOK'
    BY <1>12, ManualTyped DEF ExecuteOk, ConnOK
  <2> QED BY <1>12, <2>1, <2>2, <2>3, <2>4, UnusedTyped DEF ExecuteOk, RowsOK
<1>13. ASSUME NEW k \in Conn, NEW s \in Stmt, PrepareNext(k, s) PROVE TypeOK'
  <2>1. Head(call[k].todo) \in Kind
    BY <1>13 DEF PrepareNext, CallsInOrder, CallOK
  <2>2. StmtOK'
    BY <1>13, <2>1 DEF PrepareNext, StmtOK, StmtState, Unused
  <2>3. NativeOK'
    BY <1>13 DEF PrepareNext, NativeOK
  <2>4. CallOK'
    BY <1>13, IdleTyped DEF PrepareNext, CallOK
  <2> QED BY <1>13, <2>2, <2>3, <2>4 DEF PrepareNext, ConnOK, RowsOK
<1>14. ASSUME NEW k \in Conn, NEW r \in Rows, ExecuteQuery(k, r) PROVE TypeOK'
  <2>1. call[k].cur \in Stmt /\ Head(call[k].todo) \in Kind /\ native.tx[k] \in TxState
    BY <1>14, Executing DEF ExecuteQuery
  <2>2. NativeOK'
    BY <1>14, <2>1, TxTyped DEF ExecuteQuery, NativeOK
  <2>3. StmtOK'
    BY <1>14, <2>1 DEF ExecuteQuery, StmtOK
  <2> QED BY <1>14, <2>1, <2>2, <2>3, IdleTyped, OpenRowsTyped, ManualTyped DEF ExecuteQuery, ConnOK
<1>15. ASSUME NEW s \in Stmt, StmtExec(s) PROVE TypeOK'
  <2>1. stmt[s].conn \in Conn /\ stmt[s].kind \in Kind /\ native.tx[stmt[s].conn] \in TxState
    BY <1>15 DEF StmtExec, Usable, StatesAgree, StmtOK, NativeOK
  <2>2. PICK t \in TxState : native' = [native EXCEPT !.tx[stmt[s].conn] = t]
    BY <1>15, <2>1, TxTyped DEF StmtExec
  <2>3. NativeOK'
    BY <2>1, <2>2 DEF NativeOK
  <2> QED BY <1>15, <2>1, <2>3, ManualTyped DEF StmtExec, ConnOK, CallOK, StmtOK, RowsOK
<1>16. ASSUME NEW s \in Stmt, NEW r \in Rows, StmtQuery(s, r) PROVE TypeOK'
  <2>1. stmt[s].conn \in Conn /\ stmt[s].kind \in Kind /\ native.tx[stmt[s].conn] \in TxState
    BY <1>16 DEF StmtQuery, Usable, StatesAgree, StmtOK, NativeOK
  <2>2. NativeOK'
    BY <1>16, <2>1, TxTyped DEF StmtQuery, NativeOK
  <2>3. StmtOK'
    BY <1>16 DEF StmtQuery, StmtOK
  <2> QED BY <1>16, <2>1, <2>2, <2>3, OpenRowsTyped, ManualTyped DEF StmtQuery, ConnOK, CallOK
<1>17. ASSUME NEW s \in Stmt, CloseStmt(s) PROVE TypeOK'
  <2>1. StmtOK'
    BY <1>17 DEF CloseStmt, StmtOK, StmtState
  <2>2. NativeOK'
    BY <1>17 DEF CloseStmt, NativeOK
  <2> QED BY <1>17, <2>1, <2>2 DEF CloseStmt, ConnOK, CallOK, RowsOK
<1>18. ASSUME NEW r \in Rows, NextChunk(r) PROVE TypeOK'
  <2>1. RowsOK'
    BY <1>18 DEF NextChunk, RowsOK
  <2>2. NativeOK'
    BY <1>18 DEF NextChunk, NativeOK
  <2> QED BY <1>18, <2>1, <2>2 DEF NextChunk, ConnOK, CallOK, StmtOK
<1>19. ASSUME NEW r \in Rows, CloseRows(r) PROVE TypeOK'
  <2>1. RowsOK'
    BY <1>19 DEF CloseRows, RowsOK
  <2>2. NativeOK'
    BY <1>19 DEF CloseRows, NativeOK
  <2> QED BY <1>19, <2>1, <2>2 DEF CloseRows, ConnOK, CallOK, StmtOK
<1>20. ASSUME NEW r \in Rows, ReleaseStmt(r) PROVE TypeOK'
  <2>1. RowsOK' /\ NativeOK'
    BY <1>20 DEF ReleaseStmt, RowsOK, NativeOK
  <2>2. StmtOK'
    <3> DEFINE s == rows[r].stmt
    <3>1. CASE OwnStmt(r) # {}
      BY <1>20, <3>1 DEF ReleaseStmt, StmtOK, Unused, Kind, StmtState
    <3>2. CASE OwnStmt(r) = {}
      <4>1. stmt' = [stmt EXCEPT ![s].rows = FALSE]
        BY <1>20, <3>2 DEF ReleaseStmt
      <4> QED BY <4>1 DEF StmtOK
    <3> QED BY <3>1, <3>2
  <2> QED BY <1>20, <2>1, <2>2 DEF ReleaseStmt, ConnOK, CallOK
<1>21. ASSUME NEW k \in Conn, BindPanics(k) PROVE TypeOK'
  <2>1. StmtOK'
    BY <1>21 DEF BindPanics, StmtOK, StmtState
  <2> QED BY <1>21, <2>1, IdleTyped DEF BindPanics, ConnOK, RowsOK, NativeOK
<1>22. CASE UNCHANGED vars
  BY <1>22 DEF vars, ConnOK, CallOK, StmtOK, RowsOK, NativeOK
<1> QED
  BY <1>1, <1>2, <1>3, <1>4, <1>5, <1>6, <1>7, <1>8, <1>9, <1>10, <1>11, <1>12, <1>13, <1>14,
     <1>15, <1>16, <1>17, <1>18, <1>19, <1>20, <1>21, <1>22 DEF Next

-----------------------------------------------------------------------------
\* The statements still to be run.
LEMMA StepInOrder ==
  ASSUME TypeOK, CallsInOrder, [Next]_vars
  PROVE  CallsInOrder'
<1> USE DEF TypeOK, CallOK, CallsInOrder
<1>1. ASSUME NEW k \in Conn, Finish(k) PROVE CallsInOrder'
  BY <1>1 DEF Finish, Idle
<1>2. ASSUME NEW k \in Conn, NEW q \in Seq(Kind), q # <<>>, NEW o \in Op,
             o \in TxOp => q = <<o>>, Call(k, o, q)
      PROVE CallsInOrder'
  BY <1>2 DEF Call, Free, To, Idle
<1>3. ASSUME UNCHANGED call PROVE CallsInOrder'
  BY <1>3
<1>4. ASSUME NEW k \in Conn, NEW q \in Query, NEW o \in {"exec", "query", "prepare"}, UserCall(k, o, q)
      PROVE CallsInOrder'
  <2>1. q \in Seq(Kind) /\ q # <<>> /\ o \in Op /\ o \notin TxOp
    BY QueryAssumption DEF Op, TxOp
  <2> QED BY <1>4, <1>2, <2>1 DEF UserCall
<1>5. ASSUME NEW k \in Conn, NEW o \in TxOp, Call(k, o, <<o>>) PROVE CallsInOrder'
  <2>1. <<o>> \in Seq(Kind) /\ <<o>> # <<>> /\ o \in Op
    BY DEF TxOp, Op, Kind
  <2> QED BY <1>5, <1>2, <2>1
<1>6. ASSUME NEW k \in Conn, Cancel(k) PROVE CallsInOrder'
  BY <1>6 DEF Cancel
<1>7. ASSUME NEW k \in Conn, Extract(k) PROVE CallsInOrder'
  <2>1. CASE call[k].pc = "extract" /\ call' = [call EXCEPT ![k].pc = "prepare"]
    BY <2>1
  <2> QED BY <1>7, <1>1, <2>1 DEF Extract
<1>8. ASSUME NEW k \in Conn, NEW s \in Stmt, PrepareNext(k, s) PROVE CallsInOrder'
  <2>1. CASE call' = [call EXCEPT ![k].pc = "execute", ![k].cur = s]
    BY <1>8, <2>1, NoStmtAssumption DEF PrepareNext
  <2> QED BY <1>8, <1>1, <2>1 DEF PrepareNext
<1>9. ASSUME NEW k \in Conn, ExecuteOk(k) PROVE CallsInOrder'
  <2> DEFINE c == call[k]
  <2>1. CASE Len(c.todo) # 1 /\ To(k, [c EXCEPT !.pc = "prepare", !.todo = Tail(@), !.cur = NoStmt])
    <3>1. c.todo \in Seq(Kind) /\ c.todo # <<>>
      BY <1>9 DEF ExecuteOk
    <3>2. Tail(c.todo) # <<>>
      <4>1. Len(c.todo) \in Nat \ {0} /\ Len(Tail(c.todo)) = Len(c.todo) - 1
        BY <3>1, HeadTailProperties, EmptySeq
      <4>2. Len(<<>>) = 0
        OBVIOUS
      <4>3. Len(Tail(c.todo)) # 0
        BY <2>1, <4>1
      <4> QED BY <4>2, <4>3
    <3>3. c.op \notin TxOp
      <4>1. Len(<<c.op>>) = 1
        OBVIOUS
      <4> QED BY <1>9, <2>1, <4>1 DEF ExecuteOk
    <3> QED BY <1>9, <2>1, <3>2, <3>3 DEF To, ExecuteOk
  <2> QED BY <1>9, <1>1, <2>1 DEF ExecuteOk, IsLast
<1> QED
  BY <1>1, <1>3, <1>4, <1>5, <1>6, <1>7, <1>8, <1>9
  DEF Next, vars, CloseConnector, Connect, InitDone, CloseConn, BeginTx, EndTx, TxOp, PrepareFails,
      BindPanics, ExecuteFails, ExecuteQuery, StmtExec, StmtQuery, CloseStmt, NextChunk, CloseRows,
      ReleaseStmt

-----------------------------------------------------------------------------
\* The statements and the rows: what an action does not touch stays in order.
Ownership == CallsOwn /\ RowsOwn /\ StatesAgree /\ ResultsOfOpen

\* A step that touches none of these objects keeps what is known of them.
LEMMA Untouched ==
  ASSUME Ownership, UNCHANGED <<stmt, rows>>,
         UNCHANGED <<native.stmts, native.results, native.chunks>>,
         \A k \in Conn : call'[k].cur = call[k].cur
  PROVE  Ownership'
BY DEF Ownership, CallsOwn, RowsOwn, StatesAgree, ResultsOfOpen, HasStmt

\* A statement that only the driver knows is closed, and its call goes on without it.
LEMMA Dropped ==
  ASSUME TypeOK, Ownership, NEW k \in Conn, NEW s \in Stmt, call[k].cur = s,
         NEW c, c.cur = NoStmt,
         stmt' = [stmt EXCEPT ![s] = Unused], call' = [call EXCEPT ![k] = c], UNCHANGED rows,
         native'.stmts = native.stmts \ {s}, UNCHANGED <<native.results, native.chunks>>
  PROVE  Ownership'
<1> USE DEF TypeOK, CallOK, StmtOK, Ownership
<1>1. /\ stmt[s].state = "inner" /\ ~stmt[s].rows /\ stmt[s].conn = k
      /\ stmt'[s].state = "none" /\ ~stmt'[s].rows /\ ~stmt'[s].closeOnRowsClose
      /\ \A t \in Stmt : t # s => stmt'[t] = stmt[t]
  BY NoStmtAssumption DEF CallsOwn, Unused
<1>2. /\ call'[k].cur = NoStmt
      /\ \A j \in Conn : j # k => call'[j] = call[j] /\ call[j].cur # s
  BY <1>1, NoStmtAssumption DEF CallsOwn
<1>3. CallsOwn'
  BY <1>1, <1>2 DEF CallsOwn
<1>4. RowsOwn'
  BY <1>1 DEF RowsOwn, RowsOK, HasStmt
<1>5. StatesAgree'
  BY <1>1, <1>2 DEF StatesAgree
<1>6. ResultsOfOpen'
  BY DEF ResultsOfOpen
<1> QED BY <1>3, <1>4, <1>5, <1>6

\* New rows take a statement that has none.
LEMMA Opened ==
  ASSUME TypeOK, Ownership, NEW r \in Rows, NEW s \in Stmt, OpenRows(r, s),
         ~stmt[s].rows, stmt'[s].rows, \A t \in Stmt : t # s => stmt'[t] = stmt[t],
         native'.results = native.results \cup {r}, native'.chunks = native.chunks
  PROVE  RowsOwn' /\ ResultsOfOpen'
<1> USE DEF TypeOK, RowsOK, Ownership
<1>1. /\ rows[r].state = "none" /\ rows'[r].state = "open" /\ rows'[r].stmt = s
      /\ ~rows'[r].closeChunk
      /\ \A q \in Rows : q # r => rows'[q] = rows[q]
  BY DEF OpenRows
<1>2. RowsOwn'
  BY <1>1 DEF RowsOwn, HasStmt
<1>3. ResultsOfOpen'
  BY <1>1 DEF ResultsOfOpen
<1> QED BY <1>2, <1>3

\* Every step hands each statement, result and chunk on to exactly one owner.
LEMMA StepOwned ==
  ASSUME TypeOK, CallsInOrder, Ownership, [Next]_vars
  PROVE  Ownership'
<1> USE DEF TypeOK, CallsInOrder
<1>0. ASSUME UNCHANGED <<call, stmt, rows>>, UNCHANGED <<native.stmts, native.results, native.chunks>>
      PROVE Ownership'
  BY <1>0, Untouched
<1>1. CASE CloseConnector
  BY <1>1, <1>0 DEF CloseConnector
<1>2. ASSUME NEW k \in Conn, Connect(k) \/ InitDone(k) \/ CloseConn(k) PROVE Ownership'
  BY <1>2, <1>0 DEF Connect, InitDone, CloseConn, NativeOK
<1>3. ASSUME NEW k \in Conn, NEW o, NEW q, Call(k, o, q) PROVE Ownership'
  BY <1>3, Untouched DEF Call, Free, To, Idle, CallOK
<1>4. ASSUME NEW k \in Conn, Cancel(k) \/ Extract(k) \/ PrepareFails(k) PROVE Ownership'
  <2>1. \A j \in Conn : call'[j].cur = call[j].cur
    <3>1. CASE Finish(k) /\ call[k].pc # "execute"
      BY <3>1 DEF Finish, Idle, CallOK
    <3>2. CASE Cancel(k)
      BY <3>2 DEF Cancel, CallOK
    <3>3. CASE call' = [call EXCEPT ![k].pc = "prepare"]
      BY <3>3 DEF CallOK
    <3> QED BY <1>4, <3>1, <3>2, <3>3 DEF Extract, PrepareFails
  <2> QED BY <1>4, <2>1, Untouched DEF Cancel, Extract, PrepareFails
<1>5. ASSUME NEW s \in Stmt, StmtExec(s) PROVE Ownership'
  BY <1>5, <1>0 DEF StmtExec, NativeOK
<1>6. ASSUME NEW k \in Conn, ExecuteFails(k) PROVE Ownership'
  <2> DEFINE s == call[k].cur
  <2>1. s \in Stmt /\ stmt[s].state = "inner" /\ ~stmt[s].rows /\ stmt[s].conn = k
    BY <1>6, Executing DEF ExecuteFails, Ownership, CallsOwn
  <2>2. /\ native'.stmts = native.stmts \ {s}
        /\ native'.results = native.results /\ native'.chunks = native.chunks
    BY <1>6 DEF ExecuteFails, ClosedOnError, NativeOK
  <2>3. /\ stmt' = [stmt EXCEPT ![s] = Unused] /\ call' = [call EXCEPT ![k] = Idle]
        /\ UNCHANGED rows
    BY <1>6 DEF ExecuteFails, DropInner, Finish
  <2>4. Idle.cur = NoStmt
    BY DEF Idle
  <2> QED BY <2>1, <2>2, <2>3, <2>4, Dropped
<1>7. ASSUME NEW k \in Conn, ExecuteOk(k) PROVE Ownership'
  <2> DEFINE c == call[k]
             on == [c EXCEPT !.pc = "prepare", !.todo = Tail(@), !.cur = NoStmt]
  <2>1. c.cur \in Stmt
    BY <1>7, Executing DEF ExecuteOk
  <2>2. /\ native'.stmts = native.stmts \ {c.cur}
        /\ native'.results = native.results /\ native'.chunks = native.chunks
    BY <1>7 DEF ExecuteOk, NativeOK
  <2>3. PICK d \in {Idle, on} : call' = [call EXCEPT ![k] = d]
    BY <1>7 DEF ExecuteOk, Finish, To
  <2>4. d.cur = NoStmt
    <3>1. Idle.cur = NoStmt
      BY DEF Idle
    <3>2. on.cur = NoStmt
      BY DEF CallOK
    <3> QED BY <3>1, <3>2
  <2>5. stmt' = [stmt EXCEPT ![c.cur] = Unused] /\ UNCHANGED rows
    BY <1>7 DEF ExecuteOk, DropInner
  <2> QED BY <2>1, <2>2, <2>3, <2>4, <2>5, Dropped
<1>8. ASSUME NEW k \in Conn, NEW s \in Stmt, PrepareNext(k, s) PROVE Ownership'
  <2> DEFINE held == Len(call[k].todo) = 1 /\ call[k].op = "prepare"
  <2>1. /\ call[k].cur = NoStmt /\ stmt[s].state = "none" /\ UNCHANGED rows
        /\ \A t \in Stmt : t # s => stmt'[t] = stmt[t]
        /\ stmt'[s].state = IF held THEN "held" ELSE "inner"
        /\ stmt'[s].conn = k /\ ~stmt'[s].rows /\ ~stmt'[s].closeOnRowsClose
    BY <1>8 DEF PrepareNext, Unused, StmtOK
  <2>2. /\ native'.stmts = native.stmts \cup {s}
        /\ native'.results = native.results /\ native'.chunks = native.chunks
    BY <1>8 DEF PrepareNext, NativeOK
  <2>3. /\ call'[k].cur = IF held THEN NoStmt ELSE s
        /\ \A j \in Conn : j # k => call'[j] = call[j]
    BY <1>8 DEF PrepareNext, Finish, Idle, CallOK
  <2>4. ~stmt[s].rows /\ \A j \in Conn : call[j].cur # s
    BY <2>1, NoStmtAssumption DEF Ownership, StatesAgree, CallsOwn
  <2>5. CallsOwn'
    BY <2>1, <2>3, <2>4, NoStmtAssumption DEF Ownership, CallsOwn, CallOK
  <2>6. RowsOwn'
    BY <2>1, <2>4 DEF Ownership, RowsOwn, HasStmt
  <2>7. StatesAgree'
    BY <2>1, <2>2, <2>3, <2>4, NoStmtAssumption DEF Ownership, StatesAgree
  <2>8. ResultsOfOpen'
    BY <2>1, <2>2 DEF Ownership, ResultsOfOpen
  <2> QED BY <2>5, <2>6, <2>7, <2>8 DEF Ownership
<1>9. ASSUME NEW k \in Conn, NEW r \in Rows, ExecuteQuery(k, r) PROVE Ownership'
  <2> DEFINE s == call[k].cur
  <2>1. /\ s \in Stmt /\ stmt[s].state = "inner" /\ ~stmt[s].rows /\ rows[r].state = "none"
        /\ stmt[s].conn = k
    BY <1>9, Executing DEF ExecuteQuery, OpenRows, Ownership, CallsOwn
  <2>2. /\ stmt'[s] = [stmt[s] EXCEPT !.rows = TRUE, !.closeOnRowsClose = TRUE]
        /\ \A t \in Stmt : t # s => stmt'[t] = stmt[t]
    BY <1>9, <2>1 DEF ExecuteQuery, StmtOK
  <2>3. \A j \in Conn : call'[j].cur = IF j = k THEN NoStmt ELSE call[j].cur
    BY <1>9 DEF ExecuteQuery, Finish, Idle, CallOK
  <2>4. OpenRows(r, s) /\ native'.stmts = native.stmts
        /\ native'.results = native.results \cup {r} /\ native'.chunks = native.chunks
    BY <1>9 DEF ExecuteQuery, NativeOK
  <2>5. stmt'[s].rows /\ stmt'[s].closeOnRowsClose /\ stmt'[s].state = "inner" /\ stmt'[s].conn = k
    BY <2>1, <2>2 DEF StmtOK
  <2>6. \A j \in Conn : j # k => call[j].cur # s
    BY <2>1, NoStmtAssumption DEF Ownership, CallsOwn
  <2>7. CallsOwn' /\ StatesAgree'
    <3>1. CallsOwn'
      BY <2>1, <2>2, <2>3, <2>6, NoStmtAssumption DEF Ownership, CallsOwn, CallOK
    <3>2. ASSUME NEW t \in Stmt, t # s
          PROVE  stmt'[t].state = "inner" /\ ~stmt'[t].rows => \E j \in Conn : call'[j].cur = t
      <4>1. stmt[t].state = "inner" /\ ~stmt[t].rows => \E j \in Conn : j # k /\ call[j].cur = t
        BY <3>2 DEF Ownership, StatesAgree
      <4> QED BY <2>2, <2>3, <3>2, <4>1
    <3>3. s \in native'.stmts
      BY <2>1, <2>4 DEF Ownership, StatesAgree
    <3>4. StatesAgree'
      <4> SUFFICES ASSUME NEW t \in Stmt
                   PROVE  /\ stmt'[t].rows => stmt'[t].state \in {"inner", "held"}
                          /\ stmt'[t].closeOnRowsClose <=> stmt'[t].rows /\ stmt'[t].state = "inner"
                          /\ stmt'[t].state = "inner" /\ ~stmt'[t].rows => \E j \in Conn : call'[j].cur = t
                          /\ stmt'[t].state # "none" => stmt'[t].conn \in Conn
                          /\ t \in native'.stmts <=> stmt'[t].state \in {"inner", "held", "lost"}
        BY DEF StatesAgree
      <4>1. CASE t = s
        BY <2>5, <3>3, <4>1
      <4>2. CASE t # s
        BY <2>2, <2>4, <3>2, <4>2 DEF Ownership, StatesAgree
      <4> QED BY <4>1, <4>2
    <3> QED BY <3>1, <3>4
  <2>8. RowsOwn' /\ ResultsOfOpen'
    BY <2>1, <2>2, <2>4, <2>5, Opened
  <2> QED BY <2>7, <2>8 DEF Ownership
<1>10. ASSUME NEW s \in Stmt, NEW r \in Rows, StmtQuery(s, r) PROVE Ownership'
  <2>1. stmt[s].state = "held" /\ ~stmt[s].rows /\ rows[r].state = "none"
    BY <1>10 DEF StmtQuery, Usable, OpenRows
  <2>2. /\ stmt'[s] = [stmt[s] EXCEPT !.rows = TRUE]
        /\ \A t \in Stmt : t # s => stmt'[t] = stmt[t]
    BY <1>10 DEF StmtQuery, StmtOK
  <2>3. OpenRows(r, s) /\ native'.stmts = native.stmts /\ UNCHANGED call
        /\ native'.results = native.results \cup {r} /\ native'.chunks = native.chunks
    BY <1>10 DEF StmtQuery, NativeOK
  <2>4. /\ stmt'[s].rows /\ stmt'[s].state = "held" /\ stmt'[s].conn = stmt[s].conn
        /\ ~stmt'[s].closeOnRowsClose
    BY <2>1, <2>2 DEF StmtOK, Ownership, StatesAgree
  <2>5. CallsOwn' /\ StatesAgree'
    <3>1. CallsOwn'
      BY <2>1, <2>2, <2>3 DEF Ownership, CallsOwn, CallOK
    <3>2. StatesAgree'
      BY <2>1, <2>2, <2>3, <2>4 DEF Ownership, StatesAgree
    <3> QED BY <3>1, <3>2
  <2>6. RowsOwn' /\ ResultsOfOpen'
    BY <2>1, <2>2, <2>3, <2>4, Opened
  <2> QED BY <2>5, <2>6 DEF Ownership
<1>11. ASSUME NEW s \in Stmt, CloseStmt(s) PROVE Ownership'
  <2>1. /\ stmt[s].state = "held" /\ ~stmt[s].rows /\ UNCHANGED <<call, rows>>
        /\ stmt'[s] = [stmt[s] EXCEPT !.state = "closed"]
        /\ \A t \in Stmt : t # s => stmt'[t] = stmt[t]
    BY <1>11 DEF CloseStmt, Usable, StmtOK
  <2>2. /\ native'.stmts = native.stmts \ {s}
        /\ native'.results = native.results /\ native'.chunks = native.chunks
    BY <1>11 DEF CloseStmt, NativeOK
  <2>3. /\ stmt'[s].state = "closed" /\ ~stmt'[s].rows /\ stmt'[s].conn = stmt[s].conn
        /\ ~stmt'[s].closeOnRowsClose
    BY <2>1 DEF StmtOK, Ownership, StatesAgree
  <2>4. CallsOwn' /\ ResultsOfOpen'
    BY <2>1, <2>2 DEF Ownership, CallsOwn, CallOK, ResultsOfOpen
  <2>5. RowsOwn'
    BY <2>1, <2>3 DEF Ownership, RowsOwn, HasStmt
  <2>6. StatesAgree'
    BY <2>1, <2>2, <2>3 DEF Ownership, StatesAgree
  <2> QED BY <2>4, <2>5, <2>6 DEF Ownership
<1>12. ASSUME NEW r \in Rows, NextChunk(r) PROVE Ownership'
  <2>1. PICK more \in BOOLEAN :
          /\ rows' = [rows EXCEPT ![r].closeChunk = more]
          /\ native' = [native EXCEPT !.chunks = IF more THEN @ \cup {r} ELSE @ \ {r}]
    BY <1>12 DEF NextChunk
  <2>2. /\ native'.stmts = native.stmts /\ native'.results = native.results
        /\ native'.chunks = IF more THEN native.chunks \cup {r} ELSE native.chunks \ {r}
    BY <2>1 DEF NativeOK
  <2>3. /\ rows[r].state = "open" /\ rows'[r].closeChunk = more /\ UNCHANGED <<call, stmt>>
        /\ \A q \in Rows : rows'[q].state = rows[q].state /\ rows'[q].stmt = rows[q].stmt
        /\ \A q \in Rows : q # r => rows'[q] = rows[q]
    BY <1>12, <2>1 DEF NextChunk, RowsOK
  <2>4. CallsOwn' /\ RowsOwn' /\ StatesAgree'
    BY <2>2, <2>3 DEF Ownership, CallsOwn, RowsOwn, StatesAgree, HasStmt
  <2>5. ResultsOfOpen'
    BY <2>2, <2>3 DEF Ownership, ResultsOfOpen
  <2> QED BY <2>4, <2>5 DEF Ownership
<1>13. ASSUME NEW r \in Rows, CloseRows(r) PROVE Ownership'
  <2>1. /\ rows[r].state = "open" /\ rows'[r].state = "closing" /\ UNCHANGED <<call, stmt>>
        /\ \A q \in Rows : rows'[q].stmt = rows[q].stmt /\ rows'[q].closeChunk = rows[q].closeChunk
        /\ \A q \in Rows : q # r => rows'[q].state = rows[q].state
    BY <1>13 DEF CloseRows, RowsOK
  <2>2. /\ native'.stmts = native.stmts /\ native'.results = native.results \ {r}
        /\ native'.chunks = native.chunks \ (IF rows[r].closeChunk THEN {r} ELSE {})
    BY <1>13 DEF CloseRows, NativeOK, FreedFirst
  <2>3. CallsOwn' /\ RowsOwn' /\ StatesAgree'
    BY <2>1, <2>2 DEF Ownership, CallsOwn, RowsOwn, StatesAgree, HasStmt
  <2>4. ResultsOfOpen'
    BY <2>1, <2>2 DEF Ownership, ResultsOfOpen
  <2> QED BY <2>3, <2>4 DEF Ownership
<1>14. ASSUME NEW r \in Rows, ReleaseStmt(r) PROVE Ownership'
  <2> DEFINE s == rows[r].stmt
             own == stmt[s].closeOnRowsClose
  <2>1. /\ rows[r].state = "closing" /\ s \in Stmt /\ stmt[s].rows /\ UNCHANGED call
        /\ rows'[r].state = "closed"
        /\ \A q \in Rows : q # r => rows'[q] = rows[q]
    BY <1>14 DEF ReleaseStmt, Ownership, RowsOwn, RowsOK, HasStmt
  <2>2. /\ native'.stmts = IF own THEN native.stmts \ {s} ELSE native.stmts
        /\ native'.results = native.results /\ native'.chunks = native.chunks
    BY <1>14 DEF ReleaseStmt, NativeOK, OwnStmt
  <2>3. /\ stmt'[s] = IF own THEN Unused ELSE [stmt[s] EXCEPT !.rows = FALSE]
        /\ \A t \in Stmt : t # s => stmt'[t] = stmt[t]
    BY <1>14, <2>1 DEF ReleaseStmt, StmtOK, OwnStmt
  <2>4. /\ ~stmt'[s].rows /\ ~stmt'[s].closeOnRowsClose
        /\ own => stmt'[s].state = "none"
        /\ ~own => stmt'[s].state = "held" /\ stmt[s].state = "held" /\ stmt'[s].conn = stmt[s].conn
        /\ own => stmt[s].state = "inner"
    BY <2>1, <2>3 DEF StmtOK, Ownership, StatesAgree, Unused
  <2>5. CallsOwn'
    BY <2>1, <2>3 DEF Ownership, CallsOwn, CallOK
  <2>6. RowsOwn'
    <3>1. \A q \in Rows : HasStmt(q)' =>
             /\ rows'[q].stmt = rows[q].stmt /\ HasStmt(q) /\ rows[q].stmt # s
             /\ rows[q].stmt \in Stmt /\ stmt'[rows[q].stmt].rows
      BY <2>1, <2>3 DEF Ownership, RowsOwn, HasStmt
    <3>2. \A t \in Stmt : stmt'[t].rows => \E q \in Rows : HasStmt(q)' /\ rows'[q].stmt = t
      <4> SUFFICES ASSUME NEW t \in Stmt, stmt'[t].rows
                   PROVE  \E q \in Rows : HasStmt(q)' /\ rows'[q].stmt = t
        OBVIOUS
      <4>1. t # s /\ stmt[t].rows
        BY <2>3, <2>4
      <4>2. PICK q \in Rows : HasStmt(q) /\ rows[q].stmt = t
        BY <4>1 DEF Ownership, RowsOwn
      <4>3. rows'[q] = rows[q]
        BY <2>1, <4>1, <4>2
      <4> QED BY <4>2, <4>3 DEF HasStmt
    <3> QED BY <3>1, <3>2 DEF Ownership, RowsOwn
  <2>7. StatesAgree'
    BY <2>1, <2>2, <2>3, <2>4 DEF Ownership, StatesAgree
  <2>8. ResultsOfOpen'
    BY <2>1, <2>2 DEF Ownership, ResultsOfOpen
  <2> QED BY <2>5, <2>6, <2>7, <2>8 DEF Ownership
<1>15. ASSUME NEW k \in Conn, BindPanics(k) PROVE Ownership'
  <2> DEFINE s == call[k].cur
  <2>1. s \in Stmt /\ stmt[s].state = "inner" /\ ~stmt[s].rows /\ stmt[s].conn = k
    BY <1>15, Executing DEF BindPanics, Ownership, CallsOwn
  <2>2. /\ stmt'[s].state = "lost" /\ ~stmt'[s].rows /\ stmt'[s].conn = k
        /\ ~stmt'[s].closeOnRowsClose
        /\ \A t \in Stmt : t # s => stmt'[t] = stmt[t]
    BY <1>15, <2>1 DEF BindPanics, StmtOK, Ownership, StatesAgree
  <2>3. /\ call'[k].cur = NoStmt /\ UNCHANGED <<rows, native>>
        /\ \A j \in Conn : j # k => call'[j] = call[j] /\ call[j].cur # s
    BY <1>15, <2>1, NoStmtAssumption DEF BindPanics, Finish, Idle, CallOK, Ownership, CallsOwn
  <2>4. CallsOwn'
    BY <2>2, <2>3, NoStmtAssumption DEF Ownership, CallsOwn, CallOK
  <2>5. RowsOwn'
    BY <2>1, <2>2, <2>3 DEF Ownership, RowsOwn, HasStmt
  <2>6. StatesAgree'
    BY <2>1, <2>2, <2>3 DEF Ownership, StatesAgree
  <2>7. ResultsOfOpen'
    BY <2>3 DEF Ownership, ResultsOfOpen
  <2> QED BY <2>4, <2>5, <2>6, <2>7 DEF Ownership
<1>16. CASE UNCHANGED vars
  BY <1>16, <1>0 DEF vars
<1> QED
  BY <1>1, <1>2, <1>3, <1>4, <1>5, <1>6, <1>7, <1>8, <1>9, <1>10, <1>11, <1>12, <1>13, <1>14, <1>15,
     <1>16
  DEF Next, UserCall, BeginTx, EndTx
-----------------------------------------------------------------------------
\* Conn.tx and DuckDB's transaction, one connection at a time.
InTxCall(k) == call[k].pc # "idle" /\ call[k].op \in TxOp
TxOf(k) == conn[k] # "closed" /\ k \notin manual =>
             IF InTxCall(k) THEN ~tx[k] /\ (native.tx[k] = "none" <=> call[k].op = "begin")
                            ELSE tx[k] <=> native.tx[k] # "none"

\* What a step leaves of a connection when it starts and ends no transaction: the
\* two still agree.
LEMMA TxKept ==
  ASSUME NEW k \in Conn, TxOf(k), conn[k] = "closed" => conn'[k] = "closed",
         k \in manual => k \in manual', tx'[k] = tx[k],
         native'.tx[k] = "none" <=> native.tx[k] = "none",
         InTxCall(k)' <=> InTxCall(k), InTxCall(k) => call'[k].op = call[k].op
  PROVE  TxOf(k)'
BY DEF TxOf

\* User text that runs on a connection keeps the two in agreement, or marks the
\* connection: whatever DuckDB answers, "work" does not start or end a transaction.
LEMMA UserText ==
  ASSUME NEW k \in Conn, NEW kind \in Kind, NEW o, o \notin TxOp, MarkManual(k, kind, o),
         NEW t \in TxState,
         NEW u \in {t} \cup AfterError(kind, t) \cup {AfterOk(kind, t)}
  PROVE  k \notin manual' => (u = "none" <=> t = "none")
<1>1. CASE kind = "work"
  BY <1>1 DEF AfterError, AfterOk, TxState
<1>2. CASE kind # "work"
  BY <1>2 DEF MarkManual
<1> QED BY <1>1, <1>2

\* Conn.tx follows DuckDB through every step of every call.
LEMMA StepTx ==
  ASSUME TypeOK, CallsInOrder, StatesAgree, TxFollows, [Next]_vars
  PROVE  TxFollows'
<1> USE DEF TypeOK
<1>0. \A k \in Conn : TxOf(k)
  BY DEF TxFollows, TxOf, InTxCall
<1> SUFFICES ASSUME NEW k \in Conn PROVE TxOf(k)'
  BY DEF TxFollows, TxOf, InTxCall
<1>1. ASSUME UNCHANGED <<tx, call, native.tx>>, conn[k] = "closed" => conn'[k] = "closed",
             k \in manual => k \in manual'
      PROVE  TxOf(k)'
  BY <1>0, <1>1, TxKept DEF InTxCall
<1>2. ASSUME NEW j \in Conn, NEW q \in Query, NEW o \in {"exec", "query", "prepare"}, UserCall(j, o, q)
      PROVE  TxOf(k)'
  <2>1. InTxCall(k)' <=> InTxCall(k)
    BY <1>2 DEF UserCall, Call, Free, To, Idle, InTxCall, TxOp, CallOK
  <2>2. InTxCall(k) => call'[k].op = call[k].op
    BY <1>2 DEF UserCall, Call, Free, To, Idle, InTxCall, TxOp, CallOK
  <2> QED BY <1>0, <1>2, <2>1, <2>2, TxKept DEF UserCall, Call
<1>3. ASSUME NEW j \in Conn, j # k, call'[k] = call[k], tx'[k] = tx[k], native'.tx[k] = native.tx[k],
             conn[k] = "closed" => conn'[k] = "closed", k \in manual => k \in manual'
      PROVE  TxOf(k)'
  BY <1>0, <1>3, TxKept DEF InTxCall
<1>4. ASSUME NEW j \in Conn, BeginTx(j) PROVE TxOf(k)'
  <2>1. CASE j # k
    BY <1>3, <1>4, <2>1 DEF BeginTx, Call, To, CallOK
  <2>2. CASE j = k
    <3>1. call'[k].pc = "extract" /\ call'[k].op = "begin" /\ call[k].pc = "idle" /\ ~tx[k]
      BY <1>4, <2>2 DEF BeginTx, Call, Free, To, Idle, CallOK
    <3> QED BY <1>0, <1>4, <2>2, <3>1 DEF BeginTx, Call, TxOf, InTxCall, TxOp
  <2> QED BY <2>1, <2>2
<1>5. ASSUME NEW j \in Conn, NEW o \in {"commit", "rollback"}, EndTx(j, o) PROVE TxOf(k)'
  <2>1. CASE j # k
    BY <1>3, <1>5, <2>1 DEF EndTx, Call, To, CallOK, ConnOK
  <2>2. CASE j = k
    <3>1. /\ call'[k].pc = "extract" /\ call'[k].op = o /\ call[k].pc = "idle"
          /\ tx[k] /\ ~tx'[k]
      BY <1>5, <2>2 DEF EndTx, Call, Free, To, Idle, CallOK, ConnOK
    <3> QED BY <1>0, <1>5, <2>2, <3>1 DEF EndTx, Call, TxOf, InTxCall, TxOp
  <2> QED BY <2>1, <2>2
<1>6. ASSUME NEW j \in Conn, Cancel(j) PROVE TxOf(k)'
  <2>1. call'[k].pc = call[k].pc /\ call'[k].op = call[k].op
    BY <1>6 DEF Cancel, CallOK
  <2> QED BY <1>0, <1>6, <2>1, TxKept DEF Cancel, InTxCall
<1>7. ASSUME NEW j \in Conn, Finish(j), UNCHANGED <<conn, tx, manual, native.tx>>, call[j].pc # "idle",
             conn[j] = "closed" \/ call[j].canceled \/ call[j].op \notin TxOp
      PROVE  TxOf(k)'
  <2>1. CASE j # k
    BY <1>3, <1>7, <2>1 DEF Finish, CallOK
  <2>2. CASE j = k
    <3>1. ~InTxCall(k)'
      BY <1>7, <2>2 DEF Finish, Idle, InTxCall, CallOK
    <3>2. call[k].canceled /\ InTxCall(k) => call[k].op = "begin"
      BY DEF CallsInOrder, InTxCall, TxOp
    <3> QED BY <1>0, <1>7, <2>2, <3>1, <3>2 DEF TxOf, InTxCall
  <2> QED BY <2>1, <2>2
<1>8. ASSUME NEW j \in Conn, Extract(j) PROVE TxOf(k)'
  <2>1. CASE Finish(j) /\ (conn[j] = "closed" \/ call[j].canceled \/ call[j].op \notin TxOp)
    BY <1>7, <1>8, <2>1 DEF Extract
  <2>2. CASE call[j].pc = "extract" /\ call' = [call EXCEPT ![j].pc = "prepare"]
    <3>1. call'[k].op = call[k].op /\ (call'[k].pc = "idle" <=> call[k].pc = "idle")
      BY <2>2 DEF CallOK
    <3> QED BY <1>0, <1>8, <3>1, TxKept DEF Extract, InTxCall
  <2> QED BY <1>8, <2>1, <2>2 DEF Extract
<1>9. ASSUME NEW j \in Conn, PrepareFails(j) PROVE TxOf(k)'
  BY <1>7, <1>9 DEF PrepareFails
<1>10. ASSUME NEW j \in Conn, NEW s \in Stmt, PrepareNext(j, s) PROVE TxOf(k)'
  <2>1. UNCHANGED <<conn, tx, manual, native.tx>>
    BY <1>10 DEF PrepareNext, NativeOK
  <2>2. CASE Finish(j) /\ call[j].op = "prepare"
    BY <1>7, <1>10, <2>1, <2>2 DEF PrepareNext, TxOp
  <2>3. CASE call' = [call EXCEPT ![j].pc = "execute", ![j].cur = s]
    <3>1. call'[k].op = call[k].op /\ (call'[k].pc = "idle" <=> call[k].pc = "idle")
      BY <1>10, <2>3 DEF PrepareNext, CallOK
    <3> QED BY <1>0, <2>1, <3>1, TxKept DEF InTxCall
  <2> QED BY <1>10, <2>2, <2>3 DEF PrepareNext
<1>11. ASSUME NEW j \in Conn, ExecuteFails(j) PROVE TxOf(k)'
  <2> DEFINE kind == Head(call[j].todo)
  <2>1. /\ call[j].pc = "execute" /\ kind \in Kind /\ native.tx[j] \in TxState
        /\ Finish(j) /\ MarkManual(j, kind, call[j].op) /\ UNCHANGED <<conn, tx>>
    BY <1>11, Executing DEF ExecuteFails
  <2>2. PICK t \in (IF call[j].canceled THEN {native.tx[j]} ELSE {}) \cup AfterError(kind, native.tx[j]) :
          native' = [native EXCEPT !.stmts = @ \ ClosedOnError(j), !.tx[j] = t]
    BY <1>11 DEF ExecuteFails
  <2>3. \A i \in Conn : native'.tx[i] = IF i = j THEN t ELSE native.tx[i]
    BY <2>2 DEF NativeOK
  <2>4. CASE j # k
    BY <1>3, <2>1, <2>3, <2>4 DEF Finish, CallOK, MarkManual
  <2>5. CASE j = k
    <3>1. ~InTxCall(k)'
      BY <2>1, <2>5 DEF Finish, Idle, InTxCall, CallOK
    <3>2. CASE call[k].op \notin TxOp
      <4>1. k \notin manual' => (t = "none" <=> native.tx[k] = "none")
        BY <2>1, <2>2, <2>5, <3>2, UserText
      <4> QED BY <1>0, <2>1, <2>3, <2>5, <3>1, <3>2, <4>1 DEF TxOf, InTxCall, MarkManual
    <3>3. CASE call[k].op \in TxOp
      <4>1. kind = call[k].op /\ (call[k].op # "begin" => ~call[k].canceled)
        BY <2>1, <2>5, <3>3 DEF CallsInOrder, TxOp
      <4>2. conn[k] # "closed" /\ k \notin manual => native.tx[k] = "none" <=> kind = "begin"
        BY <1>0, <2>1, <2>5, <3>3, <4>1 DEF TxOf, InTxCall
      <4>3. conn[k] # "closed" /\ k \notin manual => t = "none"
        BY <2>2, <2>5, <3>3, <4>1, <4>2 DEF AfterError, TxOp
      <4> QED BY <1>0, <2>1, <2>3, <2>5, <3>1, <3>3, <4>3 DEF TxOf, InTxCall, MarkManual
    <3> QED BY <3>2, <3>3
  <2> QED BY <2>4, <2>5
<1>12. ASSUME NEW j \in Conn, ExecuteOk(j) PROVE TxOf(k)'
  <2> DEFINE kind == Head(call[j].todo)
  <2>1. /\ call[j].pc = "execute" /\ kind \in Kind /\ native.tx[j] \in TxState
        /\ MarkManual(j, kind, call[j].op) /\ UNCHANGED conn
        /\ tx' = [tx EXCEPT ![j] = @ \/ call[j].op = "begin"]
    BY <1>12, Executing DEF ExecuteOk
  <2>2. \A i \in Conn : native'.tx[i] = IF i = j THEN AfterOk(kind, native.tx[j]) ELSE native.tx[i]
    BY <1>12 DEF ExecuteOk, NativeOK
  <2>3. /\ \A i \in Conn : i # j => call'[i] = call[i]
        /\ call'[j].pc # "idle" => call'[j].op = call[j].op /\ ~IsLast(j)
    <3>1. CASE Finish(j)
      BY <3>1 DEF Finish, Idle, CallOK
    <3>2. CASE /\ ~IsLast(j)
               /\ To(j, [call[j] EXCEPT !.pc = "prepare", !.todo = Tail(@), !.cur = NoStmt])
      BY <3>2 DEF To, CallOK
    <3> QED BY <1>12, <3>1, <3>2 DEF ExecuteOk
  <2>4. CASE j # k
    BY <1>3, <2>1, <2>2, <2>3, <2>4 DEF MarkManual, ConnOK
  <2>5. CASE j = k
    <3>1. CASE call[k].op \notin TxOp
      <4>1. k \notin manual' => (AfterOk(kind, native.tx[k]) = "none" <=> native.tx[k] = "none")
        <5> DEFINE o == call[k].op
                   u == AfterOk(kind, native.tx[k])
        <5>1. /\ kind \in Kind /\ o \notin TxOp /\ MarkManual(k, kind, o) /\ native.tx[k] \in TxState
              /\ u \in {native.tx[k]} \cup AfterError(kind, native.tx[k]) \cup {AfterOk(kind, native.tx[k])}
          BY <2>1, <2>5, <3>1
        <5> HIDE DEF kind, o, u
        <5> QED BY <5>1, UserText DEF u
      <4>2. ~InTxCall(k)' /\ tx'[k] = tx[k]
        BY <2>1, <2>3, <2>5, <3>1 DEF InTxCall, TxOp, ConnOK
      <4> QED BY <1>0, <2>1, <2>2, <2>5, <3>1, <4>1, <4>2 DEF TxOf, InTxCall, MarkManual
    <3>2. CASE call[k].op \in TxOp
      <4>1. kind = call[k].op /\ Len(call[k].todo) = 1
        <5>1. call[k].todo = <<call[k].op>>
          BY <2>1, <2>5, <3>2 DEF CallsInOrder
        <5> QED BY <2>5, <5>1
      <4>2. ~InTxCall(k)'
        BY <2>3, <2>5, <4>1 DEF InTxCall, IsLast
      <4>3. conn[k] # "closed" /\ k \notin manual => ~tx[k]
        BY <1>0, <2>1, <2>5, <3>2 DEF TxOf, InTxCall
      <4>4. tx'[k] <=> tx[k] \/ kind = "begin"
        BY <2>1, <2>5, <4>1 DEF ConnOK
      <4>5. AfterOk(kind, native.tx[k]) # "none" <=> kind = "begin"
        BY <3>2, <4>1 DEF AfterOk, TxOp
      <4> QED BY <2>1, <2>2, <2>5, <4>2, <4>3, <4>4, <4>5 DEF TxOf, MarkManual
    <3> QED BY <3>1, <3>2
  <2> QED BY <2>4, <2>5
<1>13. ASSUME NEW j \in Conn, NEW kind \in Kind, NEW o, o \notin TxOp, MarkManual(j, kind, o),
              NEW u \in AfterError(kind, native.tx[j]) \cup {AfterOk(kind, native.tx[j])},
              \A i \in Conn : native'.tx[i] = IF i = j THEN u ELSE native.tx[i],
              UNCHANGED <<conn, tx>>, InTxCall(k)' <=> InTxCall(k), ~InTxCall(j),
              InTxCall(k) => call'[k] = call[k]
       PROVE  TxOf(k)'
  <2>1. native.tx[j] \in TxState
    BY DEF NativeOK
  <2>2. k \notin manual' => (native'.tx[k] = "none" <=> native.tx[k] = "none")
    BY <1>13, <2>1, UserText
  <2>3. k \in manual => k \in manual'
    BY <1>13 DEF MarkManual
  <2> QED BY <1>0, <1>13, <2>2, <2>3 DEF TxOf, InTxCall
<1>14. ASSUME NEW j \in Conn, NEW r \in Rows, ExecuteQuery(j, r) PROVE TxOf(k)'
  <2> DEFINE kind == Head(call[j].todo)
  <2>1. kind \in Kind /\ MarkManual(j, kind, "query") /\ call[j].op = "query" /\ UNCHANGED <<conn, tx>>
    BY <1>14, Executing DEF ExecuteQuery
  <2>2. \A i \in Conn : native'.tx[i] = IF i = j THEN AfterOk(kind, native.tx[j]) ELSE native.tx[i]
    BY <1>14 DEF ExecuteQuery, NativeOK
  <2>3. ~InTxCall(j) /\ ~InTxCall(j)' /\ \A i \in Conn : i # j => call'[i] = call[i]
    BY <1>14, <2>1 DEF ExecuteQuery, Finish, Idle, InTxCall, TxOp, CallOK
  <2>4. (InTxCall(k)' <=> InTxCall(k)) /\ (InTxCall(k) => call'[k] = call[k])
    BY <2>3 DEF InTxCall
  <2> QED BY <1>13, <2>1, <2>2, <2>3, <2>4 DEF TxOp
<1>15. ASSUME NEW s \in Stmt, StmtExec(s) PROVE TxOf(k)'
  <2> DEFINE j == stmt[s].conn
  <2>1. j \in Conn /\ stmt[s].kind \in Kind /\ ~InTxCall(j)
    BY <1>15 DEF StmtExec, Usable, Free, InTxCall, StatesAgree, StmtOK
  <2>2. PICK u \in AfterError(stmt[s].kind, native.tx[j]) \cup {AfterOk(stmt[s].kind, native.tx[j])} :
          native' = [native EXCEPT !.tx[j] = u]
    BY <1>15 DEF StmtExec
  <2>3. \A i \in Conn : native'.tx[i] = IF i = j THEN u ELSE native.tx[i]
    BY <2>2 DEF NativeOK
  <2>4. MarkManual(j, stmt[s].kind, "exec") /\ UNCHANGED <<conn, tx, call>>
    BY <1>15 DEF StmtExec
  <2>5. (InTxCall(k)' <=> InTxCall(k)) /\ call'[k] = call[k] /\ "exec" \notin TxOp
    BY <2>4 DEF InTxCall, TxOp
  <2> QED BY <1>13, <2>1, <2>2, <2>3, <2>4, <2>5
<1>16. ASSUME NEW s \in Stmt, NEW r \in Rows, StmtQuery(s, r) PROVE TxOf(k)'
  <2> DEFINE j == stmt[s].conn
  <2>1. j \in Conn /\ stmt[s].kind \in Kind /\ ~InTxCall(j)
    BY <1>16 DEF StmtQuery, Usable, Free, InTxCall, StatesAgree, StmtOK
  <2>2. \A i \in Conn : native'.tx[i] = IF i = j THEN AfterOk(stmt[s].kind, native.tx[j]) ELSE native.tx[i]
    BY <1>16 DEF StmtQuery, NativeOK
  <2>3. MarkManual(j, stmt[s].kind, "query") /\ UNCHANGED <<conn, tx, call>>
    BY <1>16 DEF StmtQuery
  <2> QED BY <1>13, <2>1, <2>2, <2>3 DEF TxOp, InTxCall
<1>17. CASE CloseConnector \/ UNCHANGED vars
  BY <1>1, <1>17 DEF CloseConnector, vars
<1>18. ASSUME NEW j \in Conn, Connect(j) \/ InitDone(j) \/ CloseConn(j) PROVE TxOf(k)'
  BY <1>1, <1>18 DEF Connect, InitDone, CloseConn, ConnOK, NativeOK
<1>19. ASSUME NEW s \in Stmt, CloseStmt(s) PROVE TxOf(k)'
  BY <1>1, <1>19 DEF CloseStmt, NativeOK
<1>20. ASSUME NEW r \in Rows, NextChunk(r) \/ CloseRows(r) \/ ReleaseStmt(r) PROVE TxOf(k)'
  BY <1>1, <1>20 DEF NextChunk, CloseRows, ReleaseStmt, NativeOK
<1>21. ASSUME NEW j \in Conn, BindPanics(j) PROVE TxOf(k)'
  BY <1>7, <1>21 DEF BindPanics, TxOp
<1> QED
  BY <1>2, <1>4, <1>5, <1>6, <1>8, <1>9, <1>10, <1>11, <1>12, <1>14, <1>15, <1>16, <1>17, <1>18,
     <1>19, <1>20, <1>21 DEF Next

-----------------------------------------------------------------------------
\* The step of the two invariants, and what they say.
LEMMA StepOwn ==
  ASSUME OwnInv, TxFollows, [Next]_vars
  PROVE  OwnInv' /\ TxFollows'
BY StepTyped, StepInOrder, StepOwned, StepTx DEF OwnInv, Ownership

\* Along every run of the driver the two hold.
LEMMA AlwaysOwn == Spec => [](OwnInv /\ TxFollows)
<1>1. OwnInv /\ TxFollows /\ [Next]_vars => (OwnInv /\ TxFollows)'
  BY StepOwn
<1> QED BY <1>1, InitOwn, PTL DEF Spec

\* The rows of a statement are none, or the one rows object that marks it.
LEMMA OneRows ==
  ASSUME TypeOK, RowsOwn, NEW s \in Stmt
  PROVE  Cardinality(OpenRowsOf(s)) <= 1 /\ (stmt[s].rows <=> OpenRowsOf(s) # {})
<1>1. CASE OpenRowsOf(s) = {}
  <2>1. ~stmt[s].rows
    BY <1>1 DEF OpenRowsOf, RowsOwn
  <2>2. Cardinality({}) = 0
    BY FS_EmptySet
  <2> QED BY <1>1, <2>1, <2>2
<1>2. ASSUME NEW r \in OpenRowsOf(s) PROVE stmt[s].rows /\ OpenRowsOf(s) = {r}
  BY <1>2 DEF OpenRowsOf, RowsOwn
<1> QED BY <1>1, <1>2, FS_Singleton

\* Somebody will destroy a statement exactly while it is the driver's own or held.
LEMMA OwnedStates ==
  ASSUME OwnInv, NEW s \in Stmt
  PROVE  Owned(s) <=> stmt[s].state \in {"inner", "held"}
<1>1. stmt[s].rows <=> OpenRowsOf(s) # {}
  BY OneRows DEF OwnInv
<1>2. \A k \in Conn : call[k].cur = s => stmt[s].state = "inner"
  BY NoStmtAssumption DEF OwnInv, CallsOwn
<1> QED BY <1>1, <1>2 DEF OwnInv, StatesAgree, Owned

\* Every reachable state of the driver's objects, the calls of prepareStmts
\* (connection.go:215-270) and DuckDB's handles has its type, whatever fails.
THEOREM TypeCorrect == Spec => []TypeOK
<1>1. OwnInv => TypeOK
  BY DEF OwnInv
<1> QED BY <1>1, AlwaysOwn, PTL

\* Conn.prepareStmts, ExecContext, QueryContext, Stmt.Close and rows.Close
\* (connection.go:55-111 and 215-270, statement.go:70-83, rows.go:159-176) destroy no
\* statement that somebody uses, and a native statement without an owner is one that a
\* panic of Bind left behind.
THEOREM NoStatementLost == Spec => []StatementsOwned
<1>1. OwnInv => StatementsOwned
  BY OwnedStates DEF StatementsOwned, OwnInv, StatesAgree
<1> QED BY <1>1, AlwaysOwn, PTL

\* The driver as long as Bind never panics.
NoPanics == Init /\ [][Next /\ ~\E k \in Conn : BindPanics(k)]_vars
\* A native statement lives exactly while somebody will destroy it.
NothingLost ==
  \A s \in Stmt : stmt[s].state # "lost" /\ (s \in native.stmts <=> Owned(s))

\* Whatever fails or is cancelled, as long as Bind does not panic no path of
\* connection.go:55-111 and 215-270, statement.go:70-83 and rows.go:159-176 leaves a
\* native statement behind.
THEOREM LostOnlyByPanic == NoPanics => []NothingLost
<1> DEFINE NoneLost == \A s \in Stmt : stmt[s].state # "lost"
           Inv == OwnInv /\ TxFollows /\ NoneLost
           Step == Next /\ ~\E k \in Conn : BindPanics(k)
<1>1. Init => Inv
  BY InitOwn DEF Init, Unused
<1>2. ASSUME Inv, [Step]_vars PROVE Inv'
  <2>1. OwnInv' /\ TxFollows'
    BY <1>2, StepOwn
  <2>2. NoneLost'
    <3> USE DEF OwnInv, TypeOK, StmtOK, Unused
    <3>1. ASSUME NEW k \in Conn, DropInner(call[k].cur) PROVE NoneLost'
      BY <1>2, <3>1 DEF DropInner
    <3>2. ASSUME NEW k \in Conn, NEW s \in Stmt, PrepareNext(k, s) PROVE NoneLost'
      BY <1>2, <3>2 DEF PrepareNext
    <3>3. ASSUME NEW k \in Conn, NEW r \in Rows, ExecuteQuery(k, r) PROVE NoneLost'
      BY <1>2, <3>3 DEF ExecuteQuery
    <3>4. ASSUME NEW s \in Stmt, NEW r \in Rows, StmtQuery(s, r) PROVE NoneLost'
      BY <1>2, <3>4 DEF StmtQuery
    <3>5. ASSUME NEW s \in Stmt, CloseStmt(s) PROVE NoneLost'
      BY <1>2, <3>5 DEF CloseStmt
    <3>6. ASSUME NEW r \in Rows, ReleaseStmt(r) PROVE NoneLost'
      BY <1>2, <3>6 DEF ReleaseStmt
    <3>7. ASSUME UNCHANGED stmt PROVE NoneLost'
      BY <1>2, <3>7
    <3> QED
      BY <1>2, <3>1, <3>2, <3>3, <3>4, <3>5, <3>6, <3>7
      DEF Next, vars, CloseConnector, Connect, InitDone, CloseConn, UserCall, BeginTx, EndTx, Call, Cancel,
          Extract, PrepareFails, ExecuteFails, ExecuteOk, StmtExec, NextChunk, CloseRows
  <2> QED BY <2>1, <2>2
<1>3. Inv => NothingLost
  BY OwnedStates DEF NothingLost, OwnInv, StatesAgree
<1> HIDE DEF Inv, Step
<1>4. Inv /\ [Step]_vars => Inv'
  BY <1>2
<1>5. NoPanics => Init /\ [][Step]_vars
  BY PTL DEF NoPanics, Step
<1> QED BY <1>1, <1>3, <1>4, <1>5, PTL

\* Stmt.rows (statement.go:54) marks exactly the statements with a rows object that is
\* not closed, there is never a second one, and rows.Close (rows.go:165-172) never
\* finds its statement destroyed.
THEOREM OneRowsPerStatement == Spec => []BusyWhileRowsOpen
<1>1. OwnInv => BusyWhileRowsOpen
  BY OneRows DEF OwnInv, BusyWhileRowsOpen, StatesAgree
<1> QED BY <1>1, AlwaysOwn, PTL

\* rows.Next and rows.Close (rows.go:61-64 and 159-176) destroy every result and
\* every chunk, none twice, and none after its statement.
THEOREM NoResultLost == Spec => []ResultsOwned
<1>1. OwnInv => ResultsOwned
  BY DEF OwnInv, ResultsOwned, ResultsOfOpen, HasStmt, RowsOwn, StatesAgree
<1> QED BY <1>1, AlwaysOwn, PTL

\* BeginTx (connection.go:146-166), Commit and Rollback (transaction.go:9-31) leave
\* Conn.tx saying what DuckDB would say, on every failure and cancellation.
THEOREM TxNeverLies == Spec => []TxMatchesDuckDB
<1>1. TxFollows => TxMatchesDuckDB
  BY DEF TxFollows, TxMatchesDuckDB, Free
<1> QED BY <1>1, AlwaysOwn, PTL
=============================================================================
