SPECIFICATION Spec
CONSTANTS
  Conn = {k1}
  Stmt = {s1, s2, s3}
  Rows = {r1, r2}
  Query <- MCQuery
  NoStmt = NoStmt
SYMMETRY Symmetry
CHECK_DEADLOCK FALSE
INVARIANTS
  
  BusyWhileRowsOpen
  ResultsOwned
  TxMatchesDuckDB
