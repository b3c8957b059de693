SPECIFICATION Spec
CONSTANTS
  t1 = t1
  t2 = t2
  table = table
  scalar = scalar
  set = set
  replacement = replacement
  nobody = nobody
  Thread <- MCThread
  Fn <- MCFn
  KindOf <- MCKindOf
  Nobody = nobody
  Capacity = 2
  Claim = 3
  Scans <- MCScans
  MaxScans = 2
INVARIANTS
  RowsArriveWhole
  SequentialIsSequential
  HandlesOwned
PROPERTIES
  ImplementsRowFeed
  ScanEnds
CHECK_DEADLOCK FALSE
