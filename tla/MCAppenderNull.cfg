SPECIFICATION Spec
CONSTANTS
  v = v
  w = w
  Null = Null
  Bad = Bad
  Value <- MCValue
  Default = v
  Columns = 2
  Args <- MCArgsNull
  Capacity = 2
  MaxRows = 5
INVARIANTS
  TableIsPrefix
