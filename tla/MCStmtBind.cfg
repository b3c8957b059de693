SPECIFICATION Spec
CONSTANTS
  Stmts <- Statements
  MakeValue <- BindValue
  Meaning <- MeaningTied
  LogicalTypeOf <- LogicalTypeOfTied
  InfoOfLogicalType <- InfoOfLogicalTypeTied
  CreateValue <- CreateValueTied
  Infer <- InferTied
  HasElements <- HasElementsTied
  CallsOnNil <- CallsOnNilTied
  MembersIn <- MembersInTied
  TypesIn <- TypesOfType
  Depth <- DepthOfType
  ValuesIn <- ValuesOfValue
  Size <- SizeOfValue
  Word = 4
  Byte = 2
  Unit <- UnitLengths
  Day = 16
  Year = 32
  Years <- YearBounds
  NanoLimit = 40
INVARIANTS
  RunsItsArguments
  BoundMeansComplete
  OnlyElementsLeak
  PanicsAreOfElements
  ReportedTypeIsTheColumns
CHECK_DEADLOCK FALSE
