SPECIFICATION Spec
CONSTANTS
  Capacity = 2
  Setups <- NarrowSetups
  MaxWrites = 3
  Supported <- SupportedTied
  NewVector <- NewVectorTied
  Grow <- GrowTied
  Shrink <- ShrinkTied
  ResetChildData <- ResetChildDataTied
  SetNull <- SetNullTied
  Set <- SetTied
  WriteKids <- WriteKidsTied
  FirstMatch <- FirstMatchTied
  Get <- GetTied
  Takes <- TakesTied
  Meaning <- MeaningTied
  Tree <- TreeTied
  Parts <- PartsTied
  LostToNull <- LostToNullTied
  TypesIn <- TypesOfType
  Depth <- DepthOfType
  ValuesIn <- ValuesOfValue
  Word = 4
  Byte = 2
  Unit <- UnitLengths
  Day = 16
  Year = 32
  Years <- YearBounds
  NanoLimit = 40
INVARIANTS
  WrittenOnceReadsBack
  RewriteOnlyLoses
  ListsInBounds
  OneMember
  NoStalePointer
