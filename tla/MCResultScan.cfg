SPECIFICATION ScanSpec
CONSTANTS
  MaxChunks = 4
  MaxSize = 2
  Result <- MCResult
CHECK_DEADLOCK FALSE
INVARIANTS
  TypeOK
  ChunkOwned
PROPERTIES
  ImplementsRowCursor
  ReadsLiveChunk
  NextReturns
