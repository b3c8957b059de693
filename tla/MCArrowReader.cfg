SPECIFICATION FairSpec
CONSTANTS
  Worker = {w1, w2, w3}
  Nobody = Nobody
  Chunks = 3
  Fallible = TRUE
CHECK_DEADLOCK FALSE
INVARIANTS
  TypeOK
  DestroyedOnceWithReader
  OnlyCurrentBatch
  OnlySkippedRetainCloses
  NoErrorMeansComplete
PROPERTIES
  AllFinish
