SPECIFICATION FairSpec
CONSTANTS
  Chunk = 12
  Files <- MCFiles
  NumBuffers = 2
  Counts = {1, 2}
  MaxChanges = 2
  MayFail = TRUE
INVARIANTS BuffersInOnePlace UnitsInOrder
PROPERTIES FileIsSent
CHECK_DEADLOCK FALSE
