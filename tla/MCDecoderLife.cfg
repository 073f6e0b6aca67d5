SPECIFICATION FairSpec
CONSTANTS
  MaxBuffers = 2
  Counts = {1, 2}
  Fds = {3, 4, 5}
  OutBuffers = 2
  MayFail = TRUE
INVARIANTS DestroysItsOwn PictureIsKept BuffersGoRound SeesThisPicture
PROPERTIES ChangeIsServed ShutdownEnds
CHECK_DEADLOCK FALSE
