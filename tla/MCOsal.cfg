SPECIFICATION FairSpec
CONSTANTS
  Channels = {c0, c1}
  ClearAfter = 1
  CheckAfter = 2
  PrintAfter = 3
INVARIANTS NoEventLost MutexNotKept
PROPERTIES KeepsChecking SignalEnds
