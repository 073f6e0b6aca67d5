SPECIFICATION MCSpec
CONSTANTS
  MaxCalls = 3
  MaxWindows = 2
  MaxSpurious = 2
  MayFail = TRUE
  Threads = {1, 2}
  Layers = 2
  Checks = 2
  MaxOut = 3
  Finds <- MCFinds
  Overlap <- MCOverlap
  ConfThresh = 0
  MaxRounds = 2
  Tasks = {"a", "b"}
  Messages = {"m", "n"}
  None = "none"
  MaxPushes = 4
  Timers <- MCTimers
  Delays = {2}
  Settings = {0}
  MaxTime = 2
  Pieces <- MCPieces
  Noises <- MCNoises
  MaxSent = 3
  MaxNoise = 1
  Behind = 0
INVARIANTS PulledIsIntact CutsWholeMessages NoVideoIsDropped SlotsAreFilled KeepsTheSurest
PROPERTIES ImplementsAlarms ImplementsBoxes HandsOver CallsReturn
CHECK_DEADLOCK FALSE
