SPECIFICATION FairSpec
CONSTANTS
  DecType = "H264"
  NumChns = 1
  InitialWnd = 1
  PeerChns = {0, 1}
  Subwins = {1}
  Kinds = {"I", "P"}
  Cameras = {0}
  Tiles = {0}
  MaxLen = 3
  BufCap = 3
  MayFail = TRUE
  MaxFrames = 3
  MaxLosses = 2
  NumBuffers = 2
INVARIANTS OutputPlaneBalanced ResyncsAfterLoss NoVideoMeansReset ClearsOnlyIdleChannels
PROPERTIES ImplementsFramePipe EveryWaitEnds
CHECK_DEADLOCK FALSE
