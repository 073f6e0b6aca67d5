SPECIFICATION Spec
CONSTANTS
  DecType = "H264"
  NumChns = 1
  InitialWnd = 4
  PeerChns = {0}
  Subwins = {1}
  Kinds = {"I", "P"}
  Cameras = {0}
  Tiles = {0}
  MaxLen = 3
  BufCap = 3
  MayFail = FALSE
  MaxFrames = 4
  MaxLosses = 0
  NumBuffers = 2
INVARIANTS ChannelsInRange
CHECK_DEADLOCK FALSE
