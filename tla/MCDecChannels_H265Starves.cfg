SPECIFICATION FairSpec
CONSTANTS
  DecType = "H265"
  NumChns = 1
  InitialWnd = 1
  PeerChns = {0}
  Subwins = {1}
  Kinds = {"I", "ParamSet"}
  Cameras = {0}
  Tiles = {0}
  MaxLen = 2
  BufCap = 6
  MayFail = FALSE
  MaxFrames = 6
  MaxLosses = 0
  NumBuffers = 2
PROPERTIES HeldSetsAreSent
CHECK_DEADLOCK FALSE
