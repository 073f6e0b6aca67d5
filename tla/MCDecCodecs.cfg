SPECIFICATION MCSpec
CONSTANTS
  DecType = "H265"
  NumChns = 2
  InitialWnd = 2
  PeerChns = {1}
  Subwins = {1, 2, 4}
  Cameras = {1}
  Kinds = {"I", "ParamSet", "Pps", "Skipped"}
  Tiles = {2}
  MaxLen = 2
  BufCap = 3
  MayFail = FALSE
  MaxFrames = 4
  MaxLosses = 1
  NumBuffers = 2
  Bytes = {b1, b2}
  Capacity = 5
  MaxChunk = 3
  Zero = zero
  SizeModulus = 65536
INVARIANTS HiddenIsClean WholeNalusInOrder
PROPERTIES FifoUnlessOverrun
CHECK_DEADLOCK FALSE
