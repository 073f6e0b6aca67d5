SPECIFICATION FairSpec
CONSTANTS
  CfgLen = 5
  Packages = 2
  Noise <- NoiseOf
  PkgLen = 3
  ChunkLen = 7
  SockLen = 7
  MaxPkgs = 3
INVARIANTS NoPackageLost
PROPERTIES ImplementsPkgQueue EveryPkgArrives
CHECK_DEADLOCK FALSE
