SPECIFICATION FairSpec
CONSTANTS
  Clients = {s, k1, k2}
  Channels = {0, 1}
  Cams <- AllCams
  dark = dark
  locked = locked
  open = open
  Offers <- Offered
  Reachable <- Answers
  Guarded <- AsksPassword
  NoCam = none
  Startup = s
  Home = open
  bare = bare
  nothing = nothing
  GetPool <- FirstFree
  Empty <- NotCams
  Matches <- Matching
  Subwins = {1, 2}
  Null = null

CHECK_DEADLOCK FALSE
PROPERTIES EveryLossIsRetried
