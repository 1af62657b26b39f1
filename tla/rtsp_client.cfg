SPECIFICATION FairSpec
CONSTANTS
  Media = {"V", "A"}
  CseqSpan = 5
  KeepaliveCnt = 2
  MayRefuse = {"SETUP"}
  MayClose = TRUE
  MaxFaults = 1
INVARIANTS
  TypeOK
  OneRequestAtATime
  ClientBelievesTheServer
PROPERTIES
  PromptServerIsKept
  DeadServerIsNoticed
  ClosedConnectionIsNoticed
  FreshChannelPlays
  TeardownEndsTheThread
CHECK_DEADLOCK FALSE
