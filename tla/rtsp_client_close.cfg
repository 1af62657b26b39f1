SPECIFICATION FairSpec
CONSTANTS
  Media = {"V"}
  CseqSpan = 5
  KeepaliveCnt = 1
  MayRefuse = {}
  MayClose = TRUE
  MaxFaults = 0
PROPERTY CloseStopsTheThread
CHECK_DEADLOCK FALSE
