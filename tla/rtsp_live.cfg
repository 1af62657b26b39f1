SPECIFICATION FairSpec
CONSTANTS
  Client = {c1}
  Request = {"describe", "setupV", "setupTcp", "play", "pause", "teardown"}
  Follows <- OneTrackPlayer
  Outstanding = 1
  Frame = {"I", "P", "A", "other"}
  StartFails = FALSE
  MaxFd = 2
  Ms5 = 1
  Ms10 = 1
  Ms40 = 1
  MaxSkew = 1
  MaxSendQueue = 1
  MaxTasks = 1
PROPERTIES
  GoneClientIsForgotten
  RequestIsAnswered
  LoopComesBack
CHECK_DEADLOCK FALSE
