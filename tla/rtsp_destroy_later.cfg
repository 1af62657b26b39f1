SPECIFICATION FairSpec
CONSTANTS
  Client = {c1}
  Request = {"describe"}
  Follows <- OneTrackPlayer
  Outstanding = 1
  Frame = {"P", "none"}
  StartFails = FALSE
  MaxFd = 1
  Ms5 = 1
  Ms10 = 1
  Ms40 = 1
  MaxSkew = 1
  MaxSendQueue = 1
  MaxTasks = 1
PROPERTY DestroyIsDoneLater
CHECK_DEADLOCK FALSE
