SPECIFICATION Spec
CONSTANTS
  Client = {c1, c2}
  Request = {"describe", "setupTcp", "teardown"}
  Follows <- Hesitant
  Outstanding = 1
  Frame = {"I", "A"}
  StartFails = FALSE
  MaxFd = 1
  Ms5 = 1
  Ms10 = 1
  Ms40 = 2
  MaxSkew = 1
  MaxSendQueue = 1
  MaxTasks = 1
INVARIANTS
  OneAnswerPerRequest
  TaskArgLive
  HandlerArgLive
CHECK_DEADLOCK FALSE
