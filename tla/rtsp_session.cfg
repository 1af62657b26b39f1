SPECIFICATION Spec
CONSTANTS
  Client = {c1}
  Request = {"info", "infoUdp", "infoTcp", "bad", "junk", "describe", "setupV", "setupA", "setupTcp", "play", "pause", "teardown"}
  Follows <- AnyPlayer
  Outstanding = 1
  Frame = {"I", "P", "A", "none"}
  StartFails = TRUE
  MaxFd = 2
  Ms5 = 1
  Ms10 = 1
  Ms40 = 2
  MaxSkew = 2
  MaxSendQueue = 2
  MaxTasks = 2
INVARIANTS
  TypeOK
  TaskArgLive
  HandlerArgLive
  RetryHasTask
  SocketsAreHandled
  PlayingHasPump
  PlayingIsStreaming
  OneAnswerPerRequest
CHECK_DEADLOCK FALSE
