SPECIFICATION FairSpec
CONSTANTS
  Task = {t1, t2}
  User = {u1, u2}
  ThreadCount = 1
  QueueSize = 1
  NoTask = NoTask
  NoThread = NoThread
PROPERTIES
  DestroyStopsThePool
CHECK_DEADLOCK FALSE
