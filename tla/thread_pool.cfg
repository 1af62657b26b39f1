SPECIFICATION FairSpec
CONSTANTS
  Task = {t1, t2}
  User = {u1, u2}
  ThreadCount = 3
  QueueSize = 3
  NoTask = NoTask
  NoThread = NoThread
INVARIANTS
  TypeOK
  NoLostWakeup
  NobodySleepsThroughShutdown
  FreedAfterTheLastThread
PROPERTIES
  ImplementsWorkQueue
  AcceptedTaskStarts
  OneDestroyStopsThePool
CHECK_DEADLOCK FALSE
