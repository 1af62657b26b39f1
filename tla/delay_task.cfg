SPECIFICATION FairSpec
CONSTANTS
  Task = {t1, t2, t3}
  Arg = {a, b}
  NoTask = NoTask
  Delays = {0, 1, 3}
  IntMax = 3
  MaxSkew = 3
  MaxBack = 1
INVARIANTS
  TypeOK
  QueuedOnce
  RunningAtHead
PROPERTIES
  ImplementsTimers
  EveryTaskIsServed
