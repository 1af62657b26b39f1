SPECIFICATION Spec
CONSTANTS
  Task = {t1, t2}
  Arg = {a, b}
  NoTask = NoTask
  Delays = {0, 2}
  IntMax = 3
  MaxSkew = 2
  MaxBack = 0
SYMMETRY Symmetry
INVARIANTS
  DeltaGoesToATask
