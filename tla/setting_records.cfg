SPECIFICATION FairSpec
CONSTANTS
  Names = 2
  Time = {1, 2}
  MaxRecords = 1
  MaxSets = 6
  MaxLoads = 2
INVARIANTS
  SavedIsLoaded
  ResetIsFinal
PROPERTIES
  EvictionEnds
CHECK_DEADLOCK FALSE
