\* Three calls in two processes, in three mixtures of configurations.
CONSTANTS
  p1 = p1
  p2 = p2
  c1 = c1
  c2 = c2
  c3 = c3
  Procs = {p1, p2}
  Calls = {c1, c2, c3}
  Home <- SharedHome
  Configs <- MixedConfigs
  MaxRows = 2
  Free = Free
  None = None
SPECIFICATION FairSpec
INVARIANTS TypeOK CountSound RowsInOrder BatchesContiguous OneCachePerProcess SkippedStoresNothing
PROPERTIES ImplementsHistoryLog CallsEnd
\* Every call is made once: when all have ended the system rests.
CHECK_DEADLOCK FALSE
