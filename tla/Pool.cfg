SPECIFICATION FairSpec
CONSTANTS
  g1 = g1
  g2 = g2
  g3 = g3
  d1 = d1
  Guarded <- Wrappers
  Direct <- Writer
  Fetching <- Readers
  Permits = 2
  MaxConn = 2
INVARIANTS OpenPoolIsGlobal NoLeak
PROPERTIES OnlyOutsidersExhaust JobsEnd
CHECK_DEADLOCK FALSE
