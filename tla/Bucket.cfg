SPECIFICATION FairSpec
CONSTANTS
  s1 = s1
  s2 = s2
  e1 = e1
  e2 = e2
  Symbols <- MCSymbols
  Ids <- TwoIds
  Times <- MCTimes
  Clock <- MCClock
  Window = 2
  Workers = 2
  Kinds <- Snapshots
INVARIANTS OneOpenBucketPerSymbol OnTimeRowIsComplete
PROPERTIES ImplementsLedger EveryEventSettles
CHECK_DEADLOCK FALSE
