SPECIFICATION FairSpec
CONSTANTS
  s1 = s1
  s2 = s2
  Symbols <- MCSymbols
  MaxEvents <- MCEvents
  PageSize = 1
  MaxPages = 2
  Filtered <- MCFiltered
  Faults = {"setup", "forward", "page", "score", "pause", "conflict", "kill"}
INVARIANTS TwiceOnlyAfterFailure StoppedMeansPaused
PROPERTIES MissedOnlyKnowingly CancelledStreamEnds
