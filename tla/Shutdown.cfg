SPECIFICATION FairSpec
CONSTANTS
  trades = trades
  orderbook = orderbook
  Pipelines <- Both
  MaxItems = 2
  QueueMax = 1
  Crashes <- AnyCrash
INVARIANT CleanPipelineLosesNothing
PROPERTIES CrashStopsEverything ShutdownEndsUnlessJoinStuck
CHECK_DEADLOCK FALSE
