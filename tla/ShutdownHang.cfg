SPECIFICATION FairSpec
CONSTANTS
  trades = trades
  orderbook = orderbook
  Pipelines <- Both
  MaxItems = 2
  QueueMax = 1
  Crashes <- NoCrash
PROPERTY ShutdownCompletes
CHECK_DEADLOCK FALSE
