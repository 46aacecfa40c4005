SPECIFICATION Calls
CONSTANTS
  FlowLimit = 2
  MinUsd = 2
  DefaultThreshold = 1
  FallbackThreshold = 80
  MaxWeight = 3
  FlowJobs <- SolanaJobs
  WindowJobs <- None
  CalibrationJobs <- None
  HealthJobs <- None
  CandleJobs <- None
  NewsJobs <- None
  WeightJobs <- None
INVARIANTS NoInternalTransfer
CHECK_DEADLOCK FALSE
