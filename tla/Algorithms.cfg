SPECIFICATION Calls
CONSTANTS
  FlowLimit = 1
  MinUsd = 2
  DefaultThreshold = 1
  FallbackThreshold = 80
  MaxWeight = 3
  FlowJobs <- EvmJobs
  WindowJobs <- MCWindowJobs
  CalibrationJobs <- MCCalibrationJobs
  HealthJobs <- MCHealthJobs
  CandleJobs <- MCCandleJobs
  NewsJobs <- MCNewsJobs
  WeightJobs <- MCWeightJobs
INVARIANTS FlowRowIsExact WindowsAgree ThresholdIsBest HealthIsMonotone RowsAddUp
CHECK_DEADLOCK FALSE
