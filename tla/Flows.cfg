SPECIFICATION Spec
CONSTANTS
  NSymbols = 1
  Window = 4
  CexOffset = 1
  EngineOffset = 2
  LlmOffset = 3
  SeqLen = 2
  FirstBucket = 1
  LastBucket = 4
  MaxLag = 1
  MaxRetries = 2
  MaxRestarts = 1
  Started = {"cex_flows", "anomaly_engine"}
INVARIANTS FlowRowsAreFinal FlowGapOnlyIfBusy SettledFlowIsSeen
CHECK_DEADLOCK FALSE
