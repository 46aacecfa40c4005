SPECIFICATION FairSpec
CONSTANTS
  NSymbols = 2
  Window = 1
  CexOffset = 0
  EngineOffset = 0
  LlmOffset = 0
  SeqLen = 2
  FirstBucket = 2
  LastBucket = 4
  MaxLag = 1
  MaxRetries = 2
  MaxRestarts = 0
  Started = {"anomaly_engine", "llm_decision_engine"}
INVARIANTS NoScoreOverGap NoSecondBrief
PROPERTIES EngineRecovers BriefingEnds
CHECK_DEADLOCK FALSE
