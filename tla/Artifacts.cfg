SPECIFICATION FairSpec
CONSTANTS
  Trainers <- Both
  Days <- TwoDays
  MaxTrainings = 3
INVARIANTS VersionsAreWhole OnlyCrashesLoseVersions EngineUsesRegisteredPair LivePairIsOfOneDay
PROPERTY TrainingsEnd
CHECK_DEADLOCK FALSE
