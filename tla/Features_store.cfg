SPECIFICATION Spec
CONSTANTS
  LastDay = 2
  Regimes = {"RANGING", "TRENDING_UP"}
  Trending = {"TRENDING_UP"}
  MinCluster = 3
  MinSamples = 3
  Splits = 2
  PurgeGap = 1
  Horizon = 1
  MaxRows = 3
  MaxCalls = 5
INVARIANTS StoreIsFresh TrainingIsCoherent 
CHECK_DEADLOCK FALSE
