SPECIFICATION FairSpec
CONSTANTS
  Exchange = "bybit"
  MaxSeq = 3
  MaxSpan = 1
  MaxDeltas = 1
  MaxTrades = 1
  TickCap = 1
  DeltaCap = 1
  StreamMax = 3
  Fetchers = {f1,f2}
  Faults = {}
  MaxDrops = 1
  MaxPanics = 2
  MaxRestarts = 0
PROPERTIES EventuallyLive ResultsAreTaken
CHECK_DEADLOCK FALSE
