SPECIFICATION Spec
CONSTANTS
  Exchange = "kucoin"
  MaxSeq = 5
  MaxSpan = 2
  MaxDeltas = 1
  MaxTrades = 0
  TickCap = 1
  DeltaCap = 1
  StreamMax = 3
  Fetchers = {f1, f2}
  f1 = f1
  f2 = f2
  Faults = {"tick"}
  MaxDrops = 1
  MaxPanics = 1
  MaxRestarts = 1
SYMMETRY FetcherSymmetry
INVARIANTS  SnapshotPending 
CHECK_DEADLOCK FALSE
