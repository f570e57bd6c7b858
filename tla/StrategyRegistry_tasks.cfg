SPECIFICATION FairSpec
CONSTANTS
  Names = {ema, arb}
  MaxEdits = 1
  MaxCrashes = 1
  MaxStopAlls = 1
  MaxFailures = 1
INVARIANT PendingIsHandled
PROPERTIES TradersAreKept PresentFileRuns RemovedFileStops
CHECK_DEADLOCK FALSE
