SPECIFICATION FairSpec
CONSTANTS
  Tfs = {m1, m15}
  TradedTf = m1
  MinLookback = 2
  CloseOnTimeout = TRUE
  Closers = {1, 2}
  MaxQueue = 2
  MaxBars = 2
  MaxGaps = 2
  MaxSilences = 1
  MaxFailures = 1
INVARIANTS SuspendedExactly OrdersAreSound
PROPERTY SilenceIsAnswered
CHECK_DEADLOCK FALSE
