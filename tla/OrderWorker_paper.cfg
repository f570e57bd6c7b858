SPECIFICATION FairSpec
CONSTANTS
  Symbols = {"btc"}
  Mode = "paper"
  MaxSize = 2
  MaxPosition = 2
  MaxOrderSize = 1
  SeenCap = 1
  WritesMayFail = FALSE
  Breaker = TRUE
  MaxPosts = 3
  MaxRestarts = 1
INVARIANTS
  GateIsSound
  EntriesAreUnique
  OpenOrdersAreRecoverable
PROPERTIES
  RequestsAreProcessed
  OpenOrdersAreFilled
CHECK_DEADLOCK FALSE
