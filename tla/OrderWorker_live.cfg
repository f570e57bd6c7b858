SPECIFICATION Spec
CONSTANTS
  btc = btc
  eth = eth
  Symbols = {btc, eth}
  Mode = "live"
  MaxSize = 2
  MaxPosition = 2
  MaxOrderSize = 0
  SeenCap = 2
  WritesMayFail = TRUE
  Breaker = FALSE
  MaxPosts = 3
  MaxRestarts = 1
SYMMETRY SymbolPermutations
INVARIANT GateIsSound
CHECK_DEADLOCK FALSE
