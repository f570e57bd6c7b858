SPECIFICATION Spec
CONSTANTS
  m1 = m1
  m2 = m2
  p1 = p1
  p2 = p2
  p3 = p3
  f1 = f1
  b1 = b1
  b2 = b2
  b3 = b3
  s1 = s1
  s2 = s2
  h1 = h1
  r1 = r1
  x1 = x1
  x2 = x2
  g1 = g1
  g2 = g2
  t1 = t1
  t2 = t2
  Graph <- AllCallbacks
  Links <- MCLinks
  Markets = {m1, m2}
  Names = {p1, p2, p3}
  Default <- MCDefault
  Fields = {f1}
  Bots = {b1, b2, b3}
  Papers = {b1, b2}
  Exchanges <- MCExchanges
  Listed <- MCListed
  Strategies = {s1, s2}
  Hashes = {h1}
  TradesOfRun = 2
  DoneRuns = {r1}
  Files <- MCFiles
  Tfs = {1, 2}
  None = None
  Limit = 2
  Slack = 1
  MaxFetch = 10
  Poll = 2
  MaxRows <- MCMaxRows
  MaxNow = 4
  MaxTicks <- MCMaxTicks
  MaxInputs <- MCMaxInputs
  MaxMoves = 3
  MaxChanges = 2
INVARIANTS
  ChartIsOfSelection
  
  EditsStick
  
  BacktestPageFollows
  PageIsOfAddress
CHECK_DEADLOCK FALSE
