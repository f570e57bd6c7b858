SPECIFICATION FairBacktestsSpec
CONSTANTS
  Runs = {1, 2}
  MaxResults = 1
  SampleEvery = 2
  MaxVersions = 2
  MaxRows = 3
  MaxFaults = 1
INVARIANTS  ReplayIsReported
 
CHECK_DEADLOCK FALSE
