SPECIFICATION FairSpec
CONSTANTS
  Clusters = {1, 2}
  MaxTrainings = 2
  MaxRows = 2
  MaxTasks = 2
  MaxFaults = 1
INVARIANTS RegistryIsSound SignalsAreSound
PROPERTY NewestIsPublished
CHECK_DEADLOCK FALSE
