SPECIFICATION FlusherSpec
CONSTANTS
  Slots = {blue, green}
  LastDay = 4
  MaxUpsets = 2
INVARIANTS RecordsAreTrue NoDayIsLeftOut
PROPERTY EveryDayIsDealtWith
CHECK_DEADLOCK FALSE
