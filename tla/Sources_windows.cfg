SPECIFICATION FairSpec
CONSTANTS
  Second = 2
  Lookback = 4
  Window = 2
  Period = 2
  Limit = 1
  MaxTime = 9
  MaxEvents = 2
  MaxFaults = 1
INVARIANTS TypeOK NothingSkipped AscendingReadOnce
PROPERTIES EveryEventIsRead
