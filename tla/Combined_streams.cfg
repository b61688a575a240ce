SPECIFICATION FairSpec
CONSTANTS
  MaxEvents = 2
  BatchSize = 3
  MaxFaults = 2
INVARIANTS TypeOK
PROPERTIES StreamsDeliver ForfeitsLessThanABatch EveryEventSettles
