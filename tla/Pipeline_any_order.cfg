SPECIFICATION FairSpec
CONSTANTS
  Records <- FourRecords
  TimeOf <- MixedTimes
  Kind <- MixedKinds
  BatchSize = 2
  Limit = 0
  StoreUncorrelated = FALSE
  InOrder = FALSE
  LateArrivals = TRUE
  MaxBroken = 2
  MaxCuts = 1
INVARIANTS IInv
PROPERTIES CheckpointMonotone ForfeitsLessThanABatch ImplementsDelivery EveryEventSettles
