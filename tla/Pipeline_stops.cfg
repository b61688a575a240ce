SPECIFICATION Spec
CONSTANTS
  Records <- AllKindsRecords
  TimeOf <- AllKindsTimes
  Kind <- AllKinds
  BatchSize = 2
  Limit = 3
  StoreUncorrelated = TRUE
  InOrder = TRUE
  LateArrivals = TRUE
  MaxBroken = 2
  MaxCuts = 2
INVARIANTS NoSilentLoss CopiesBounded
PROPERTIES PoisonNeverPassed PoisonBlocks
CHECK_DEADLOCK FALSE
