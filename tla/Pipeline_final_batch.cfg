SPECIFICATION Spec
CONSTANTS
  Records <- FourRecords
  TimeOf <- FourTimes
  Kind <- AllEvents
  BatchSize = 2
  Limit = 0
  StoreUncorrelated = FALSE
  InOrder = TRUE
  LateArrivals = FALSE
  MaxBroken = 1
  MaxCuts = 1
INVARIANTS FailedUploadIsRetried
