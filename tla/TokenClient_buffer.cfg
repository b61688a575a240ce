SPECIFICATION Spec
CONSTANTS
  Lifetimes <- SomeLifetimes
  Buffer = 3
  MaxTime = 14
INVARIANTS TypeOK TokenArrivesLive ShortLivedIsFetchedAfresh
CHECK_DEADLOCK FALSE
