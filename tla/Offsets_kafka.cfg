SPECIFICATION FairSpec
CONSTANTS
  Topic <- FourMessages
  KindOf <- Kinds7
  TimeOf <- Times7
  Unreadable = {3}
  MaxMessages = 3
  BatchSize = 2
  Limits = {0, 1, 3}
  MaxFaults = 2
  MaxDryRuns = 1
INVARIANTS TypeOK CopiesBounded
PROPERTIES OnlyDisturbedRunsLose LossesAreInHand EverySpanSettles
