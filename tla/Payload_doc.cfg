SPECIFICATION Spec
CONSTANTS
  Year10000 = 5
  Beyond = 9
  Rank <- Alphabet
  MaxDepth = 3
  FieldMaps <- AllMaps
  Records <- RecordsFor
  MaxBatch = 2
  Shell <- ShellPaths
INVARIANTS TypeOK DocMatchesColumns RefusedForConflictsOnly OrdinaryRecordsNeverRaise SuccessNeedsEvidence
