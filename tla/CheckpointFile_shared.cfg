SPECIFICATION Spec
CONSTANTS
  p1 = p1
  p2 = p2
  a = a
  b = b
  Procs <- TwoProcs
  Collectors <- TwoCollectors
  MaxTime = 2
INVARIANTS TypeOK EntriesAreSent NoLostUpdate UnreadableOnlyAfterKill
PROPERTIES UnreadableStays
SYMMETRY ProcSymmetry
