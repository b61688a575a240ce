-------------------------- MODULE MCCheckpointFile --------------------------
EXTENDS CheckpointFile, TLC

CONSTANTS p1, p2, a, b

TwoProcs == {p1, p2}
TwoCollectors == {a, b}
ProcSymmetry == Permutations({p1, p2})
=============================================================================
