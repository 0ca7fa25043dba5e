--------------------------- MODULE MCEventStream ---------------------------
EXTENDS EventStream, TLC

RunSymmetry == Permutations(Runs)
=============================================================================
