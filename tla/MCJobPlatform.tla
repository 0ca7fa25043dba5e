--------------------------- MODULE MCJobPlatform ---------------------------
(* Instances of JobPlatform for TLC: the symmetry of jobs, workers and      *)
(* requests, which only the safety runs use.                                *)
EXTENDS JobPlatform, TLC

Symmetry == Permutations(Jobs) \cup Permutations(Workers) \cup Permutations(Requests)
=============================================================================
