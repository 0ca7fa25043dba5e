---------------------------- MODULE MCEngineRun ----------------------------
(* Instances of EngineRun for TLC: jobs are interchangeable. *)
EXTENDS EngineRun, TLC

JobSymmetry == Permutations(Jobs)
=============================================================================
