---------------------------- MODULE MCScheduler ----------------------------
(* Instances of Scheduler for TLC.  Fibers are interchangeable: the safety *)
(* runs use that symmetry, the liveness run does not.                      *)
EXTENDS Scheduler

FiberSymmetry == Permutations(Fibers)
=============================================================================
