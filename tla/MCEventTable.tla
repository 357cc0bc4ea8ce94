---------------------------- MODULE MCEventTable ----------------------------
(* Instances of EventTable for TLC.                                        *)
EXTENDS EventTable, TLC

ThreadSymmetry == Permutations(Users) \cup Permutations(Pollers)
=============================================================================
