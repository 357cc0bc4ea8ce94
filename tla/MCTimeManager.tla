--------------------------- MODULE MCTimeManager ---------------------------
(* Instances of TimeManager for TLC.                                       *)
EXTENDS TimeManager, TLC

ThreadSymmetry == Permutations(Users) \cup Permutations(Pollers)
=============================================================================
