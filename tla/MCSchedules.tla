----------------------------- MODULE MCSchedules -----------------------------
(* Schedules for TLC.                                                        *)
EXTENDS Schedules, TLC

Symmetry == Permutations(Id) \cup Permutations(Proc) \cup Permutations(User)
=============================================================================
