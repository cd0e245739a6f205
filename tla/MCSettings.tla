----------------------------- MODULE MCSettings ------------------------------
(* Settings for TLC.                                                         *)
EXTENDS Settings, TLC

Symmetry == Permutations(Proc) \cup Permutations(Device)
=============================================================================
