------------------------- MODULE MCElectronSessions -------------------------
(* Instances of ElectronSessions for TLC: the slots and the devices are      *)
(* interchangeable, the tokens and the ticks are not.                        *)
EXTENDS ElectronSessions, TLC

Symmetry == Permutations(Request) \cup Permutations(Device)

=============================================================================
