--------------------------- MODULE MCLoginThrottle ---------------------------
(* LoginThrottle for TLC.  Liveness is checked, so there is no symmetry.     *)
EXTENDS LoginThrottle
=============================================================================
