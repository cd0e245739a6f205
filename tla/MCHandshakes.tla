---------------------------- MODULE MCHandshakes ----------------------------
(* Handshakes for TLC.  Liveness is checked, so there is no symmetry.        *)
EXTENDS Handshakes
=============================================================================
