--------------------------- MODULE MCLocalHandshake --------------------------
(* LocalHandshake for TLC: what is interchangeable.                          *)
EXTENDS LocalHandshake, TLC

Symmetry == Permutations(Device) \cup Permutations(Nonce)
=============================================================================
