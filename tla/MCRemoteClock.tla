---------------------------- MODULE MCRemoteClock ----------------------------
(* RemoteClock for TLC: what is interchangeable.                             *)
EXTENDS RemoteClock, TLC

Symmetry == Permutations(User) \cup Permutations(Nonce) \cup Permutations(Request)
=============================================================================
