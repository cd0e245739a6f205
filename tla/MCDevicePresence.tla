-------------------------- MODULE MCDevicePresence --------------------------
(* DevicePresence for TLC: who logs in where, and the symmetries.           *)
EXTENDS DevicePresence, TLC

CONSTANTS u1, u2, d1, d2

\* Two users who take turns on one device.
Shared == u1 :> {d1} @@ u2 :> {d1}
\* One user, two devices.
Alone == u1 :> {d1, d2}

Symmetry == Permutations(Socket) \cup Permutations(Request)

\* Users who share the device may be swapped.
SharedSymmetry == Symmetry \cup Permutations(User)
=============================================================================
