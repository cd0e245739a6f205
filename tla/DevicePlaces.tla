----------------------------- MODULE DevicePlaces -----------------------------
(***************************************************************************)
(* What the registry of devices promises: every device has one place.  A   *)
(* connection takes the place of its device once, and whoever had it loses *)
(* it for good; only the connection that has the place speaks for the      *)
(* device; the place is free as soon as that connection closes, and        *)
(* closing any other frees nothing.  There is one map, and nothing in it   *)
(* can be out of date.                                                     *)
(***************************************************************************)
CONSTANTS User, Device, Socket, None

VARIABLES
    place,  \* place[d]: who has the place of device d, or None
    open,   \* connections that are open
    fresh   \* connections that may still take a place

vars == <<place, open, fresh>>

Empty == [d \in Device |-> None]
Has(s, d) == place[d] # None /\ place[d].socket = s

Init == place = Empty /\ open = {} /\ fresh = Socket

Open == place' = place /\ open \subseteq open' /\ open' \subseteq open \cup fresh

\* It may have closed before it is given the place, which it then keeps until the
\* next one takes it.
Newcomer == [socket: fresh \ fresh', userId: User, onShift: BOOLEAN, onLunch: {FALSE}]
Take(d) ==
    /\ place'[d] \in Newcomer
    /\ place' = [place EXCEPT ![d] = place'[d]]
    /\ open' = open

\* Nobody is in lunch out of a shift.
Said(p, q) ==
    \E b, c \in BOOLEAN :
        /\ c => b
        /\ q = [socket |-> p.socket, userId |-> p.userId, onShift |-> b, onLunch |-> c]
Say(s) ==
    /\ \A d \in Device :
        IF Has(s, d) THEN Said(place[d], place'[d]) ELSE place'[d] = place[d]
    /\ open' = open

Close ==
    /\ place' = [d \in Device |-> IF \E s \in open \ open' : Has(s, d) THEN None ELSE place[d]]
    /\ open' \subseteq open

\* The process starts again.
Restart == place' = Empty /\ open' = {}

Next ==
    /\ fresh' \subseteq fresh
    /\ \/ Open \/ Close \/ Restart
       \/ \E d \in Device : Take(d)
       \/ \E s \in open : Say(s)

Spec == Init /\ [][Next]_vars

\* What follows: a connection has one place at most, and none before it is admitted.
OnePlaceEach ==
    \A s \in Socket, d \in Device : Has(s, d) =>
        s \notin fresh /\ \A e \in Device : Has(s, e) => e = d
=============================================================================
