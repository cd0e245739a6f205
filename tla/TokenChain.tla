------------------------------ MODULE TokenChain ------------------------------
(***************************************************************************)
(* What the session of a user promises about its refresh tokens: they form *)
(* a chain in the order of signing, on which the session never moves back. *)
(* Besides the current token it accepts at most one, the token that the    *)
(* last rotation replaced.                                                 *)
(***************************************************************************)
EXTENDS Naturals

CONSTANTS
    Token,    \* numbers, in the order of signing
    None      \* no token, and no number

VARIABLES
    current,   \* the token a refresh rotates, or None while nobody is logged in
    previous,  \* what the last rotation replaced, for a client that lost its answer
    used       \* every token that has been current

vars == <<current, previous, used>>

Init ==
    /\ current = None
    /\ previous = None
    /\ used = {}

\* Token t becomes current: none older than one that was.  Two tokens signed in
\* the same second are one token, so t may be the newest link itself.
Extend(t) ==
    /\ \A u \in used : u <= t
    /\ current' = t
    /\ used' = used \cup {t}

\* A login starts with nothing current; what the last rotation replaced stays.
Begin(t) ==
    /\ current = None
    /\ Extend(t)
    /\ UNCHANGED previous

\* A refresh with either of the two tokens.
Rotate(t) ==
    /\ {current, previous} # {None}
    /\ Extend(t)
    /\ previous' = current

\* A logout or a revocation; a suspect token takes the previous one along.
End ==
    /\ current' = None
    /\ previous' \in {previous, None}
    /\ UNCHANGED used

Next ==
    \/ \E t \in Token : Begin(t) \/ Rotate(t)
    \/ End

Spec == Init /\ [][Next]_vars
=============================================================================
