----------------------------- MODULE RemoteClock -----------------------------
(***************************************************************************)
(* RemoteClockService and its controller: a user's Activity Report, or an  *)
(* admin who forces a clock out, sends a command to the user's desktop app *)
(* and waits for its ack.  Lunch commands first consume a nonce of         *)
(* LocalHandshake, which this module extends.                              *)
(*                                                                         *)
(* A handler waits twice, for the user's row and for the ack.  An ack that *)
(* comes when the handler has given up finds nobody.  Refusals of who the  *)
(* user is (inactive, not linked, another employee number) change nothing  *)
(* and are left out.                                                       *)
(***************************************************************************)
EXTENDS LocalHandshake

CONSTANT
    Request    \* one request each; never a value of the other constants

ASSUME RemoteClockAssumption == None \notin Request

VARIABLES
    inFlight,  \* the users with a command under way
    req        \* req[r]: a request and how far its handler got

clock == <<inFlight, req>>
vars == <<handshake, apps, clock>>

Kind == {"own", "forced"}   \* who asks: the user, or an admin
Handler == [at: {"idle", "find", "wait", "done"},
            kind: Kind \cup {None},
            user: User \cup {None},
            nonce: Nonce \cup {None}]    \* what a lunch command consumed
Idle == [at |-> "idle", kind |-> None, user |-> None, nonce |-> None]

TypeOK ==
    /\ LocalHandshakeTypeOK
    /\ inFlight \subseteq User
    /\ req \in [Request -> Handler]

Init ==
    /\ LocalHandshakeInit
    /\ inFlight = {}
    /\ req = [r \in Request |-> Idle]

Become(r, h) == req' = [req EXCEPT ![r] = h]
Asked(kind, u) == [Idle EXCEPT !.at = "find", !.kind = kind, !.user = u]

\* What a handler leaves behind is the nonce it consumed.
Over(h) == [Idle EXCEPT !.at = "done", !.nonce = h.nonce]
Done(r) == Become(r, Over(req[r]))

-----------------------------------------------------------------------------
\* A handler begins that waits for the user's row.
Begin(r, h) ==
    /\ req[r].at = "idle"
    /\ Become(r, h)
    /\ UNCHANGED <<inFlight, handshake, apps>>

\* POST /remote-clock for CLOCK_IN or CLOCK_OUT.
AskClock(r, u) == Begin(r, Asked("own", u))

\* An admin forces a clock out: the app is asked for the return from lunch first,
\* and for a screenshot.
ForcedLunchBack(r, u) == Begin(r, Asked("forced", u))
ForcedScreenshot(r, u) == Begin(r, Asked("forced", u))

\* POST /remote-clock for a lunch evaluates the nonce before anything else.
AskLunch(r, u, n) ==
    /\ req[r].at = "idle"
    /\ Evaluate(u, n)
    /\ IF Passes(u, n)
       THEN Become(r, [Asked("own", u) EXCEPT !.nonce = n])
       ELSE Become(r, Over(Asked("own", u)))
    /\ UNCHANGED <<inFlight, apps>>

\* Only the user's own commands take the lock.
Locks(r) == req[r].kind = "own"

\* The row is there and another command of the user is under way.
Busy(r) ==
    /\ req[r].at = "find" /\ Locks(r) /\ req[r].user \in inFlight
    /\ Done(r)
    /\ UNCHANGED <<inFlight, handshake, apps>>

\* There is no presence; what request() added to inFlight it deletes at once.
Unavailable(r) ==
    /\ req[r].at = "find" /\ (Locks(r) => req[r].user \notin inFlight)
    /\ ~Live(req[r].user)
    /\ Done(r)
    /\ UNCHANGED <<inFlight, handshake, apps>>

\* Mutant: a forced command takes the lock, and does not look at it.
EmitLockingAll(r) ==
    /\ req[r].at = "find" /\ (Locks(r) => req[r].user \notin inFlight)
    /\ Live(req[r].user)
    /\ inFlight' = inFlight \cup {req[r].user}
    /\ Become(r, [req[r] EXCEPT !.at = "wait"])
    /\ UNCHANGED <<handshake, apps>>

\* requestAck emits the command to the newest presence of the user.
Emit(r) ==
    /\ req[r].at = "find" /\ (Locks(r) => req[r].user \notin inFlight)
    /\ Live(req[r].user)
    /\ inFlight' = IF Locks(r) THEN inFlight \cup {req[r].user} ELSE inFlight
    /\ Become(r, [req[r] EXCEPT !.at = "wait"])
    /\ UNCHANGED <<handshake, apps>>

\* finally: request() gives back what it took.
Released(r) == IF Locks(r) THEN inFlight \ {req[r].user} ELSE inFlight

\* The ack, whatever it says, or no ack in time: the command is not taken back.
AckOrTimeout(r) ==
    /\ req[r].at = "wait"
    /\ Done(r)
    /\ inFlight' = Released(r)
    /\ UNCHANGED <<handshake, apps>>

\* The process restarts, and no handler goes on.
Restart ==
    /\ Forget
    /\ inFlight' = {}
    /\ req' = [r \in Request |-> IF req[r].at = "idle" THEN Idle ELSE Over(req[r])]

Resumes(r) == Busy(r) \/ Unavailable(r) \/ Emit(r) \/ AckOrTimeout(r)

Next ==
    \/ \E r \in Request :
        \/ \E u \in User :
            \/ AskClock(r, u) \/ ForcedLunchBack(r, u) \/ ForcedScreenshot(r, u)
            \/ \E n \in Nonce : AskLunch(r, u, n)
        \/ Resumes(r)
    \/ (HandshakeSteps \/ AppSteps) /\ UNCHANGED clock
    \/ Restart

Spec == Init /\ [][Next]_vars

-----------------------------------------------------------------------------
(* Properties.                                                              *)

Waiting(u) == {r \in Request : req[r].at = "wait" /\ Locks(r) /\ req[r].user = u}

\* A user is in inFlight exactly while one handler waits for the user's app: no
\* outcome leaks the lock, and no handler gives back the lock of another.
InFlightExact ==
    \A u \in User : /\ u \in inFlight <=> Waiting(u) # {}
                    /\ \A r, s \in Waiting(u) : r = s

\* Two lunch commands never rest on one nonce, however their requests overlap.
LunchOncePerNonce ==
    \A r, s \in Request : r # s /\ req[r].nonce # None => req[r].nonce # req[s].nonce
=============================================================================
