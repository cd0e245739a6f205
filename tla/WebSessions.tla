----------------------------- MODULE WebSessions -----------------------------
(***************************************************************************)
(* The sessions of the web front: tokens without sid, and one column of    *)
(* the user's row, refreshTokenHash.  It composes the web branches of      *)
(* AuthService with the handlers of UsersService, which save that column   *)
(* with the rest of the row.                                               *)
(*                                                                         *)
(* The refresh tokens of a user agree in the 72 bytes that bcrypt reads    *)
(* (a header, and a payload that begins with the id): each of them matches *)
(* the hash of any other.  A hash is therefore set or not, and a client    *)
(* has a token of a user or not.                                           *)
(***************************************************************************)
EXTENDS Users

CONSTANT
    Client          \* slots for requests of the web front in flight

VARIABLES
    web,     \* web[q]: the handler that runs for client q
    held,    \* the users for whom some client got tokens
    closed   \* users who logged out, and have not logged in since (history)

webVars == <<users, born, handler, botEnabled, booting, served, meant, overlapped,
             behind, web, held, closed>>

-----------------------------------------------------------------------------
WebHandler ==
    [stage: {"idle", "store", "done"},
     user: User \cup {None},   \* whose session it is
     ok: BOOLEAN]              \* the answer carries tokens

NoCall == [stage |-> "idle", user |-> None, ok |-> FALSE]

TypeOK ==
    /\ UsersTypeOK
    /\ web \in [Client -> WebHandler]
    /\ held \subseteq User
    /\ closed \subseteq User

WebInit ==
    /\ UsersInit
    /\ web = [q \in Client |-> NoCall]
    /\ held = {}
    /\ closed = {}

Call(q, h) == web' = [web EXCEPT ![q] = h]

\* users.update({ id }, { refreshTokenHash }).
StoreHash(u, set) ==
    LET column == [refreshTokenHash |-> set] IN
    Write(None, u, With(users[u], column), With(meant[u], column))

UsersRest == UNCHANGED <<born, handler, botEnabled, booting, served, behind>>

-----------------------------------------------------------------------------
(* loginWeb(), and login() without a device.                                *)

\* Who may log in as number n with password w.
Matches(u, n, w) ==
    /\ users[u] # None
    /\ users[u]["employee_number"] = n
    /\ users[u]["isActive"]
    /\ users[u]["password"] = w

\* The active user with the number, compared with the password hash that came
\* with it.
WebLogin(q, n, w) ==
    /\ ~booting
    /\ web[q].stage = "idle"
    /\ \/ \E u \in User :
            /\ Matches(u, n, w)
            /\ Call(q, [NoCall EXCEPT !.stage = "store", !.user = u])
            /\ closed' = closed \ {u}
       \/ /\ \A u \in User : ~Matches(u, n, w)
          /\ Call(q, [NoCall EXCEPT !.stage = "done"])
          /\ UNCHANGED closed
    /\ WritesNothing
    /\ UsersRest
    /\ UNCHANGED held

-----------------------------------------------------------------------------
(* refresh() of a token without sid.                                        *)

\* Mutant: a row without a hash is not refused.
RefreshableUnset(u) == users[u] # None /\ users[u]["isActive"]

\* An active user with a hash.
Refreshable(u) ==
    users[u] # None /\ users[u]["isActive"] /\ users[u]["refreshTokenHash"]

WebRefresh(q, u) ==
    /\ ~booting
    /\ web[q].stage = "idle"
    /\ u \in held
    /\ Call(q, IF Refreshable(u) THEN [NoCall EXCEPT !.stage = "store", !.user = u]
               ELSE [NoCall EXCEPT !.stage = "done"])
    /\ WritesNothing
    /\ UsersRest
    /\ UNCHANGED <<held, closed>>

\* The tokens are signed and the hash is stored, for login and refresh alike;
\* a user who is gone gets a 404.
WebStore(q) ==
    LET h == web[q] IN
    /\ h.stage = "store"
    /\ \/ /\ users[h.user] # None
          /\ StoreHash(h.user, TRUE)
          /\ Call(q, [h EXCEPT !.stage = "done", !.ok = TRUE])
       \/ /\ users[h.user] = None
          /\ WritesNothing
          /\ Call(q, [h EXCEPT !.stage = "done"])
    /\ UsersRest
    /\ UNCHANGED <<held, closed>>

-----------------------------------------------------------------------------
(* logout() without a sid: the access token alone says who calls.           *)

\* Nobody else is about to write the hash of u.
Undisturbed(u) ==
    /\ \A p \in Request : ~Holds(p, u)
    /\ \A q \in Client : ~(web[q].stage = "store" /\ web[q].user = u)

WebLogout(q, u) ==
    /\ ~booting
    /\ web[q].stage = "idle"
    /\ u \in held
    /\ \/ /\ users[u] # None
          /\ StoreHash(u, FALSE)
          /\ closed' = IF Undisturbed(u) THEN closed \cup {u} ELSE closed
       \/ /\ users[u] = None
          /\ WritesNothing
          /\ UNCHANGED closed
    /\ Call(q, [NoCall EXCEPT !.stage = "done"])
    /\ UsersRest
    /\ UNCHANGED held

-----------------------------------------------------------------------------
\* The answer arrives, or is lost on the way.
WebReply(q) ==
    /\ web[q].stage = "done"
    /\ \/ held' = IF web[q].ok THEN held \cup {web[q].user} ELSE held
       \/ held' = held
    /\ Call(q, NoCall)
    /\ WritesNothing
    /\ UsersRest
    /\ UNCHANGED closed

Crash ==
    /\ UsersCrash
    /\ web' = [q \in Client |-> NoCall]
    /\ UNCHANGED <<held, closed>>

WebCall(q) ==
    \/ \E n \in Number, w \in Password : WebLogin(q, n, w)
    \/ \E u \in User : WebRefresh(q, u) \/ WebLogout(q, u)
    \/ WebStore(q) \/ WebReply(q)

Next ==
    \/ UsersStep /\ UNCHANGED <<web, held, closed>>
    \/ \E q \in Client : WebCall(q)
    \/ Crash

Spec == WebInit /\ [][Next]_webVars

-----------------------------------------------------------------------------
(* Properties.                                                              *)

\* A logout that nobody was about to undo lasts until the user logs in again:
\* no refresh with an old token, and no update of the account that begins
\* later, brings the session back.
LogoutLasts ==
    \A u \in closed : users[u] # None => ~users[u]["refreshTokenHash"]
=============================================================================
