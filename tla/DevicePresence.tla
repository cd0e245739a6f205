--------------------------- MODULE DevicePresence ---------------------------
(***************************************************************************)
(* Which desktop apps are connected: DevicesRegistry, the two maps in      *)
(* memory, and DevicesGateway, whose handlers keep them.                   *)
(*                                                                         *)
(* handleConnection waits once, for the session row: until it resumes the  *)
(* socket may close, send messages, or be kicked by a login, and none of   *)
(* the three finds anything to undo.  What it does once resumed (the       *)
(* rooms, the registry, the event) is one step: its other awaits wait for  *)
(* no input.  A refused token leaves no trace and is not modelled.         *)
(*                                                                         *)
(* A user has one electron session (see ElectronSessions), so the user     *)
(* stands for the sid, and the row is the device it is bound to.  Requests *)
(* of one user overlap: there is no lock, and the last save of the whole   *)
(* session decides where the user is.  A save is one step here, its two    *)
(* statements are in ElectronSessions.                                     *)
(***************************************************************************)
EXTENDS Naturals, FiniteSets

CONSTANTS
    User,
    Device,
    Socket,   \* socket ids, each used by one connection
    Request,  \* slots for the logins and refreshes in flight
    LogsIn,   \* LogsIn[u]: the devices user u logs in from
    None

VARIABLES
    session,   \* session[u]: deviceId of the live session of u, or None
    request,   \* request[p]: the login or refresh that runs in slot p
    crossed,   \* users two of whose requests in flight overlapped (history)
    sock,      \* sock[s]: the connection and how far handleConnection got
    byDevice,  \* byDevice[d]: socketId of the presence kept for device d
    bySocket,  \* the keys of the map bySocket
    presence,  \* presence[s]: the object set() stored for socket s
    connects,  \* the time, as far as connectedAt tells it
    view,      \* view[u]: the last 'device:presence' sent to the room of u
    told,      \* the users this process has sent one (history)
    late       \* sockets that a login could not kick (history)

requests == <<session, request, crossed>>
registry == <<byDevice, bySocket, presence, connects, view, told>>
vars == <<requests, sock, late, registry>>

-----------------------------------------------------------------------------
Presence == [deviceId: Device, userId: User, connectedAt: Nat,
             onShift: BOOLEAN, onLunch: BOOLEAN]

\* Who has the place of a device, as FollowsPlaces sees it.
Place == [socket: Socket, userId: User, onShift: BOOLEAN, onLunch: BOOLEAN]

ASSUME PresenceAssumption ==
    /\ None \notin User \cup Device \cup Socket
    /\ None \notin Presence /\ None \notin Place
    /\ LogsIn \in [User -> SUBSET Device]

IndicatorType == [connected: BOOLEAN, onShift: BOOLEAN, onLunch: BOOLEAN]

Connection ==
    [stage: {"none", "web", "query", "loaded", "in", "gone"},
     open: BOOLEAN,               \* client.connected
     user: User \cup {None},      \* sub of the access token
     device: Device \cup {None}]  \* session.deviceId, once loaded
NoConnection == [stage |-> "none", open |-> FALSE, user |-> None, device |-> None]
Gone == [NoConnection EXCEPT !.stage = "gone"]

\* What a login or a refresh does next, and the device it saves.
Handler == [stage: {"none", "revoke", "kick", "upsert", "save"},
            user: User \cup {None}, device: Device \cup {None}]
NoRequest == [stage |-> "none", user |-> None, device |-> None]

Nobody == [connected |-> FALSE, onShift |-> FALSE, onLunch |-> FALSE]

TypeOK ==
    /\ session \in [User -> Device \cup {None}]
    /\ request \in [Request -> Handler]
    /\ crossed \subseteq User
    /\ sock \in [Socket -> Connection]
    /\ byDevice \in [Device -> Socket \cup {None}]
    /\ bySocket \subseteq Socket
    /\ presence \in [Socket -> Presence \cup {None}]
    /\ connects \in Nat
    /\ view \in [User -> IndicatorType]
    /\ told \subseteq User
    /\ late \subseteq Socket

\* The maps of a process that has just started.
NoDevice == [d \in Device |-> None]
NoPresence == [s \in Socket |-> None]
NothingSent == [u \in User |-> Nobody]

Init ==
    /\ session = [u \in User |-> None]
    /\ request = [p \in Request |-> NoRequest] /\ crossed = {}
    /\ sock = [s \in Socket |-> NoConnection]
    /\ byDevice = NoDevice /\ bySocket = {} /\ presence = NoPresence
    /\ view = NothingSent /\ told = {}
    /\ connects = 0
    /\ late = {}

-----------------------------------------------------------------------------
(* DevicesRegistry.                                                         *)

\* The presences of user u in byDevice, by device.
MyPresences(u) ==
    [d \in {e \in Device : byDevice[e] # None /\ presence[byDevice[e]].userId = u}
        |-> presence[byDevice[d]]]

\* getByUser: the latest of the presences f.
Latest(f) ==
    f[CHOOSE d \in DOMAIN f : \A e \in DOMAIN f : f[e].connectedAt <= f[d].connectedAt]

\* emitPresence: what it sends of the presences f.
Payload(f) ==
    IF DOMAIN f = {} THEN Nobody
    ELSE [connected |-> TRUE, onShift |-> Latest(f).onShift, onLunch |-> Latest(f).onLunch]
Indicator(u) == Payload(MyPresences(u))

\* emitPresence for the users us, after the maps changed.
EmitPresence(us) ==
    /\ view' = [u \in User |-> IF u \in us THEN Indicator(u)' ELSE view[u]]
    /\ told' = told \cup us

\* Mutant: the old socket of the device stays in bySocket.
SetKeepingOld(s, p) ==
    /\ bySocket' = bySocket \cup {s}
    /\ byDevice' = [byDevice EXCEPT ![p.deviceId] = s]
    /\ presence' = [presence EXCEPT ![s] = p]
    /\ EmitPresence({p.userId})

\* set(p) for socket s.
Set(s, p) ==
    /\ bySocket' = (bySocket \ {byDevice[p.deviceId]}) \cup {s}
    /\ byDevice' = [byDevice EXCEPT ![p.deviceId] = s]
    /\ presence' = [presence EXCEPT ![s] = p]
    /\ EmitPresence({p.userId})

\* Mutant: a presence is deleted and nobody is told.
DeleteSilently(K) ==
    /\ bySocket' = bySocket \ K
    /\ byDevice' = [d \in Device |-> IF byDevice[d] \in K THEN None ELSE byDevice[d]]
    /\ UNCHANGED <<presence, view, told>>

\* deleteBySocket for every socket of K.
Stale(s) == byDevice[presence[s].deviceId] # s
DeleteBySocket(K) ==
    LET Dropped == {s \in K \cap bySocket : ~Stale(s)} IN
    /\ bySocket' = bySocket \ K
    /\ byDevice' = [d \in Device |->
            IF \E s \in Dropped : presence[s].deviceId = d THEN None ELSE byDevice[d]]
    /\ presence' = presence
    /\ EmitPresence({presence[s].userId : s \in Dropped})

\* Mutant: the presence is found by its device, not by the socket that speaks.
MutateOfDevice(s, p) ==
    IF presence[s] # None /\ byDevice[p.deviceId] # None
    THEN /\ presence' = [presence EXCEPT ![byDevice[p.deviceId]].onShift = p.onShift,
                                         ![byDevice[p.deviceId]].onLunch = p.onLunch]
         /\ UNCHANGED <<byDevice, bySocket>>
         /\ EmitPresence({p.userId})
    ELSE UNCHANGED <<byDevice, bySocket, presence, view, told>>

\* setOnShift and setOnLunch replace the presence of s by p, when s has one.
Mutate(s, p) ==
    \/ /\ s \in bySocket
       /\ presence' = [presence EXCEPT ![s] = p]
       /\ UNCHANGED <<byDevice, bySocket>>
       /\ EmitPresence({p.userId})
    \/ /\ s \notin bySocket
       /\ UNCHANGED <<byDevice, bySocket, presence, view, told>>

OnShift(p, onShift) ==
    [p EXCEPT !.onShift = onShift, !.onLunch = p.onLunch /\ onShift]
OnLunch(p, onLunch) ==
    [p EXCEPT !.onLunch = onLunch /\ p.onShift]

-----------------------------------------------------------------------------
(* DevicesGateway.                                                          *)

\* handleConnection up to the lookup of the session; a web token has no sid.
Connect(s, u, web) ==
    /\ sock[s].stage = "none"
    /\ sock' = [sock EXCEPT ![s] =
            [stage |-> IF web THEN "web" ELSE "query", open |-> TRUE, user |-> u,
             device |-> None]]
    /\ UNCHANGED <<requests, late, registry>>

\* PostgreSQL answers the query.
QuerySession(s) ==
    /\ sock[s].stage = "query"
    /\ sock' = [sock EXCEPT ![s].stage = "loaded", ![s].device = session[sock[s].user]]
    /\ UNCHANGED <<requests, late, registry>>

\* The query failed, or the session is not live: client.disconnect(true), and
\* handleDisconnect finds no presence.
Refuse(s) ==
    /\ \/ sock[s].stage = "query"
       \/ sock[s].stage = "loaded" /\ sock[s].device = None
    /\ sock' = [sock EXCEPT ![s] = Gone]
    /\ UNCHANGED <<requests, late, registry>>

NewPresence(c, shiftAware) ==
    [deviceId |-> c.device, userId |-> c.user, connectedAt |-> connects + 1,
     onShift |-> ~shiftAware, onLunch |-> FALSE]

\* handleConnection resumes with the row; the app said in its handshake whether
\* it reports its shifts.
Register(s, shiftAware) ==
    /\ sock[s].stage = "loaded"
    /\ sock[s].device # None
    /\ sock' = [sock EXCEPT ![s].stage = "in"]
    /\ Set(s, NewPresence(sock[s], shiftAware))
    /\ connects' = connects + 1
    /\ UNCHANGED <<requests, late>>

\* A message of an app that is connected, registered or not.
Talks(s) == sock[s].open /\ sock[s].stage \in {"query", "loaded", "in"}

HandleShiftState(s, onShift) ==
    /\ Talks(s)
    /\ Mutate(s, OnShift(presence[s], onShift))
    /\ UNCHANGED <<requests, sock, late, connects>>

HandleLunchState(s, onLunch) ==
    /\ Talks(s)
    /\ Mutate(s, OnLunch(presence[s], onLunch))
    /\ UNCHANGED <<requests, sock, late, connects>>

\* Connection c closes; a handleConnection that waits keeps what it has.
Closed(c) ==
    IF c.stage \in {"in", "web"} THEN Gone ELSE [c EXCEPT !.open = FALSE]

\* The sockets K close, and handleDisconnect runs for each.
Disconnect(K) ==
    /\ sock' = [s \in Socket |-> IF s \in K THEN Closed(sock[s]) ELSE sock[s]]
    /\ DeleteBySocket({s \in K : sock[s].stage # "web"})

\* Mutant: the disconnect deletes the presence of its device, whoever holds it.
DisconnectDevice(s) ==
    /\ sock[s].open
    /\ sock' = [sock EXCEPT ![s] = Closed(sock[s])]
    /\ byDevice' = [d \in Device |-> IF d = sock[s].device THEN None ELSE byDevice[d]]
    /\ bySocket' = {t \in bySocket : presence[t].deviceId # sock[s].device}
    /\ UNCHANGED <<requests, late, presence, connects, view, told>>

HandleDisconnect(s) ==
    /\ sock[s].open
    /\ Disconnect({s})
    /\ late' = late \ {s}
    /\ UNCHANGED <<requests, connects>>

-----------------------------------------------------------------------------
(* What AuthService does to the session and its sockets.                    *)

\* The sockets of u whose session was found: they are, or will be, registered.
Admitted(u) ==
    {s \in Socket : sock[s].open /\ sock[s].user = u /\ sock[s].device # None
                        /\ sock[s].stage \in {"loaded", "in"}}

Serving(u) == {p \in Request : request[p].user = u}
Goes(p, stage) == request' = [request EXCEPT ![p].stage = stage]
Ends(p) == request' = [request EXCEPT ![p] = NoRequest]

\* A request of u is received in slot p.
Receive(p, u, stage, d) ==
    /\ request[p] = NoRequest
    /\ request' = [request EXCEPT ![p] = [stage |-> stage, user |-> u, device |-> d]]
    /\ crossed' = IF Serving(u) = {} THEN crossed \ {u} ELSE crossed \cup {u}

\* A login that finds a live session revokes it first; without one it goes on to
\* the upsert, and leaves the sockets of a session that was logged out.
LoginFind(p, u, d) ==
    /\ Receive(p, u, IF session[u] # None THEN "revoke" ELSE "upsert", d)
    /\ late' = IF session[u] # None THEN late ELSE late \cup Admitted(u)
    /\ UNCHANGED <<session, sock, registry>>

\* Mutant: the session is overwritten, and nobody is kicked.
LoginRevokeSilently(p) ==
    /\ request[p].stage = "revoke"
    /\ Goes(p, "upsert")
    /\ session' = [session EXCEPT ![request[p].user] = None]
    /\ UNCHANGED <<crossed, sock, late, registry>>

LoginRevoke(p) ==
    /\ request[p].stage = "revoke"
    /\ Goes(p, "kick")
    /\ session' = [session EXCEPT ![request[p].user] = None]
    /\ UNCHANGED <<crossed, sock, late, registry>>

\* disconnectSid: the sockets in the room sid:{sid}.
Room(u) == {s \in Socket : sock[s].open /\ sock[s].stage = "in" /\ sock[s].user = u}

\* A socket whose lookup was answered before has not joined the room yet.
LoginKick(p) ==
    LET u == request[p].user IN
    /\ request[p].stage = "kick"
    /\ Goes(p, "upsert")
    /\ Disconnect(Room(u))
    /\ late' = (late \cup Admitted(u)) \ Room(u)
    /\ UNCHANGED <<session, crossed, connects>>

\* The session of p is saved, active and with the device p has in memory; a
\* request that another one crossed may move the user away from a connected app.
SaveSession(p) ==
    LET u == request[p].user
        d == request[p].device
    IN  /\ session' = [session EXCEPT ![u] = d]
        /\ late' = IF u \in crossed
                   THEN late \cup {s \in Admitted(u) : sock[s].device # d} ELSE late
        /\ UNCHANGED <<crossed, sock, registry>>

\* The upsert of a login; once the tokens are signed it saves the session again.
LoginActivate(p) == request[p].stage = "upsert" /\ Goes(p, "save") /\ SaveSession(p)
LastSave(p) == request[p].stage = "save" /\ Ends(p) /\ SaveSession(p)

\* A refresh loads the live session, and saves it whole when it has rotated.
Refresh(p, u) ==
    /\ session[u] # None
    /\ Receive(p, u, "save", session[u])
    /\ UNCHANGED <<session, sock, late, registry>>

\* A query fails, or a refresh is refused and saves nothing.
Fail(p) ==
    /\ request[p].stage \in {"revoke", "upsert", "save"}
    /\ Ends(p)
    /\ UNCHANGED <<session, crossed, sock, late, registry>>

\* A logout, or a refresh that revokes.
Logout(u) ==
    /\ session[u] # None
    /\ session' = [session EXCEPT ![u] = None]
    /\ UNCHANGED <<request, crossed, sock, late, registry>>

\* The process restarts: the registry is empty and every socket is gone.  Nothing
\* is sent to the browsers, which show what they were told last.
Restart ==
    /\ sock' = [s \in Socket |->
            IF sock[s].stage = "none" THEN NoConnection ELSE Gone]
    /\ byDevice' = NoDevice /\ bySocket' = {} /\ presence' = NoPresence
    /\ request' = [p \in Request |-> NoRequest] /\ crossed' = {}
    /\ told' = {} /\ late' = {}
    /\ UNCHANGED <<session, connects, view>>

Next ==
    \/ \E s \in Socket :
        \/ \E u \in User, web \in BOOLEAN : Connect(s, u, web)
        \/ QuerySession(s) \/ Refuse(s)
        \/ \E b \in BOOLEAN : Register(s, b) \/ HandleShiftState(s, b) \/ HandleLunchState(s, b)
        \/ HandleDisconnect(s)
    \/ \E p \in Request :
        \/ \E u \in User : Refresh(p, u) \/ \E d \in LogsIn[u] : LoginFind(p, u, d)
        \/ LoginRevoke(p) \/ LoginKick(p) \/ LoginActivate(p) \/ LastSave(p) \/ Fail(p)
    \/ \E u \in User : Logout(u)
    \/ Restart

Spec == Init /\ [][Next]_vars

-----------------------------------------------------------------------------
(* Properties.                                                              *)

\* The two maps hold the same presences, one per device: set() and
\* deleteBySocket() never leave an entry in one map that the other lost, in
\* whatever order the sockets of a device come and go.
MapsAgree ==
    /\ \A s \in bySocket : presence[s] # None /\ ~Stale(s)
    /\ \A d \in Device : byDevice[d] # None =>
            byDevice[d] \in bySocket /\ presence[byDevice[d]].deviceId = d

\* Nobody is in lunch out of a shift, whatever the order of the messages.
LunchNeedsShift ==
    \A s \in bySocket : presence[s].onLunch => presence[s].onShift

\* A device loses its presence only with the socket that held it: the late
\* disconnect of an older socket of the same device takes nothing away.
LostOnlyWithItsSocket ==
    [][\A d \in Device : byDevice[d] # None /\ byDevice'[d] = None
            => ~sock'[byDevice[d]].open]_vars

\* A user whom this process has sent a 'device:presence' was told last what the
\* registry would answer now; a user it has not sent one has nothing in the
\* registry, and a browser open since an earlier process may show otherwise.
IndicatorCurrent ==
    \A u \in User :
        IF u \in told THEN view[u] = Indicator(u) ELSE Indicator(u) = Nobody

\* An app that is connected is in the registry, unless a later connection of the
\* same device took its place: no disconnect, and no message, of another socket
\* makes it unreachable.
ConnectedIsKnown ==
    \A s \in Socket : sock[s].open /\ sock[s].stage = "in" /\ s \notin bySocket =>
        \E t \in Socket : /\ presence[t] # None
                          /\ presence[t].deviceId = sock[s].device
                          /\ presence[t].connectedAt > presence[s].connectedAt

\* Once a login has moved the session of a user to a device, no connected app is
\* in the registry for the user under another device, so that all who ask for the
\* user's device find the same: whatever the order of lookups, closes, logouts,
\* refreshes and failures, and again after any login that runs by itself.  Left out
\* are the sockets the login finds between their lookup and their room, those of
\* a session logged out before, and those that overlapping requests of the user
\* leave behind, for which the code has no lock.
OnePlace ==
    \A s \in bySocket \ late : sock[s].open
        => session[presence[s].userId] \in {None, presence[s].deviceId}

\* Who has device d, as getByDevice finds it.
PlaceOf(d) ==
    IF byDevice[d] = None THEN None
    ELSE LET p == presence[byDevice[d]]
         IN  [socket |-> byDevice[d], userId |-> p.userId,
              onShift |-> p.onShift, onLunch |-> p.onLunch]

Held == [d \in Device |-> PlaceOf(d)]
Connected == {s \in Socket : sock[s].open}
Unanswered == {s \in Socket : sock[s].stage \in {"none", "query", "loaded"}}

Places == INSTANCE DevicePlaces WITH place <- Held, open <- Connected, fresh <- Unanswered

\* The two maps, each of which may be ahead of the other while set() and
\* deleteBySocket() run, and the handlers that keep them do what one map would: a
\* connection that lost its device neither gets it back nor speaks for it, and a
\* device is free as soon as its connection closes, and not before.
FollowsPlaces == Places!Spec

\* Every presence is that of a connected socket.
PresenceIsConnected == \A d \in Device : byDevice[d] # None => sock[byDevice[d]].open
=============================================================================
