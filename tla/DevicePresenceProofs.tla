------------------------ MODULE DevicePresenceProofs ------------------------
(***************************************************************************)
(* Proofs about DevicePresence, for any number of users, devices and       *)
(* sockets.  The maps are treated first, by the operation of the registry  *)
(* that changes them; then the steps of the gateway and of AuthService,    *)
(* each of which calls at most one such operation.                         *)
(***************************************************************************)
EXTENDS DevicePresence, WellFoundedInduction, TLAPS

-----------------------------------------------------------------------------
(* The payload is well formed, for getByUser finds a latest presence.        *)

LEMMA LeastOf ==
    ASSUME NEW T \in SUBSET Nat, T # {}
    PROVE  \E m \in T : \A n \in T : m <= n
<1>1. PICK m \in T : \A n \in T : ~ (<<n, m>> \in OpToRel(<, Nat))
  BY NatLessThanWellFounded, WFMin
<1>2. \A n \in T : ~(n < m)
  BY <1>1 DEF OpToRel
<1> QED BY <1>2

LEMMA PayloadTyped ==
    ASSUME NEW f, \A d \in DOMAIN f : f[d] \in Presence,
           NEW n \in Nat, \A d \in DOMAIN f : f[d].connectedAt <= n
    PROVE  Payload(f) \in IndicatorType
<1>1. CASE DOMAIN f = {}
  BY <1>1 DEF Payload, Nobody, IndicatorType
<1>2. CASE DOMAIN f # {}
  <2> DEFINE T == {n - f[d].connectedAt : d \in DOMAIN f}
             Last(d) == d \in DOMAIN f /\
                        \A e \in DOMAIN f : f[e].connectedAt <= f[d].connectedAt
  <2>1. \A d \in DOMAIN f : f[d].connectedAt \in Nat
    BY DEF Presence
  <2>2. T \in SUBSET Nat /\ T # {}
    BY <1>2, <2>1
  <2> HIDE DEF T
  <2>3. PICK m \in T : \A k \in T : m <= k
    BY <2>2, LeastOf
  <2>4. PICK d \in DOMAIN f : m = n - f[d].connectedAt
    BY <2>3 DEF T
  <2>5. ASSUME NEW e \in DOMAIN f PROVE f[e].connectedAt <= f[d].connectedAt
    <3>1. n - f[e].connectedAt \in T
      BY DEF T
    <3> QED BY <2>1, <2>3, <2>4, <3>1
  <2>6. Latest(f) \in Presence
    <3>1. \E x \in DOMAIN f : \A e \in DOMAIN f : f[e].connectedAt <= f[x].connectedAt
      BY <2>5
    <3>2. (CHOOSE x \in DOMAIN f : \A e \in DOMAIN f : f[e].connectedAt <= f[x].connectedAt)
            \in DOMAIN f
      BY <3>1
    <3> QED BY <3>2 DEF Latest
  <2> QED BY <1>2, <2>6 DEF Payload, IndicatorType, Presence
<1> QED BY <1>1, <1>2

-----------------------------------------------------------------------------
(* The maps.                                                                 *)

Maps ==
    /\ byDevice \in [Device -> Socket \cup {None}]
    /\ bySocket \subseteq Socket
    /\ presence \in [Socket -> Presence \cup {None}]
    /\ connects \in Nat
    /\ view \in [User -> IndicatorType] /\ told \subseteq User
    /\ MapsAgree
    /\ LunchNeedsShift
    /\ \A s \in bySocket : presence[s].connectedAt <= connects

\* What emitPresence sends is well formed when the maps are.
LEMMA EmitTyped ==
    ASSUME view \in [User -> IndicatorType], told \subseteq User, connects' \in Nat,
           NEW us, us \subseteq User, EmitPresence(us),
           \A d \in Device : byDevice'[d] # None =>
                /\ presence'[byDevice'[d]] \in Presence
                /\ presence'[byDevice'[d]].connectedAt <= connects'
    PROVE  view' \in [User -> IndicatorType] /\ told' \subseteq User
<1>1. ASSUME NEW u \in User PROVE Indicator(u)' \in IndicatorType
  <2> DEFINE D == {e \in Device : byDevice'[e] # None /\ presence'[byDevice'[e]].userId = u}
             f == [d \in D |-> presence'[byDevice'[d]]]
  <2>1. \A d \in DOMAIN f : f[d] \in Presence /\ f[d].connectedAt <= connects'
    OBVIOUS
  <2>2. MyPresences(u)' = f
    BY DEF MyPresences
  <2> HIDE DEF f
  <2>3. Payload(f) \in IndicatorType
    BY <2>1, PayloadTyped
  <2> QED BY <2>2, <2>3 DEF Indicator
<1> QED BY <1>1 DEF EmitPresence

\* set() on a socket that has no presence yet.
LEMMA SetMaps ==
    ASSUME Maps, NEW s \in Socket, s \notin bySocket, NEW p \in Presence, Set(s, p),
           connects' = connects + 1, p.connectedAt = connects + 1, ~p.onLunch
    PROVE  Maps'
<1> DEFINE d == p.deviceId
<1>1. /\ None \notin Socket /\ d \in Device /\ p # None /\ d = p.deviceId
      /\ bySocket' = (bySocket \ {byDevice[d]}) \cup {s}
      /\ byDevice' = [byDevice EXCEPT ![d] = s]
      /\ presence' = [presence EXCEPT ![s] = p]
      /\ EmitPresence({p.userId})
  BY PresenceAssumption DEF Set, Presence
<1> HIDE DEF d
<1>2. /\ byDevice' \in [Device -> Socket \cup {None}]
      /\ bySocket' \subseteq Socket
      /\ presence' \in [Socket -> Presence \cup {None}]
      /\ connects' \in Nat
  BY <1>1 DEF Maps
<1>3. ASSUME NEW t \in bySocket'
      PROVE  /\ presence'[t] # None /\ byDevice'[presence'[t].deviceId] = t
             /\ presence'[t].onLunch => presence'[t].onShift
             /\ presence'[t].connectedAt <= connects'
  <2>1. CASE t = s
    BY <1>1, <2>1 DEF Maps
  <2>2. CASE t # s
    <3>1. t \in bySocket /\ t # byDevice[d] /\ t \in Socket /\ presence'[t] = presence[t]
      BY <1>1, <2>2 DEF Maps
    <3>2. presence[t] # None /\ byDevice[presence[t].deviceId] = t /\ presence[t] \in Presence
      BY <3>1 DEF Maps, MapsAgree, Stale
    <3>3. presence[t].connectedAt <= connects /\ presence[t].connectedAt \in Nat
          /\ connects \in Nat
      BY <3>1, <3>2 DEF Maps, Presence
    <3>4. presence[t].onLunch => presence[t].onShift
      BY <3>1 DEF Maps, LunchNeedsShift
    <3>5. presence[t].deviceId # d /\ presence[t].deviceId \in Device
      BY <3>1, <3>2 DEF Presence
    <3> QED BY <1>1, <3>1, <3>2, <3>3, <3>4, <3>5 DEF Maps
  <2> QED BY <2>1, <2>2
<1>4. ASSUME NEW e \in Device, byDevice'[e] # None
      PROVE  byDevice'[e] \in bySocket' /\ presence'[byDevice'[e]].deviceId = e
  <2>1. CASE e = d
    BY <1>1, <2>1 DEF Maps
  <2>2. CASE e # d
    <3>1. byDevice'[e] = byDevice[e]
      BY <1>1, <2>2 DEF Maps
    <3>2. byDevice[e] \in bySocket /\ presence[byDevice[e]].deviceId = e
      BY <1>4, <3>1 DEF Maps, MapsAgree
    <3>3. byDevice[e] # byDevice[d]
      BY <1>1, <1>4, <2>2, <3>1, <3>2 DEF Maps, MapsAgree
    <3> QED BY <1>1, <3>1, <3>2, <3>3 DEF Maps
  <2> QED BY <2>1, <2>2
<1>5. view' \in [User -> IndicatorType] /\ told' \subseteq User
  <2>1. view \in [User -> IndicatorType] /\ told \subseteq User /\ {p.userId} \subseteq User
    BY DEF Maps, Presence
  <2>2. ASSUME NEW e \in Device, byDevice'[e] # None
        PROVE  /\ presence'[byDevice'[e]] \in Presence
               /\ presence'[byDevice'[e]].connectedAt <= connects'
    BY <1>2, <1>3, <1>4, <2>2
  <2> QED BY <1>1, <1>2, <2>1, <2>2, EmitTyped
<1> QED BY <1>2, <1>3, <1>4, <1>5 DEF Maps, MapsAgree, LunchNeedsShift, Stale

LEMMA DeleteMaps ==
    ASSUME Maps, NEW K \in SUBSET Socket, DeleteBySocket(K), UNCHANGED connects
    PROVE  /\ Maps'
           /\ bySocket' = bySocket \ K
           /\ \A d \in Device : byDevice'[d] = IF byDevice[d] \in K THEN None ELSE byDevice[d]
<1> DEFINE Dropped == {s \in K \cap bySocket : ~Stale(s)}
<1>1. /\ bySocket' = bySocket \ K
      /\ byDevice' = [d \in Device |->
            IF \E s \in Dropped : presence[s].deviceId = d THEN None ELSE byDevice[d]]
      /\ presence' = presence /\ connects' = connects
      /\ EmitPresence({presence[s].userId : s \in Dropped})
  BY DEF DeleteBySocket
<1>2. ASSUME NEW d \in Device
      PROVE  (\E s \in Dropped : presence[s].deviceId = d) <=> byDevice[d] \in K
  <2>1. ASSUME NEW s \in Dropped, presence[s].deviceId = d PROVE byDevice[d] \in K
    BY <2>1 DEF Stale
  <2>2. ASSUME byDevice[d] \in K PROVE \E s \in Dropped : presence[s].deviceId = d
    <3>1. byDevice[d] # None
      BY <2>2, PresenceAssumption
    <3>2. byDevice[d] \in bySocket /\ presence[byDevice[d]].deviceId = d
      BY <3>1 DEF Maps, MapsAgree
    <3> QED BY <2>2, <3>2 DEF Stale
  <2> QED BY <2>1, <2>2
<1>3. \A d \in Device : byDevice'[d] = IF byDevice[d] \in K THEN None ELSE byDevice[d]
  <2> TAKE d \in Device
  <2> HIDE DEF Dropped
  <2> QED BY <1>1, <1>2
<1>4. byDevice' \in [Device -> Socket \cup {None}]
  <2> HIDE DEF Dropped
  <2>1. \A d \in Device : byDevice'[d] \in Socket \cup {None}
    BY <1>3 DEF Maps
  <2> QED BY <1>1, <2>1
<1>5. MapsAgree'
  <2>1. ASSUME NEW s \in bySocket'
        PROVE  presence'[s] # None /\ byDevice'[presence'[s].deviceId] = s
    <3>1. s \in bySocket /\ s \notin K /\ s \in Socket
      BY <1>1, <2>1 DEF Maps
    <3>2. presence[s] # None /\ byDevice[presence[s].deviceId] = s /\ presence[s] \in Presence
      BY <3>1 DEF Maps, MapsAgree, Stale
    <3> QED BY <1>1, <1>3, <3>1, <3>2 DEF Presence
  <2>2. ASSUME NEW d \in Device, byDevice'[d] # None
        PROVE  byDevice'[d] \in bySocket' /\ presence'[byDevice'[d]].deviceId = d
    <3>1. byDevice'[d] = byDevice[d] /\ byDevice[d] \notin K
      BY <1>3, <2>2
    <3>2. byDevice[d] \in bySocket /\ presence[byDevice[d]].deviceId = d
      BY <2>2, <3>1 DEF Maps, MapsAgree
    <3> QED BY <1>1, <3>1, <3>2
  <2> QED BY <2>1, <2>2 DEF MapsAgree, Stale
<1>6. /\ LunchNeedsShift'
      /\ \A s \in bySocket' : presence'[s].connectedAt <= connects'
      /\ bySocket' \subseteq Socket /\ connects' \in Nat
      /\ presence' \in [Socket -> Presence \cup {None}]
  <2> HIDE DEF Dropped
  <2> QED BY <1>1 DEF Maps, LunchNeedsShift
<1>7. view' \in [User -> IndicatorType] /\ told' \subseteq User
  <2> DEFINE us == {presence[s].userId : s \in Dropped}
  <2>1. view \in [User -> IndicatorType] /\ told \subseteq User /\ connects' \in Nat
    BY <1>6 DEF Maps
  <2>4. us \subseteq User
    <3>1. \A s \in bySocket : presence[s].userId \in User
      BY DEF Maps, MapsAgree, Presence
    <3> QED BY <3>1
  <2>2. ASSUME NEW e \in Device, byDevice'[e] # None
        PROVE  /\ presence'[byDevice'[e]] \in Presence
               /\ presence'[byDevice'[e]].connectedAt <= connects'
    <3>1. byDevice'[e] \in bySocket' /\ byDevice'[e] \in Socket
      BY <1>5, <1>6, <2>2 DEF MapsAgree
    <3>2. presence'[byDevice'[e]] # None
      BY <1>5, <3>1 DEF MapsAgree
    <3> QED BY <1>6, <3>1, <3>2
  <2>3. EmitPresence(us)
    BY <1>1
  <2> HIDE DEF us
  <2> QED BY <2>1, <2>2, <2>3, <2>4, EmitTyped
<1> QED BY <1>1, <1>3, <1>4, <1>5, <1>6, <1>7 DEF Maps

\* setOnShift and setOnLunch: p is the presence of s but for the two flags.
LEMMA MutateMaps ==
    ASSUME Maps, NEW s \in Socket, NEW p, Mutate(s, p), UNCHANGED connects,
           s \in bySocket =>
                /\ p \in Presence /\ p.deviceId = presence[s].deviceId
                /\ p.connectedAt = presence[s].connectedAt /\ (p.onLunch => p.onShift)
    PROVE  Maps' /\ UNCHANGED <<byDevice, bySocket>>
<1>1. CASE s \in bySocket
  <2>1. /\ presence' = [presence EXCEPT ![s] = p] /\ connects' = connects
        /\ byDevice' = byDevice /\ bySocket' = bySocket /\ EmitPresence({p.userId})
        /\ p \in Presence /\ p.deviceId = presence[s].deviceId /\ p # None
        /\ p.connectedAt = presence[s].connectedAt /\ (p.onLunch => p.onShift)
    BY <1>1, PresenceAssumption DEF Mutate
  <2>2. presence' \in [Socket -> Presence \cup {None}]
    BY <2>1 DEF Maps
  <2>3. ASSUME NEW t \in bySocket
        PROVE  /\ presence'[t] # None /\ byDevice[presence'[t].deviceId] = t
               /\ presence'[t].deviceId = presence[t].deviceId
               /\ presence'[t].onLunch => presence'[t].onShift
               /\ presence'[t].connectedAt <= connects
    <3>1. /\ presence[t] # None /\ byDevice[presence[t].deviceId] = t /\ t \in Socket
          /\ presence[t].connectedAt <= connects
          /\ presence[t].onLunch => presence[t].onShift
      BY DEF Maps, MapsAgree, Stale, LunchNeedsShift
    <3>2. presence'[t] = IF t = s THEN p ELSE presence[t]
      BY <2>1, <3>1 DEF Maps
    <3>3. CASE t = s
      BY <2>1, <3>1, <3>2, <3>3
    <3>4. CASE t # s
      BY <3>1, <3>2, <3>4
    <3> QED BY <3>3, <3>4
  <2>4. ASSUME NEW d \in Device, byDevice[d] # None
        PROVE  /\ byDevice[d] \in bySocket /\ byDevice[d] \in Socket
               /\ presence'[byDevice[d]].deviceId = d
    BY <2>3, <2>4 DEF Maps, MapsAgree
  <2>5. view' \in [User -> IndicatorType] /\ told' \subseteq User
    <3>1. /\ view \in [User -> IndicatorType] /\ told \subseteq User /\ connects' \in Nat
          /\ {p.userId} \subseteq User
      BY <2>1 DEF Maps, Presence
    <3>2. ASSUME NEW e \in Device, byDevice'[e] # None
          PROVE  /\ presence'[byDevice'[e]] \in Presence
                 /\ presence'[byDevice'[e]].connectedAt <= connects'
      BY <2>1, <2>2, <2>3, <2>4, <3>2
    <3>3. EmitPresence({p.userId})
      BY <2>1
    <3> QED BY <3>1, <3>2, <3>3, EmitTyped
  <2> QED BY <2>1, <2>2, <2>3, <2>4, <2>5 DEF Maps, MapsAgree, LunchNeedsShift, Stale
<1>2. CASE s \notin bySocket
  BY <1>2 DEF Mutate, Maps, MapsAgree, LunchNeedsShift, Stale
<1> QED BY <1>1, <1>2

-----------------------------------------------------------------------------
(* The sockets, sessions and requests.  A socket with a presence is past       *)
(* handleConnection: set() never meets a socket that has one already.          *)

Sockets ==
    /\ session \in [User -> Device \cup {None}]
    /\ request \in [Request -> Handler] /\ crossed \subseteq User
    /\ sock \in [Socket -> Connection]
    /\ \A s \in bySocket : sock[s].stage = "in"
    /\ \A s \in Socket : sock[s].stage \in {"query", "loaded"} => sock[s].user \in User

IndInv == Maps /\ Sockets

LEMMA MapsSame == Maps /\ UNCHANGED registry => Maps'
BY DEF Maps, registry, MapsAgree, LunchNeedsShift, Stale

\* A step that changes only the connection of one socket, one without a presence.
LEMMA OneSocket ==
    ASSUME IndInv, NEW s \in Socket, sock[s].stage # "in", NEW c \in Connection,
           c.stage \in {"query", "loaded"} => c.user \in User,
           sock' = [sock EXCEPT ![s] = c], UNCHANGED <<session, request, crossed, registry>>
    PROVE  IndInv'
<1>1. Maps' /\ bySocket' = bySocket
  BY MapsSame DEF IndInv, registry
<1>2. \A t \in Socket : sock'[t] = IF t = s THEN c ELSE sock[t]
  BY DEF IndInv, Sockets
<1>3. \A t \in Socket : sock'[t].stage \in {"query", "loaded"} => sock'[t].user \in User
  BY <1>2 DEF IndInv, Sockets
<1>4. \A t \in bySocket : t # s /\ t \in Socket
  BY DEF IndInv, Sockets, Maps
<1>5. \A t \in bySocket' : sock'[t].stage = "in"
  BY <1>1, <1>2, <1>4 DEF IndInv, Sockets
<1>6. sock' \in [Socket -> Connection] /\ UNCHANGED <<session, request, crossed>>
  BY DEF IndInv, Sockets
<1> QED BY <1>1, <1>3, <1>5, <1>6 DEF IndInv, Sockets

LEMMA GoneTyped == Gone \in Connection /\ Gone.stage = "gone" /\ ~Gone.open
BY DEF Gone, NoConnection, Connection

LEMMA ClosedTyped ==
    ASSUME NEW c \in Connection
    PROVE  /\ Closed(c) \in Connection /\ ~Closed(c).open
           /\ Closed(c).stage \in {c.stage, "gone"} /\ Closed(c).stage # "in"
           /\ Closed(c).stage \in {"query", "loaded"} =>
                Closed(c).user = c.user /\ Closed(c).device = c.device
<1>1. CASE c.stage \in {"in", "web"}
  <2>1. Closed(c) = Gone
    BY <1>1 DEF Closed
  <2> QED BY <2>1, GoneTyped
<1>2. CASE c.stage \notin {"in", "web"}
  <2>1. Closed(c) = [c EXCEPT !.open = FALSE]
    BY <1>2 DEF Closed
  <2> QED BY <1>2, <2>1 DEF Connection
<1> QED BY <1>1, <1>2

LEMMA ConnectInv ==
    ASSUME IndInv, NEW s \in Socket, NEW u \in User, NEW w \in BOOLEAN,
           Connect(s, u, w)
    PROVE  IndInv'
<1> DEFINE c == [stage |-> IF w THEN "web" ELSE "query", open |-> TRUE, user |-> u,
                 device |-> None]
<1>1. c \in Connection /\ c.user \in User
  BY DEF Connection
<1>2. /\ sock[s].stage # "in" /\ sock' = [sock EXCEPT ![s] = c]
      /\ UNCHANGED <<session, request, crossed, registry>>
  BY DEF Connect, requests
<1> HIDE DEF c
<1> QED BY <1>1, <1>2, OneSocket

LEMMA QuerySessionInv ==
    ASSUME IndInv, NEW s \in Socket, QuerySession(s)
    PROVE  IndInv'
<1> DEFINE c == [sock[s] EXCEPT !.stage = "loaded", !.device = session[sock[s].user]]
<1>1. sock[s].user \in User /\ sock[s] \in Connection /\ sock[s].stage = "query"
  BY DEF IndInv, Sockets, QuerySession
<1>2. session[sock[s].user] \in Device \cup {None}
  BY <1>1 DEF IndInv, Sockets
<1>3. c \in Connection /\ c.user \in User
  BY <1>1, <1>2 DEF Connection
<1>4. sock' = [sock EXCEPT ![s] = c] /\ UNCHANGED <<session, request, crossed, registry>>
  BY DEF QuerySession, IndInv, Sockets, requests
<1> HIDE DEF c
<1> QED BY <1>1, <1>3, <1>4, OneSocket

LEMMA RefuseInv ==
    ASSUME IndInv, NEW s \in Socket, Refuse(s)
    PROVE  IndInv'
<1>1. /\ sock[s].stage # "in" /\ sock' = [sock EXCEPT ![s] = Gone]
      /\ UNCHANGED <<session, request, crossed, registry>>
  BY DEF Refuse, requests
<1> QED BY <1>1, GoneTyped, OneSocket

\* What Register(s) stores.
LEMMA NewPresenceTyped ==
    ASSUME IndInv, NEW s \in Socket, NEW w \in BOOLEAN, Register(s, w)
    PROVE  /\ NewPresence(sock[s], w) \in Presence
           /\ NewPresence(sock[s], w).connectedAt = connects + 1
           /\ ~NewPresence(sock[s], w).onLunch
           /\ NewPresence(sock[s], w).userId = sock[s].user
           /\ NewPresence(sock[s], w).deviceId = sock[s].device
           /\ s \notin bySocket
<1>1. sock[s].user \in User /\ sock[s].device \in Device /\ s \notin bySocket
  BY DEF IndInv, Sockets, Register, Connection
<1>2. connects + 1 \in Nat
  BY DEF IndInv, Maps
<1> QED BY <1>1, <1>2 DEF NewPresence, Presence

LEMMA RegisterInv ==
    ASSUME IndInv, NEW s \in Socket, NEW w \in BOOLEAN, Register(s, w)
    PROVE  IndInv'
<1> DEFINE p == NewPresence(sock[s], w)
<1>1. /\ p \in Presence /\ p.connectedAt = connects + 1 /\ ~p.onLunch /\ s \notin bySocket
  BY NewPresenceTyped
<1>2. /\ Set(s, p) /\ connects' = connects + 1
      /\ sock' = [sock EXCEPT ![s].stage = "in"] /\ UNCHANGED <<session, request, crossed>>
  BY DEF Register, requests
<1> HIDE DEF p
<1>3. Maps'
  BY <1>1, <1>2, SetMaps DEF IndInv
<1>4. \A t \in Socket : /\ t # s => sock'[t] = sock[t]
                        /\ sock'[t].stage = IF t = s THEN "in" ELSE sock[t].stage
  BY <1>2 DEF IndInv, Sockets, Connection
<1>5. \A t \in bySocket' : t \in Socket /\ (t = s \/ t \in bySocket)
  BY <1>2, <1>3 DEF Set, Maps
<1>6. sock' \in [Socket -> Connection]
  BY <1>2 DEF IndInv, Sockets, Connection
<1>7. \A t \in bySocket' : sock'[t].stage = "in"
  BY <1>4, <1>5 DEF IndInv, Sockets
<1>8. \A t \in Socket : sock'[t].stage \in {"query", "loaded"} => sock'[t].user \in User
  BY <1>4 DEF IndInv, Sockets
<1> QED BY <1>2, <1>3, <1>6, <1>7, <1>8 DEF IndInv, Sockets

\* A message changes the two flags of one presence at most.
LEMMA TalkInv ==
    ASSUME IndInv, NEW s \in Socket, NEW p, Mutate(s, p),
           s \in bySocket =>
                /\ p \in Presence /\ p.deviceId = presence[s].deviceId
                /\ p.connectedAt = presence[s].connectedAt /\ (p.onLunch => p.onShift),
           UNCHANGED <<session, request, crossed, sock, connects>>
    PROVE  IndInv'
<1>1. Maps' /\ UNCHANGED <<byDevice, bySocket>>
  BY MutateMaps DEF IndInv
<1>2. UNCHANGED <<session, request, crossed, sock, bySocket>>
  BY <1>1
<1> QED BY <1>1, <1>2 DEF IndInv, Sockets

LEMMA FlagsTyped ==
    ASSUME IndInv, NEW s \in bySocket, NEW b \in BOOLEAN
    PROVE  \A p \in {OnShift(presence[s], b), OnLunch(presence[s], b)} :
                /\ p \in Presence /\ p.deviceId = presence[s].deviceId
                /\ p.userId = presence[s].userId
                /\ p.connectedAt = presence[s].connectedAt /\ (p.onLunch => p.onShift)
<1>1. presence[s] \in Presence
  BY DEF IndInv, Maps, MapsAgree
<1> QED BY <1>1 DEF OnShift, OnLunch, Presence

\* The sockets of K close: a kick, or one that disconnects.
LEMMA DisconnectInv ==
    ASSUME IndInv, NEW K \in SUBSET Socket, Disconnect(K),
           UNCHANGED <<session, crossed, connects>>, request' \in [Request -> Handler]
    PROVE  IndInv'
<1> DEFINE L == {s \in K : sock[s].stage # "web"}
<1>1. /\ L \in SUBSET Socket /\ DeleteBySocket(L) /\ connects' = connects
      /\ session' = session /\ crossed' = crossed
  BY DEF Disconnect
<1>2. Maps' /\ bySocket' = bySocket \ L
  <2> HIDE DEF L
  <2> QED BY <1>1, DeleteMaps DEF IndInv
<1>3. \A s \in Socket : sock'[s] = IF s \in K THEN Closed(sock[s]) ELSE sock[s]
  BY DEF Disconnect
<1>4. \A s \in Socket : sock'[s] \in Connection
  BY <1>3, ClosedTyped DEF IndInv, Sockets
<1>5. sock' \in [Socket -> Connection]
  BY <1>4 DEF Disconnect
<1>6. ASSUME NEW s \in bySocket' PROVE sock'[s].stage = "in"
  <2>1. s \in bySocket /\ s \in Socket /\ sock[s].stage = "in" /\ s \notin L
    BY <1>2 DEF IndInv, Maps, Sockets
  <2>2. s \notin K
    BY <2>1
  <2> QED BY <1>3, <2>1, <2>2
<1>7. ASSUME NEW s \in Socket, sock'[s].stage \in {"query", "loaded"}
      PROVE  sock'[s].user \in User
  <2>1. CASE s \in K
    <3>1. sock[s] \in Connection /\ sock'[s] = Closed(sock[s])
      BY <1>3, <2>1 DEF IndInv, Sockets
    <3>2. sock[s].stage \in {"query", "loaded"} /\ sock'[s].user = sock[s].user
      BY <1>7, <3>1, ClosedTyped
    <3> QED BY <3>2 DEF IndInv, Sockets
  <2>2. CASE s \notin K
    BY <1>3, <1>7, <2>2 DEF IndInv, Sockets
  <2> QED BY <2>1, <2>2
<1> QED BY <1>1, <1>2, <1>5, <1>6, <1>7 DEF IndInv, Sockets

\* The steps of AuthService that leave the sockets and the registry alone.
AuthStep(p) ==
    \/ \E u \in User : Refresh(p, u) \/ \E d \in LogsIn[u] : LoginFind(p, u, d)
    \/ LoginRevoke(p) \/ LoginActivate(p) \/ LastSave(p) \/ Fail(p)

LEMMA NothingTyped ==
    /\ NoDevice \in [Device -> Socket \cup {None}] /\ \A d \in Device : NoDevice[d] = None
    /\ NoPresence \in [Socket -> Presence \cup {None}]
    /\ NothingSent \in [User -> IndicatorType]
    /\ NoConnection \in Connection /\ NoRequest \in Handler
BY DEF NoDevice, NoPresence, NothingSent, Nobody, IndicatorType, NoConnection, Connection,
       NoRequest, Handler

LEMMA ReceiveTyped ==
    ASSUME IndInv, NEW p \in Request, NEW u \in User, NEW d \in Device,
           NEW stage \in {"revoke", "upsert", "save"}, Receive(p, u, stage, d)
    PROVE  request' \in [Request -> Handler] /\ crossed' \subseteq User
<1>1. [stage |-> stage, user |-> u, device |-> d] \in Handler
  BY DEF Handler
<1>2. request' \in [Request -> Handler]
  BY <1>1 DEF Receive, IndInv, Sockets
<1> QED BY <1>2 DEF Receive, IndInv, Sockets

LEMMA AuthTyped ==
    ASSUME IndInv, NEW p \in Request, AuthStep(p)
    PROVE  /\ UNCHANGED <<sock, registry>>
           /\ session' \in [User -> Device \cup {None}]
           /\ request' \in [Request -> Handler] /\ crossed' \subseteq User
<1>1. /\ session \in [User -> Device \cup {None}] /\ request \in [Request -> Handler]
      /\ crossed \subseteq User /\ request[p].device \in Device \cup {None}
      /\ NoRequest \in Handler
  BY NothingTyped DEF IndInv, Sockets, Handler
<1>2. \A stage \in {"kick", "upsert", "save"} :
        [request EXCEPT ![p].stage = stage] \in [Request -> Handler]
  BY <1>1 DEF Handler
<1>3. ASSUME NEW u \in User, NEW d \in LogsIn[u], LoginFind(p, u, d)
      PROVE  request' \in [Request -> Handler] /\ crossed' \subseteq User
             /\ UNCHANGED <<session, sock, registry>>
  <2>1. d \in Device
    BY PresenceAssumption
  <2>2. CASE session[u] # None
    <3>1. Receive(p, u, "revoke", d)
      BY <1>3, <2>2 DEF LoginFind
    <3> QED BY <1>3, <2>1, <3>1, ReceiveTyped DEF LoginFind
  <2>3. CASE session[u] = None
    <3>1. Receive(p, u, "upsert", d)
      BY <1>3, <2>3 DEF LoginFind
    <3> QED BY <1>3, <2>1, <3>1, ReceiveTyped DEF LoginFind
  <2> QED BY <2>2, <2>3
<1>4. ASSUME NEW u \in User, Refresh(p, u)
      PROVE  request' \in [Request -> Handler] /\ crossed' \subseteq User
             /\ UNCHANGED <<session, sock, registry>>
  <2>1. session[u] \in Device
    BY <1>1, <1>4 DEF Refresh
  <2> QED BY <1>4, <2>1, ReceiveTyped DEF Refresh
<1>5. CASE LoginRevoke(p)
  BY <1>1, <1>2, <1>5 DEF LoginRevoke, Goes
<1>6. CASE LoginActivate(p)
  BY <1>1, <1>2, <1>6 DEF LoginActivate, SaveSession, Goes
<1>7. CASE LastSave(p)
  BY <1>1, <1>7 DEF LastSave, SaveSession, Ends
<1>8. CASE Fail(p)
  BY <1>1, <1>8 DEF Fail, Ends
<1> QED BY <1>1, <1>3, <1>4, <1>5, <1>6, <1>7, <1>8 DEF AuthStep

LEMMA LogoutTyped ==
    ASSUME IndInv, NEW u \in User, Logout(u)
    PROVE  /\ UNCHANGED <<sock, registry>>
           /\ session' \in [User -> Device \cup {None}]
           /\ request' \in [Request -> Handler] /\ crossed' \subseteq User
BY DEF IndInv, Sockets, Logout

LEMMA AuthInv ==
    ASSUME IndInv, UNCHANGED <<sock, registry>>,
           session' \in [User -> Device \cup {None}],
           request' \in [Request -> Handler], crossed' \subseteq User
    PROVE  IndInv'
BY MapsSame DEF IndInv, Sockets, registry

LEMMA InitInv == Init => IndInv
<1> SUFFICES ASSUME Init PROVE IndInv
  OBVIOUS
<1>1. Maps
  BY NothingTyped DEF Init, Maps, MapsAgree, LunchNeedsShift
<1>2. Sockets
  BY NothingTyped DEF Init, Sockets, NoConnection
<1> QED BY <1>1, <1>2 DEF IndInv

LEMMA RestartInv == IndInv /\ Restart => IndInv'
<1> SUFFICES ASSUME IndInv, Restart PROVE IndInv'
  OBVIOUS
<1>1. Maps'
  BY NothingTyped DEF Restart, IndInv, Maps, MapsAgree, LunchNeedsShift
<1>2. \A s \in Socket : sock'[s] \in {NoConnection, Gone}
  BY DEF Restart
<1>3. \A s \in Socket : sock'[s] \in Connection /\ sock'[s].stage \in {"none", "gone"}
  <2>1. NoConnection \in Connection /\ NoConnection.stage = "none"
    BY NothingTyped DEF NoConnection
  <2> QED BY <1>2, <2>1, GoneTyped
<1>4. sock' \in [Socket -> Connection]
  BY <1>3 DEF Restart
<1>5. /\ request' \in [Request -> Handler] /\ crossed' \subseteq User
      /\ session' = session /\ bySocket' = {}
  BY NothingTyped DEF Restart
<1> QED BY <1>1, <1>3, <1>4, <1>5 DEF IndInv, Sockets

LEMMA LoginKickInv ==
    ASSUME IndInv, NEW p \in Request, LoginKick(p)
    PROVE  IndInv'
<1> DEFINE u == request[p].user
<1>1. request' \in [Request -> Handler]
  BY DEF IndInv, Sockets, LoginKick, Goes, Handler
<1>2. /\ Room(u) \in SUBSET Socket /\ Disconnect(Room(u))
      /\ UNCHANGED <<session, crossed, connects>>
  BY DEF Room, LoginKick
<1> HIDE DEF u
<1> QED BY <1>1, <1>2, DisconnectInv

LEMMA NextInv == IndInv /\ [Next]_vars => IndInv'
<1> SUFFICES ASSUME IndInv, [Next]_vars PROVE IndInv'
  OBVIOUS
<1>1. ASSUME NEW s \in Socket, NEW u \in User, NEW w \in BOOLEAN,
             Connect(s, u, w)
      PROVE  IndInv'
  BY <1>1, ConnectInv
<1>2. ASSUME NEW s \in Socket, QuerySession(s) PROVE IndInv'
  BY <1>2, QuerySessionInv
<1>3. ASSUME NEW s \in Socket, Refuse(s) PROVE IndInv'
  BY <1>3, RefuseInv
<1>4. ASSUME NEW s \in Socket, NEW w \in BOOLEAN, Register(s, w) PROVE IndInv'
  BY <1>4, RegisterInv
<1>5. ASSUME NEW s \in Socket, NEW b \in BOOLEAN, HandleShiftState(s, b) PROVE IndInv'
  BY <1>5, FlagsTyped, TalkInv DEF HandleShiftState, requests
<1>6. ASSUME NEW s \in Socket, NEW b \in BOOLEAN, HandleLunchState(s, b) PROVE IndInv'
  BY <1>6, FlagsTyped, TalkInv DEF HandleLunchState, requests
<1>7. ASSUME NEW s \in Socket, HandleDisconnect(s) PROVE IndInv'
  <2>1. /\ request' \in [Request -> Handler] /\ Disconnect({s})
        /\ UNCHANGED <<session, crossed, connects>>
    BY <1>7 DEF HandleDisconnect, IndInv, Sockets, requests
  <2> QED BY <2>1, DisconnectInv
<1>8. ASSUME NEW p \in Request, AuthStep(p) \/ LoginKick(p) PROVE IndInv'
  BY <1>8, AuthTyped, AuthInv, LoginKickInv
<1>9. ASSUME NEW u \in User, Logout(u) PROVE IndInv'
  BY <1>9, LogoutTyped, AuthInv
<1>10. CASE Restart
  BY <1>10, RestartInv
<1>11. CASE UNCHANGED vars
  BY <1>11, MapsSame DEF vars, requests, registry, IndInv, Sockets
<1> QED BY <1>1, <1>2, <1>3, <1>4, <1>5, <1>6, <1>7, <1>8, <1>9, <1>10, <1>11 DEF Next, AuthStep

LEMMA IndInvAlways == Spec => []IndInv
BY InitInv, NextInv, PTL DEF Spec

\* The history variable only ever holds sockets.
LateOK == late \in SUBSET Socket

LEMMA LateTyped == LateOK /\ [Next]_vars => LateOK'
<1> SUFFICES ASSUME late \in SUBSET Socket, [Next]_vars PROVE late' \in SUBSET Socket
  BY DEF LateOK
<1>1. \A u : Admitted(u) \in SUBSET Socket
  BY DEF Admitted
<1>2. ASSUME NEW p \in Request, AuthStep(p) \/ LoginKick(p) PROVE late' \in SUBSET Socket
  BY <1>1, <1>2 DEF AuthStep, LoginFind, Refresh, LoginRevoke, LoginActivate, LastSave,
                    SaveSession, Fail, LoginKick
<1>3. ASSUME NEW u \in User, Logout(u) PROVE late' \in SUBSET Socket
  BY <1>3 DEF Logout
<1>4. ASSUME NEW s \in Socket,
             \/ \E u \in User, w \in BOOLEAN : Connect(s, u, w)
             \/ QuerySession(s) \/ Refuse(s) \/ \E w \in BOOLEAN : Register(s, w)
      PROVE  late' \in SUBSET Socket
  BY <1>4 DEF Connect, QuerySession, Refuse, Register
<1>5. ASSUME NEW s \in Socket,
             \/ \E b \in BOOLEAN : HandleShiftState(s, b) \/ HandleLunchState(s, b)
             \/ HandleDisconnect(s)
      PROVE  late' \in SUBSET Socket
  BY <1>5 DEF HandleShiftState, HandleLunchState, HandleDisconnect
<1>6. CASE Restart
  BY <1>6 DEF Restart
<1>7. CASE UNCHANGED vars
  BY <1>7 DEF vars
<1> QED BY <1>2, <1>3, <1>4, <1>5, <1>6, <1>7 DEF Next, AuthStep

-----------------------------------------------------------------------------
(* The theorems.                                                             *)

\* Every variable keeps its type: in particular what is sent to the web is
\* always the flags of a presence, or those of nobody.
THEOREM PresenceTyped == Spec => []TypeOK
<1>1. IndInv /\ LateOK => TypeOK
  BY DEF IndInv, Maps, Sockets, LateOK, TypeOK
<1>2. Init => LateOK
  BY DEF Init, LateOK
<1> QED BY <1>1, <1>2, LateTyped, IndInvAlways, PTL DEF Spec

\* The two maps of DevicesRegistry agree after every handler, whatever the order
\* in which sockets connect, close, are kicked and take a device from each other.
THEOREM MapsAlwaysAgree == Spec => []MapsAgree
<1>1. IndInv => MapsAgree
  BY DEF IndInv, Maps
<1> QED BY <1>1, IndInvAlways, PTL

\* No presence is in lunch out of a shift.
THEOREM LunchOnlyOnShift == Spec => []LunchNeedsShift
<1>1. IndInv => LunchNeedsShift
  BY DEF IndInv, Maps
<1> QED BY <1>1, IndInvAlways, PTL

\* A disconnect takes an entry only from a socket that it closes.
LEMMA DisconnectLoses ==
    ASSUME IndInv, NEW K \in SUBSET Socket, Disconnect(K), UNCHANGED connects,
           NEW d \in Device, byDevice[d] # None, byDevice'[d] = None
    PROVE  ~sock'[byDevice[d]].open
<1> DEFINE L == {s \in K : sock[s].stage # "web"}
<1>1. L \in SUBSET Socket /\ L \subseteq K /\ DeleteBySocket(L) /\ connects' = connects
  BY DEF Disconnect
<1>2. byDevice[d] \in Socket
  BY DEF IndInv, Maps
<1> HIDE DEF L
<1>3. byDevice'[d] = IF byDevice[d] \in L THEN None ELSE byDevice[d]
  BY <1>1, DeleteMaps DEF IndInv
<1>4. sock'[byDevice[d]] = Closed(sock[byDevice[d]])
  BY <1>1, <1>2, <1>3 DEF Disconnect
<1>5. sock[byDevice[d]] \in Connection
  BY <1>2 DEF IndInv, Sockets
<1> QED BY <1>4, <1>5, ClosedTyped

LEMMA NextLoses ==
    ASSUME IndInv, [Next]_vars, NEW d \in Device, byDevice[d] # None, byDevice'[d] = None
    PROVE  ~sock'[byDevice[d]].open
<1>1. ASSUME NEW s \in Socket, NEW w \in BOOLEAN, Register(s, w) PROVE FALSE
  <2> DEFINE p == NewPresence(sock[s], w)
  <2>1. byDevice' = [byDevice EXCEPT ![p.deviceId] = s] /\ s # None
    BY <1>1, PresenceAssumption DEF Register, Set
  <2> QED BY <2>1 DEF IndInv, Maps
<1>2. ASSUME NEW s \in Socket, HandleDisconnect(s) PROVE ~sock'[byDevice[d]].open
  <2>1. Disconnect({s}) /\ UNCHANGED connects
    BY <1>2 DEF HandleDisconnect
  <2> QED BY <2>1, DisconnectLoses
<1>3. ASSUME NEW p \in Request, LoginKick(p) PROVE ~sock'[byDevice[d]].open
  <2>1. PICK K \in SUBSET Socket : Disconnect(K) /\ UNCHANGED connects
    BY <1>3 DEF LoginKick, Room
  <2> QED BY <2>1, DisconnectLoses
<1>4. CASE Restart
  <2>1. byDevice[d] \in Socket
    BY DEF IndInv, Maps
  <2>2. sock'[byDevice[d]] \in {NoConnection, Gone}
    BY <1>4, <2>1 DEF Restart
  <2> QED BY <2>2, GoneTyped DEF NoConnection
<1>5. ASSUME UNCHANGED byDevice PROVE FALSE
  BY <1>5
<1>6. ASSUME NEW s \in Socket,
             \/ \E u \in User, w \in BOOLEAN : Connect(s, u, w)
             \/ QuerySession(s) \/ Refuse(s)
             \/ \E b \in BOOLEAN : HandleShiftState(s, b) \/ HandleLunchState(s, b)
      PROVE  UNCHANGED byDevice
  BY <1>6 DEF Connect, QuerySession, Refuse, HandleShiftState, HandleLunchState, Mutate,
              registry
<1>7. ASSUME (\E p \in Request : AuthStep(p)) \/ (\E u \in User : Logout(u))
      PROVE  UNCHANGED byDevice
  BY <1>7, AuthTyped, LogoutTyped DEF registry
<1>8. CASE UNCHANGED vars
  BY <1>8, <1>5 DEF vars, registry
<1> QED BY <1>1, <1>2, <1>3, <1>4, <1>5, <1>6, <1>7, <1>8 DEF Next, AuthStep

\* Whatever happens, a device loses its presence only in a step after which the
\* socket that held it is closed: the order of the disconnects does not matter.
THEOREM PresenceLostWithItsSocket == Spec => LostOnlyWithItsSocket
<1> DEFINE A == \A d \in Device : byDevice[d] # None /\ byDevice'[d] = None
                    => ~sock'[byDevice[d]].open
<1>1. IndInv /\ [Next]_vars => [A]_vars
  BY NextLoses
<1> QED BY <1>1, IndInvAlways, PTL DEF Spec, LostOnlyWithItsSocket

-----------------------------------------------------------------------------
(* Sockets and their presences: who is registered, and where.                *)

\* A registered connection and the presence stored for it are of one user and
\* one device; only a socket past handleConnection ever had a presence.
Registered ==
    \A s \in Socket :
        /\ presence[s] # None => sock[s].stage \in {"in", "gone"}
        /\ sock[s].stage = "in" =>
                /\ presence[s] # None
                /\ presence[s].userId = sock[s].user
                /\ presence[s].deviceId = sock[s].device
                /\ sock[s].device # None
                /\ presence[s].connectedAt <= connects

\* t took the device of s.
Took(t, s) ==
    /\ presence[t] # None
    /\ presence[t].deviceId = presence[s].deviceId
    /\ presence[t].connectedAt > presence[s].connectedAt

Replaced ==
    \A s \in Socket : sock[s].stage = "in" /\ s \notin bySocket =>
        \E t \in Socket : Took(t, s)

KnownInv == IndInv /\ Registered /\ Replaced

\* A step that stores no presence: connections may close, or come as far as to be
\* loaded, and a socket leaves bySocket only when it closes.
LEMMA NothingStored ==
    ASSUME KnownInv, UNCHANGED <<presence, connects>>,
           \A s \in Socket :
                /\ sock'[s].stage = "in" => sock'[s] = sock[s] /\ (s \in bySocket => s \in bySocket')
                /\ presence[s] # None => sock'[s].stage \in {"in", "gone"}
    PROVE  Registered' /\ Replaced'
<1>1. Registered'
  BY DEF KnownInv, Registered
<1>2. Replaced'
  BY DEF KnownInv, Replaced, Took
<1> QED BY <1>1, <1>2

LEMMA OneSocketKnown ==
    ASSUME KnownInv, NEW s \in Socket, sock[s].stage \in {"none", "query", "loaded"}, NEW c,
           c.stage # "in", sock' = [sock EXCEPT ![s] = c], UNCHANGED registry
    PROVE  Registered' /\ Replaced'
<1>1. \A t \in Socket : sock'[t] = IF t = s THEN c ELSE sock[t]
  BY DEF KnownInv, IndInv, Sockets
<1>2. presence[s] = None
  BY DEF KnownInv, Registered
<1>3. ASSUME NEW t \in Socket
      PROVE  /\ sock'[t].stage = "in" => sock'[t] = sock[t] /\ (t \in bySocket => t \in bySocket')
             /\ presence[t] # None => sock'[t].stage \in {"in", "gone"}
  BY <1>1, <1>2 DEF KnownInv, Registered, registry
<1> QED BY <1>3, NothingStored DEF registry

LEMMA RegisterKnown ==
    ASSUME KnownInv, NEW s \in Socket, NEW w \in BOOLEAN, Register(s, w)
    PROVE  Registered' /\ Replaced'
<1> DEFINE p == NewPresence(sock[s], w)
<1>1. /\ p \in Presence /\ p.connectedAt = connects + 1 /\ s \notin bySocket
      /\ p.userId = sock[s].user /\ p.deviceId = sock[s].device
  BY NewPresenceTyped DEF KnownInv
<1>2. /\ sock[s].stage = "loaded" /\ sock[s].device # None
      /\ sock' = [sock EXCEPT ![s].stage = "in"]
      /\ connects' = connects + 1
      /\ bySocket' = (bySocket \ {byDevice[p.deviceId]}) \cup {s}
      /\ presence' = [presence EXCEPT ![s] = p]
  BY DEF Register, Set
<1>3. connects \in Nat /\ presence[s] = None /\ p # None
  BY <1>1, <1>2, PresenceAssumption DEF KnownInv, IndInv, Maps, Registered
<1> HIDE DEF p
<1>4. \A t \in Socket : /\ presence'[t] = IF t = s THEN p ELSE presence[t]
                        /\ t # s => sock'[t] = sock[t]
  BY <1>2 DEF KnownInv, IndInv, Maps, Sockets
<1>5. sock'[s].stage = "in" /\ sock'[s].user = sock[s].user /\ sock'[s].device = sock[s].device
  BY <1>2 DEF KnownInv, IndInv, Sockets, Connection
<1>6. ASSUME NEW t \in Socket, t # s, sock[t].stage = "in"
      PROVE  presence[t] \in Presence /\ presence[t].connectedAt \in Nat
             /\ presence[t].connectedAt <= connects
  BY <1>6 DEF KnownInv, Registered, IndInv, Maps, Presence
<1>7. Registered'
  <2> SUFFICES ASSUME NEW t \in Socket
               PROVE  /\ presence'[t] # None => sock'[t].stage \in {"in", "gone"}
                      /\ sock'[t].stage = "in" =>
                            /\ presence'[t] # None
                            /\ presence'[t].userId = sock'[t].user
                            /\ presence'[t].deviceId = sock'[t].device
                            /\ sock'[t].device # None
                            /\ presence'[t].connectedAt <= connects'
    BY DEF Registered
  <2>1. CASE t = s
    BY <1>1, <1>2, <1>3, <1>4, <1>5, <2>1
  <2>2. CASE t # s
    BY <1>2, <1>3, <1>4, <1>6, <2>2 DEF KnownInv, Registered
  <2> QED BY <2>1, <2>2
<1>8. ASSUME NEW t \in Socket, sock'[t].stage = "in", t \notin bySocket'
      PROVE  \E z \in Socket : Took(z, t)'
  <2>1. t # s /\ sock[t].stage = "in"
    BY <1>2, <1>4, <1>8
  <2>2. CASE t \in bySocket
    <3>1. t = byDevice[p.deviceId]
      BY <1>2, <1>8, <2>2
    <3>2. presence[t].deviceId = p.deviceId
      BY <1>1, <2>2, <3>1, PresenceAssumption
         DEF KnownInv, IndInv, Maps, MapsAgree, Presence
    <3>3. Took(s, t)'
      BY <1>1, <1>3, <1>4, <1>6, <2>1, <3>2 DEF Took
    <3> QED BY <3>3
  <2>3. CASE t \notin bySocket
    <3>1. PICK z \in Socket : Took(z, t)
      BY <2>1, <2>3 DEF KnownInv, Replaced
    <3>2. z # s
      BY <1>3, <3>1 DEF Took
    <3>3. Took(z, t)'
      BY <1>4, <2>1, <3>1, <3>2 DEF Took
    <3> QED BY <3>3
  <2> QED BY <2>2, <2>3
<1>9. Replaced'
  BY <1>8 DEF Replaced
<1> QED BY <1>7, <1>9

LEMMA TalkKnown ==
    ASSUME KnownInv, NEW s \in Socket, NEW p, Mutate(s, p),
           s \in bySocket =>
                /\ p \in Presence /\ p.deviceId = presence[s].deviceId
                /\ p.userId = presence[s].userId /\ p.connectedAt = presence[s].connectedAt,
           UNCHANGED <<sock, connects>>
    PROVE  Registered' /\ Replaced'
<1>1. CASE s \notin bySocket
  <2>1. UNCHANGED <<presence, bySocket>>
    BY <1>1 DEF Mutate
  <2>2. \A t \in Socket : presence[t] # None => sock'[t].stage \in {"in", "gone"}
    BY DEF KnownInv, Registered
  <2> QED BY <2>1, <2>2, NothingStored
<1>2. CASE s \in bySocket
  <2>1. bySocket' = bySocket /\ presence' = [presence EXCEPT ![s] = p] /\ p # None
    BY <1>2, PresenceAssumption DEF Mutate
  <2>2. presence[s] # None
    BY <1>2 DEF KnownInv, IndInv, Maps, MapsAgree
  <2>3. ASSUME NEW t \in Socket
        PROVE  /\ presence'[t] # None <=> presence[t] # None
               /\ presence'[t].deviceId = presence[t].deviceId
               /\ presence'[t].userId = presence[t].userId
               /\ presence'[t].connectedAt = presence[t].connectedAt
    <3>1. presence'[t] = IF t = s THEN p ELSE presence[t]
      BY <2>1 DEF KnownInv, IndInv, Maps
    <3> QED BY <1>2, <2>1, <2>2, <3>1
  <2>4. Registered'
    BY <2>3 DEF KnownInv, Registered
  <2>5. \A t, w \in Socket : Took(w, t)' = Took(w, t)
    BY <2>3 DEF Took
  <2>6. Replaced'
    BY <2>1, <2>5 DEF KnownInv, Replaced
  <2> QED BY <2>4, <2>6
<1> QED BY <1>1, <1>2

LEMMA DisconnectKnown ==
    ASSUME KnownInv, NEW K \in SUBSET Socket, Disconnect(K), UNCHANGED connects
    PROVE  Registered' /\ Replaced'
<1> DEFINE L == {s \in K : sock[s].stage # "web"}
<1>1. DeleteBySocket(L) /\ L \subseteq K
  BY DEF Disconnect
<1> HIDE DEF L
<1>2. bySocket' = bySocket \ L /\ presence' = presence
  BY <1>1 DEF DeleteBySocket
<1>3. ASSUME NEW s \in Socket
      PROVE  /\ sock'[s].stage = "in" => sock'[s] = sock[s] /\ (s \in bySocket => s \in bySocket')
             /\ presence[s] # None => sock'[s].stage \in {"in", "gone"}
  <2>1. sock'[s] = IF s \in K THEN Closed(sock[s]) ELSE sock[s]
    BY DEF Disconnect
  <2>2. sock[s] \in Connection
    BY DEF KnownInv, IndInv, Sockets
  <2>3. presence[s] # None => sock[s].stage \in {"in", "gone"}
    BY DEF KnownInv, Registered
  <2>4. CASE s \in K
    <3>1. Closed(sock[s]).stage # "in" /\ Closed(sock[s]).stage \in {sock[s].stage, "gone"}
      BY <2>2, ClosedTyped
    <3> QED BY <2>1, <2>3, <2>4, <3>1
  <2>5. CASE s \notin K
    BY <1>1, <1>2, <2>1, <2>3, <2>5
  <2> QED BY <2>4, <2>5
<1> QED BY <1>2, <1>3, NothingStored

LEMMA NextKnown == KnownInv /\ [Next]_vars => KnownInv'
<1> SUFFICES ASSUME KnownInv, [Next]_vars PROVE Registered' /\ Replaced'
  BY NextInv DEF KnownInv
<1>1. ASSUME NEW s \in Socket, NEW u \in User, NEW w \in BOOLEAN,
             Connect(s, u, w)
      PROVE  Registered' /\ Replaced'
  <2> DEFINE c == [stage |-> IF w THEN "web" ELSE "query", open |-> TRUE, user |-> u,
                   device |-> None]
  <2>1. c.stage # "in" /\ sock[s].stage = "none" /\ sock' = [sock EXCEPT ![s] = c]
        /\ UNCHANGED registry
    BY <1>1 DEF Connect
  <2> HIDE DEF c
  <2> QED BY <2>1, OneSocketKnown
<1>2. ASSUME NEW s \in Socket, QuerySession(s) PROVE Registered' /\ Replaced'
  <2> DEFINE c == [sock[s] EXCEPT !.stage = "loaded", !.device = session[sock[s].user]]
  <2>1. sock[s] \in Connection /\ sock[s].stage = "query" /\ UNCHANGED registry
    BY <1>2 DEF KnownInv, IndInv, Sockets, QuerySession
  <2>2. c.stage = "loaded"
    BY <2>1 DEF Connection
  <2>3. sock' = [sock EXCEPT ![s] = c]
    BY <1>2 DEF QuerySession, KnownInv, IndInv, Sockets
  <2> HIDE DEF c
  <2> QED BY <2>1, <2>2, <2>3, OneSocketKnown
<1>3. ASSUME NEW s \in Socket, Refuse(s) PROVE Registered' /\ Replaced'
  <2>1. sock[s].stage \in {"query", "loaded"} /\ sock' = [sock EXCEPT ![s] = Gone]
        /\ UNCHANGED registry
    BY <1>3 DEF Refuse
  <2> QED BY <2>1, GoneTyped, OneSocketKnown
<1>4. ASSUME NEW s \in Socket, NEW w \in BOOLEAN, Register(s, w) PROVE Registered' /\ Replaced'
  BY <1>4, RegisterKnown
<1>5. ASSUME NEW s \in Socket, NEW b \in BOOLEAN,
             HandleShiftState(s, b) \/ HandleLunchState(s, b)
      PROVE  Registered' /\ Replaced'
  <2>1. \E p \in {OnShift(presence[s], b), OnLunch(presence[s], b)} :
            Mutate(s, p) /\ UNCHANGED <<sock, connects>>
    BY <1>5 DEF HandleShiftState, HandleLunchState
  <2>2. PICK p \in {OnShift(presence[s], b), OnLunch(presence[s], b)} :
            Mutate(s, p) /\ UNCHANGED <<sock, connects>>
    BY <2>1
  <2>3. s \in bySocket =>
            /\ p \in Presence /\ p.deviceId = presence[s].deviceId
            /\ p.userId = presence[s].userId /\ p.connectedAt = presence[s].connectedAt
    BY FlagsTyped DEF KnownInv
  <2> QED BY <2>2, <2>3, TalkKnown
<1>6. ASSUME NEW s \in Socket, HandleDisconnect(s) PROVE Registered' /\ Replaced'
  <2>1. Disconnect({s}) /\ UNCHANGED connects
    BY <1>6 DEF HandleDisconnect
  <2> QED BY <2>1, DisconnectKnown
<1>7. ASSUME NEW p \in Request, LoginKick(p) PROVE Registered' /\ Replaced'
  <2>1. PICK K \in SUBSET Socket : Disconnect(K) /\ UNCHANGED connects
    BY <1>7 DEF LoginKick, Room
  <2> QED BY <2>1, DisconnectKnown
<1>8. ASSUME UNCHANGED <<sock, registry>> PROVE Registered' /\ Replaced'
  <2>1. \A s \in Socket : presence[s] # None => sock'[s].stage \in {"in", "gone"}
    BY <1>8 DEF KnownInv, Registered
  <2> QED BY <1>8, <2>1, NothingStored DEF registry
<1>9. ASSUME (\E p \in Request : AuthStep(p)) \/ (\E u \in User : Logout(u))
      PROVE  UNCHANGED <<sock, registry>>
  BY <1>9, AuthTyped, LogoutTyped DEF KnownInv
<1>10. CASE Restart
  <2>1. \A s \in Socket : presence'[s] = None /\ sock'[s] \in {NoConnection, Gone}
    BY <1>10 DEF Restart, NoPresence
  <2>2. \A s \in Socket : sock'[s].stage # "in"
    BY <2>1, GoneTyped DEF NoConnection
  <2> QED BY <2>1, <2>2 DEF Registered, Replaced
<1>11. CASE UNCHANGED vars
  BY <1>8, <1>11 DEF vars
<1> QED BY <1>1, <1>2, <1>3, <1>4, <1>5, <1>6, <1>7, <1>8, <1>9, <1>10, <1>11 DEF Next, AuthStep

LEMMA KnownAlways == Spec => []KnownInv
<1>1. Init => KnownInv
  BY InitInv DEF Init, KnownInv, Registered, Replaced, NoConnection, NoPresence
<1> QED BY <1>1, NextKnown, PTL DEF Spec

\* A connected app is in the registry, or a later connection of its device took
\* its place: for any number of sockets, in whatever order they come and go.
THEOREM ConnectedStaysKnown == Spec => []ConnectedIsKnown
<1>1. KnownInv => ConnectedIsKnown
  <2> SUFFICES ASSUME KnownInv, NEW s \in Socket, sock[s].stage = "in", s \notin bySocket
               PROVE  \E t \in Socket : /\ presence[t] # None
                                        /\ presence[t].deviceId = sock[s].device
                                        /\ presence[t].connectedAt > presence[s].connectedAt
    BY DEF ConnectedIsKnown
  <2> QED BY DEF KnownInv, Replaced, Registered, Took
<1> QED BY <1>1, KnownAlways, PTL

\* A socket whose session was found, and which no login missed, is where the
\* session of its user is, if the user has one.
Placed ==
    \A u \in User : \A s \in Socket :
        s \in Admitted(u) \ late => session[u] \in {None, sock[s].device}

\* Request p of u has nobody else's save to fear.
Undisturbed(p, u) ==
    /\ request[p].stage \in {"kick", "upsert"} => session[u] = None
    /\ request[p].stage = "upsert" => Admitted(u) \subseteq late
    /\ request[p].stage = "save" =>
            /\ session[u] \in {None, request[p].device}
            /\ \A s \in Admitted(u) \ late : sock[s].device = request[p].device
    /\ \A q \in Request : request[q].user = u => q = p

\* Until two requests of a user overlap, the one that runs decides where it is.
Alone ==
    \A p \in Request, u \in User :
        request[p].user = u /\ u \notin crossed => Undisturbed(p, u)

PlaceInv == KnownInv /\ Placed /\ Alone

\* A step that admits nobody and leaves the sessions and requests alone.
LEMMA NobodyAdmitted ==
    ASSUME PlaceInv, UNCHANGED <<session, request, crossed>>,
           \A s \in Socket : \A u \in User : s \in (Admitted(u) \ late)' =>
                s \in Admitted(u) \ late /\ sock'[s].device = sock[s].device
    PROVE  Placed' /\ Alone'
<1>1. Placed'
  BY DEF PlaceInv, Placed
<1>2. \A u \in User : Admitted(u)' \subseteq Socket
  BY DEF Admitted
<1>3. ASSUME NEW p \in Request, NEW u \in User, request'[p].user = u, u \notin crossed'
      PROVE  Undisturbed(p, u)'
  <2>1. Undisturbed(p, u)
    BY <1>3 DEF PlaceInv, Alone
  <2> QED BY <1>2, <2>1 DEF Undisturbed
<1> QED BY <1>1, <1>3 DEF Alone

LEMMA ClosedNotAdmitted ==
    ASSUME IndInv, NEW K \in SUBSET Socket, Disconnect(K), NEW u \in User,
           NEW s \in Socket, s \in Admitted(u)'
    PROVE  s \notin K /\ s \in Admitted(u) /\ sock'[s] = sock[s]
<1>1. sock'[s] = IF s \in K THEN Closed(sock[s]) ELSE sock[s]
  BY DEF Disconnect
<1>2. sock[s] \in Connection
  BY DEF IndInv, Sockets
<1>3. sock'[s].open
  BY DEF Admitted
<1>4. s \notin K
  BY <1>1, <1>2, <1>3, ClosedTyped
<1> QED BY <1>1, <1>4 DEF Admitted

LEMMA GatewayPlaced ==
    ASSUME PlaceInv, NEW s \in Socket,
           \/ \E u \in User, w \in BOOLEAN : Connect(s, u, w)
           \/ QuerySession(s) \/ Refuse(s)
           \/ \E b \in BOOLEAN : Register(s, b) \/ HandleShiftState(s, b) \/ HandleLunchState(s, b)
    PROVE  Placed' /\ Alone'
<1>1. UNCHANGED <<session, request, crossed>> /\ late' = late
  BY DEF Connect, QuerySession, Refuse, Register, HandleShiftState, HandleLunchState, requests
<1>2. sock \in [Socket -> Connection]
  BY DEF PlaceInv, KnownInv, IndInv, Sockets
<1>3. CASE \E u \in User, w \in BOOLEAN : Connect(s, u, w)
  <2>1. ASSUME NEW t \in Socket, NEW v \in User, t \in (Admitted(v) \ late)'
        PROVE  t \in Admitted(v) \ late /\ sock'[t] = sock[t]
    <3>1. sock'[s].stage \in {"web", "query"} /\ (t # s => sock'[t] = sock[t])
      BY <1>2, <1>3 DEF Connect
    <3> QED BY <1>1, <2>1, <3>1 DEF Admitted
  <2> QED BY <1>1, <2>1, NobodyAdmitted
<1>4. CASE QuerySession(s)
  <2>1. /\ sock'[s].device = session[sock[s].user] /\ sock'[s].user = sock[s].user
        /\ \A t \in Socket : t # s => sock'[t] = sock[t]
    BY <1>2, <1>4 DEF QuerySession, Connection
  <2>2. ASSUME NEW t \in Socket, NEW v \in User, t \in (Admitted(v) \ late)'
        PROVE  \/ t \in Admitted(v) \ late /\ sock'[t] = sock[t]
               \/ sock'[t].device = session[v] /\ session[v] # None
    BY <1>1, <2>1, <2>2 DEF Admitted
  <2>3. Placed'
    BY <1>1, <2>2 DEF PlaceInv, Placed
  <2>4. \A v \in User : Admitted(v)' \subseteq Socket
    BY DEF Admitted
  <2>5. ASSUME NEW p \in Request, NEW u \in User, request'[p].user = u, u \notin crossed'
        PROVE  Undisturbed(p, u)'
    <3>1. Undisturbed(p, u)
      BY <1>1, <2>5 DEF PlaceInv, Alone
    <3> QED BY <1>1, <2>2, <2>4, <3>1 DEF Undisturbed
  <2> QED BY <2>3, <2>5 DEF Alone
<1>5. CASE Refuse(s)
  <2>1. ASSUME NEW t \in Socket, NEW v \in User, t \in (Admitted(v) \ late)'
        PROVE  t \in Admitted(v) \ late /\ sock'[t] = sock[t]
    <3>1. sock'[s] = Gone /\ (t # s => sock'[t] = sock[t])
      BY <1>2, <1>5 DEF Refuse
    <3> QED BY <1>1, <2>1, <3>1, GoneTyped DEF Admitted
  <2> QED BY <1>1, <2>1, NobodyAdmitted
<1>6. CASE \E b \in BOOLEAN : Register(s, b)
  <2>1. ASSUME NEW t \in Socket, NEW v \in User, t \in (Admitted(v) \ late)'
        PROVE  t \in Admitted(v) \ late /\ sock'[t].device = sock[t].device
    <3>1. /\ sock'[t].open = sock[t].open /\ sock'[t].user = sock[t].user
          /\ sock'[t].device = sock[t].device
          /\ IF t = s THEN sock[t].stage = "loaded" ELSE sock'[t].stage = sock[t].stage
      BY <1>2, <1>6 DEF Register, Connection
    <3> QED BY <1>1, <2>1, <3>1 DEF Admitted
  <2> QED BY <1>1, <2>1, NobodyAdmitted
<1>7. CASE \E b \in BOOLEAN : HandleShiftState(s, b) \/ HandleLunchState(s, b)
  <2>1. sock' = sock
    BY <1>7 DEF HandleShiftState, HandleLunchState
  <2>2. \A v \in User : Admitted(v)' = Admitted(v)
    BY <2>1 DEF Admitted
  <2> QED BY <1>1, <2>1, <2>2, NobodyAdmitted
<1> QED BY <1>3, <1>4, <1>5, <1>6, <1>7

LEMMA DisconnectPlaced ==
    ASSUME PlaceInv, NEW s \in Socket, HandleDisconnect(s)
    PROVE  Placed' /\ Alone'
<1>1. /\ Disconnect({s}) /\ UNCHANGED <<session, request, crossed>> /\ late' = late \ {s}
      /\ {s} \in SUBSET Socket /\ IndInv
  BY DEF HandleDisconnect, PlaceInv, KnownInv, requests
<1>2. ASSUME NEW t \in Socket, NEW v \in User, t \in (Admitted(v) \ late)'
      PROVE  t \in Admitted(v) \ late /\ sock'[t].device = sock[t].device
  <2>1. t \notin {s} /\ t \in Admitted(v) /\ sock'[t] = sock[t]
    BY <1>1, <1>2, ClosedNotAdmitted
  <2> QED BY <1>1, <1>2, <2>1
<1> QED BY <1>1, <1>2, NobodyAdmitted

\* Request p of u goes on or ends, and only the session of u may change: the requests
\* of the others are as before.
LEMMA OthersAlone ==
    ASSUME PlaceInv, NEW p \in Request, NEW u, request[p].user \in {u, None},
           request'[p].user \in {u, None}, \A z \in Request \ {p} : request'[z] = request[z],
           \A v \in User \ {u} :
                /\ session'[v] = session[v] /\ (v \in crossed' <=> v \in crossed)
                /\ \A s \in Socket : s \in (Admitted(v) \ late)' =>
                        s \in Admitted(v) \ late /\ sock'[s].device = sock[s].device,
           NEW q \in Request, NEW v \in User, v # u, request'[q].user = v, v \notin crossed'
    PROVE  Undisturbed(q, v)'
<1>2. v # None
  BY PresenceAssumption
<1>3. q # p /\ request'[q] = request[q]
  BY <1>2
<1>4. Undisturbed(q, v)
  BY <1>3 DEF PlaceInv, Alone
<1>5. Admitted(v)' \subseteq Socket
  BY DEF Admitted
<1>6. \A z \in Request : request'[z].user = v => z = q
  BY <1>2, <1>4 DEF Undisturbed
<1>7. /\ session'[v] = session[v]
      /\ \A s \in Socket : s \in (Admitted(v) \ late)' =>
            s \in Admitted(v) \ late /\ sock'[s].device = sock[s].device
  OBVIOUS
<1>8. request'[q].stage = "upsert" => Admitted(v)' \subseteq late'
  BY <1>3, <1>4, <1>5, <1>7 DEF Undisturbed
<1>9. request'[q].stage = "save" =>
            \A s \in (Admitted(v) \ late)' : sock'[s].device = request'[q].device
  BY <1>3, <1>4, <1>5, <1>7 DEF Undisturbed
<1>10. session'[v] = session[v] /\ request'[q] = request[q] /\ Undisturbed(q, v)
  BY <1>3, <1>4, <1>7
<1> QED BY <1>6, <1>8, <1>9, <1>10 DEF Undisturbed

\* What is left to show of a step of the request in slot p.
LEMMA RequestPlaced ==
    ASSUME PlaceInv, NEW p \in Request, NEW u, request[p].user \in {u, None},
           request'[p].user \in {u, None}, \A z \in Request \ {p} : request'[z] = request[z],
           \A v \in User \ {u} :
                /\ session'[v] = session[v] /\ (v \in crossed' <=> v \in crossed)
                /\ \A s \in Socket : s \in (Admitted(v) \ late)' =>
                        s \in Admitted(v) \ late /\ sock'[s].device = sock[s].device,
           u \in User =>
                /\ \A s \in Socket : s \in (Admitted(u) \ late)' =>
                        session'[u] \in {None, sock'[s].device}
                /\ \A q \in Request : request'[q].user = u /\ u \notin crossed' =>
                        Undisturbed(q, u)'
    PROVE  Placed' /\ Alone'
<1>1. ASSUME NEW v \in User, NEW s \in Socket, s \in (Admitted(v) \ late)'
      PROVE  session'[v] \in {None, sock'[s].device}
  <2>1. CASE v = u
    BY <1>1, <2>1
  <2>2. CASE v # u
    BY <1>1, <2>2 DEF PlaceInv, Placed
  <2> QED BY <2>1, <2>2
<1>2. ASSUME NEW q \in Request, NEW v \in User, request'[q].user = v, v \notin crossed'
      PROVE  Undisturbed(q, v)'
  <2>1. CASE v = u
    BY <1>2, <2>1
  <2>2. CASE v # u
    BY <1>2, <2>2, OthersAlone
  <2> QED BY <2>1, <2>2
<1> QED BY <1>1, <1>2 DEF Placed, Alone

LEMMA AdmittedSame ==
    ASSUME UNCHANGED sock
    PROVE  \A v : Admitted(v)' = Admitted(v)
BY DEF Admitted

\* What a request finds when it is received.
LEMMA ReceivedAlone ==
    ASSUME PlaceInv, NEW p \in Request, NEW u \in User, NEW stage, NEW d,
           Receive(p, u, stage, d)
    PROVE  /\ request[p].user = None
           /\ request'[p] = [stage |-> stage, user |-> u, device |-> d]
           /\ \A z \in Request \ {p} : request'[z] = request[z]
           /\ \A v \in User \ {u} : v \in crossed' <=> v \in crossed
           /\ u \notin crossed' => \A q \in Request : request'[q].user = u => q = p
<1>1. /\ request[p] = NoRequest /\ request \in [Request -> Handler]
      /\ request' = [request EXCEPT ![p] = [stage |-> stage, user |-> u, device |-> d]]
      /\ crossed' = IF Serving(u) = {} THEN crossed \ {u} ELSE crossed \cup {u}
  BY DEF Receive, PlaceInv, KnownInv, IndInv, Sockets
<1>2. u \notin crossed' => \A q \in Request : request[q].user # u
  BY <1>1 DEF Serving
<1> QED BY <1>1, <1>2 DEF NoRequest

LEMMA LoginFindPlaced ==
    ASSUME PlaceInv, NEW p \in Request, NEW u \in User, NEW d \in LogsIn[u], LoginFind(p, u, d)
    PROVE  Placed' /\ Alone'
<1> DEFINE stage == IF session[u] # None THEN "revoke" ELSE "upsert"
           c == [stage |-> stage, user |-> u, device |-> d]
<1>1. /\ Receive(p, u, stage, d) /\ session' = session /\ sock' = sock
      /\ late' = IF session[u] # None THEN late ELSE late \cup Admitted(u)
  BY DEF LoginFind
<1>3. stage \in {"revoke", "upsert"} /\ (stage = "upsert" => session[u] = None)
  OBVIOUS
<1>4. c.user = u /\ c.stage = stage
  OBVIOUS
<1> HIDE DEF stage
<1>5. /\ request[p].user = None /\ request'[p] = c
      /\ \A z \in Request \ {p} : request'[z] = request[z]
      /\ \A v \in User \ {u} : v \in crossed' <=> v \in crossed
      /\ u \notin crossed' => \A q \in Request : request'[q].user = u => q = p
  BY <1>1, ReceivedAlone
<1> HIDE DEF c
<1>6. \A v : Admitted(v)' = Admitted(v)
  BY <1>1, AdmittedSame
<1>7. \A v \in User, s \in Socket : s \in (Admitted(v) \ late)' => s \in Admitted(v) \ late
  BY <1>1, <1>6
<1>8. \A s \in Socket : s \in (Admitted(u) \ late)' => session'[u] \in {None, sock'[s].device}
  BY <1>1, <1>7 DEF PlaceInv, Placed
<1>9. session[u] = None => Admitted(u)' \subseteq late'
  BY <1>1, <1>6
<1>10. ASSUME NEW q \in Request, request'[q].user = u, u \notin crossed' PROVE Undisturbed(q, u)'
  <2>1. q = p
    BY <1>5, <1>10
  <2>2. request'[p].stage \in {"revoke", "upsert"}
    BY <1>3, <1>4, <1>5
  <2>3. request'[p].stage = "upsert" => session[u] = None
    BY <1>3, <1>4, <1>5
  <2> QED BY <1>1, <1>5, <1>9, <1>10, <2>1, <2>2, <2>3 DEF Undisturbed
<1> QED BY <1>1, <1>4, <1>5, <1>7, <1>8, <1>10, RequestPlaced

LEMMA RefreshPlaced ==
    ASSUME PlaceInv, NEW p \in Request, NEW u \in User, Refresh(p, u)
    PROVE  Placed' /\ Alone'
<1> DEFINE c == [stage |-> "save", user |-> u, device |-> session[u]]
<1>1. /\ Receive(p, u, "save", session[u]) /\ session' = session /\ sock' = sock
      /\ late' = late /\ session[u] # None
  BY DEF Refresh
<1>3. c.user = u /\ c.stage = "save" /\ c.device = session[u]
  OBVIOUS
<1>4. /\ request[p].user = None /\ request'[p] = c
      /\ \A z \in Request \ {p} : request'[z] = request[z]
      /\ \A v \in User \ {u} : v \in crossed' <=> v \in crossed
      /\ u \notin crossed' => \A q \in Request : request'[q].user = u => q = p
  BY <1>1, ReceivedAlone
<1> HIDE DEF c
<1>5. \A v : Admitted(v)' = Admitted(v)
  BY <1>1, AdmittedSame
<1>6. \A s \in Admitted(u) \ late : s \in Socket /\ sock[s].device = session[u]
  BY <1>1 DEF PlaceInv, Placed, Admitted
<1>7. ASSUME NEW q \in Request, request'[q].user = u, u \notin crossed' PROVE Undisturbed(q, u)'
  <2>1. q = p
    BY <1>4, <1>7
  <2> QED BY <1>1, <1>3, <1>4, <1>5, <1>6, <1>7, <2>1 DEF Undisturbed
<1>8. \A v \in User, s \in Socket : s \in (Admitted(v) \ late)' => s \in Admitted(v) \ late
  BY <1>1, <1>5
<1>9. \A s \in Socket : s \in (Admitted(u) \ late)' => session'[u] \in {None, sock'[s].device}
  BY <1>1, <1>8 DEF PlaceInv, Placed
<1> QED BY <1>1, <1>3, <1>4, <1>7, <1>8, <1>9, RequestPlaced

LEMMA LoginRevokePlaced ==
    ASSUME PlaceInv, NEW p \in Request, LoginRevoke(p)
    PROVE  Placed' /\ Alone'
<1>0. PICK u : u = request[p].user
  OBVIOUS
<1> DEFINE c == [request[p] EXCEPT !.stage = "kick"]
<1>1. /\ request \in [Request -> Handler] /\ session \in [User -> Device \cup {None}]
      /\ session' = [session EXCEPT ![u] = None] /\ sock' = sock /\ late' = late
      /\ crossed' = crossed /\ request' = [request EXCEPT ![p] = c]
  BY <1>0 DEF LoginRevoke, Goes, PlaceInv, KnownInv, IndInv, Sockets
<1>2. c.user = u /\ c.stage = "kick"
  BY <1>0, <1>1 DEF Handler
<1>3. request'[p] = c /\ \A q \in Request \ {p} : request'[q] = request[q]
  BY <1>1
<1> HIDE DEF c
<1>4. \A v : Admitted(v)' = Admitted(v)
  BY <1>1, AdmittedSame
<1>5. u \in User => session'[u] = None
  BY <1>1
<1>6. ASSUME u \in User, NEW q \in Request, request'[q].user = u, u \notin crossed'
      PROVE  Undisturbed(q, u)'
  <2>1. Undisturbed(p, u)
    BY <1>0, <1>1, <1>6 DEF PlaceInv, Alone
  <2>2. \A z \in Request : request'[z].user = u => z = p
    BY <1>2, <1>3, <2>1 DEF Undisturbed
  <2> QED BY <1>2, <1>3, <1>5, <1>6, <2>2 DEF Undisturbed
<1>7. \A v \in User \ {u} :
        /\ session'[v] = session[v] /\ (v \in crossed' <=> v \in crossed)
        /\ \A s \in Socket : s \in (Admitted(v) \ late)' =>
                s \in Admitted(v) \ late /\ sock'[s].device = sock[s].device
  BY <1>1, <1>4
<1>8. request[p].user \in {u, None} /\ request'[p].user \in {u, None}
  BY <1>0, <1>2, <1>3
<1> QED BY <1>1, <1>3, <1>5, <1>6, <1>7, <1>8, RequestPlaced

LEMMA LoginKickPlaced ==
    ASSUME PlaceInv, NEW p \in Request, LoginKick(p)
    PROVE  Placed' /\ Alone'
<1>0. PICK u : u = request[p].user
  OBVIOUS
<1> DEFINE c == [request[p] EXCEPT !.stage = "upsert"]
<1>1. /\ request \in [Request -> Handler] /\ request[p].stage = "kick"
      /\ session' = session /\ crossed' = crossed /\ request' = [request EXCEPT ![p] = c]
      /\ late' = (late \cup Admitted(u)) \ Room(u)
      /\ Disconnect(Room(u)) /\ Room(u) \in SUBSET Socket /\ IndInv
  BY <1>0 DEF LoginKick, Goes, PlaceInv, KnownInv, IndInv, Sockets, Room
<1>2. c.user = u /\ c.stage = "upsert"
  BY <1>0, <1>1 DEF Handler
<1>3. request'[p] = c /\ \A q \in Request \ {p} : request'[q] = request[q]
  BY <1>1
<1> HIDE DEF c
<1>4. ASSUME NEW v \in User, NEW s \in Socket, s \in Admitted(v)'
      PROVE  s \notin Room(u) /\ s \in Admitted(v) /\ sock'[s] = sock[s]
  BY <1>1, <1>4, ClosedNotAdmitted
<1>5. \A v \in User, s \in Socket : s \in (Admitted(v) \ late)' =>
            s \in Admitted(v) \ late /\ sock'[s] = sock[s]
  BY <1>1, <1>4
<1>6. ASSUME u \in User PROVE Admitted(u)' \subseteq late'
  <2>1. Admitted(u)' \subseteq Socket
    BY DEF Admitted
  <2> QED BY <1>1, <1>4, <1>6, <2>1
<1>7. ASSUME u \in User, NEW q \in Request, request'[q].user = u, u \notin crossed'
      PROVE  Undisturbed(q, u)'
  <2>1. Undisturbed(p, u)
    BY <1>0, <1>1, <1>7 DEF PlaceInv, Alone
  <2>2. \A z \in Request : request'[z].user = u => z = p
    BY <1>2, <1>3, <2>1 DEF Undisturbed
  <2>3. session'[u] = None
    BY <1>1, <1>7, <2>1 DEF Undisturbed
  <2>4. q = p /\ request'[p].stage = "upsert"
    BY <1>2, <1>3, <1>7, <2>2
  <2> QED BY <1>6, <1>7, <2>2, <2>3, <2>4 DEF Undisturbed
<1>8. \A v \in User \ {u} :
        /\ session'[v] = session[v] /\ (v \in crossed' <=> v \in crossed)
        /\ \A s \in Socket : s \in (Admitted(v) \ late)' =>
                s \in Admitted(v) \ late /\ sock'[s].device = sock[s].device
  BY <1>1, <1>5
<1>9. u \in User => \A s \in Socket : s \in (Admitted(u) \ late)' =>
            session'[u] \in {None, sock'[s].device}
  BY <1>6
<1>10. request[p].user \in {u, None} /\ request'[p].user \in {u, None}
  BY <1>0, <1>2, <1>3
<1> QED BY <1>1, <1>3, <1>7, <1>8, <1>9, <1>10, RequestPlaced

\* The session is saved with the device the request has in memory, c being what
\* the request becomes.
LEMMA SavePlaced ==
    ASSUME PlaceInv, NEW p \in Request, NEW c, SaveSession(p),
           request' = [request EXCEPT ![p] = c],
           \/ request[p].stage = "upsert" /\ c.stage = "save"
              /\ c.user = request[p].user /\ c.device = request[p].device
           \/ request[p].stage = "save" /\ c.user = None
    PROVE  Placed' /\ Alone'
<1>0. PICK u, d : u = request[p].user /\ d = request[p].device
  OBVIOUS
<1>1. /\ request \in [Request -> Handler] /\ session \in [User -> Device \cup {None}]
      /\ session' = [session EXCEPT ![u] = d] /\ sock' = sock /\ crossed' = crossed
      /\ late' = IF u \in crossed
                 THEN late \cup {s \in Admitted(u) : sock[s].device # d} ELSE late
  BY <1>0 DEF SaveSession, PlaceInv, KnownInv, IndInv, Sockets
<1>2. request'[p] = c /\ \A q \in Request \ {p} : request'[q] = request[q]
  BY <1>1
<1>3. \A v : Admitted(v)' = Admitted(v)
  BY <1>1, AdmittedSame
<1>4. u \in User => session'[u] = d
  BY <1>1
<1>5. late \subseteq late'
  BY <1>1
<1>6. ASSUME u \in User, u \notin crossed
      PROVE  /\ Undisturbed(p, u)
             /\ \A s \in Admitted(u) \ late : sock[s].device = d
  <2>1. Undisturbed(p, u)
    BY <1>0, <1>6 DEF PlaceInv, Alone
  <2>2. request[p].stage \in {"upsert", "save"}
    OBVIOUS
  <2> QED BY <1>0, <2>1, <2>2 DEF Undisturbed
<1>7. ASSUME u \in User, NEW s \in Socket, s \in (Admitted(u) \ late)'
      PROVE  session'[u] \in {None, sock'[s].device}
  <2>1. s \in Admitted(u) \ late /\ s \notin late'
    BY <1>3, <1>5, <1>7 DEF Admitted
  <2>2. sock[s].device = d
    BY <1>1, <1>6, <1>7, <2>1
  <2> QED BY <1>1, <1>4, <1>7, <2>2
<1>8. ASSUME u \in User, NEW q \in Request, request'[q].user = u, u \notin crossed'
      PROVE  Undisturbed(q, u)'
  <2>1. /\ Undisturbed(p, u) /\ late' = late
        /\ \A s \in Admitted(u) \ late : sock[s].device = d
    BY <1>1, <1>6, <1>8
  <2>2. q = p
    BY <1>2, <1>8, <2>1 DEF Undisturbed
  <2>3. c.user = u
    BY <1>2, <1>8, <2>2
  <2>4. u # None
    BY <1>8, PresenceAssumption
  <2>5. request'[p].stage = "save" /\ request'[p].device = d
    BY <1>0, <1>2, <2>3, <2>4
  <2>6. \A z \in Request : request'[z].user = u => z = p
    BY <1>0, <1>2, <2>1, <2>3 DEF Undisturbed
  <2> QED BY <1>1, <1>3, <1>4, <1>8, <2>1, <2>2, <2>5, <2>6 DEF Undisturbed
<1>9. \A v \in User \ {u} :
        /\ session'[v] = session[v] /\ (v \in crossed' <=> v \in crossed)
        /\ \A s \in Socket : s \in (Admitted(v) \ late)' =>
                s \in Admitted(v) \ late /\ sock'[s].device = sock[s].device
  BY <1>1, <1>3, <1>5
<1>10. request[p].user \in {u, None} /\ request'[p].user \in {u, None}
  BY <1>0, <1>2
<1> QED BY <1>2, <1>7, <1>8, <1>9, <1>10, RequestPlaced

LEMMA ActivatePlaced ==
    ASSUME PlaceInv, NEW p \in Request, LoginActivate(p) \/ LastSave(p)
    PROVE  Placed' /\ Alone'
<1>1. request \in [Request -> Handler]
  BY DEF PlaceInv, KnownInv, IndInv, Sockets
<1>2. CASE LoginActivate(p)
  <2> DEFINE c == [request[p] EXCEPT !.stage = "save"]
  <2>1. /\ SaveSession(p) /\ request' = [request EXCEPT ![p] = c] /\ request[p].stage = "upsert"
    BY <1>1, <1>2 DEF LoginActivate, Goes
  <2>2. c.stage = "save" /\ c.user = request[p].user /\ c.device = request[p].device
    BY <1>1 DEF Handler
  <2> HIDE DEF c
  <2> QED BY <2>1, <2>2, SavePlaced
<1>3. CASE LastSave(p)
  <2>1. /\ SaveSession(p) /\ request' = [request EXCEPT ![p] = NoRequest]
        /\ request[p].stage = "save" /\ NoRequest.user = None
    BY <1>3 DEF LastSave, Ends, NoRequest
  <2> QED BY <2>1, SavePlaced
<1> QED BY <1>2, <1>3

LEMMA FailPlaced ==
    ASSUME PlaceInv, NEW p \in Request, Fail(p)
    PROVE  Placed' /\ Alone'
<1>0. PICK u : u = request[p].user
  OBVIOUS
<1>1. /\ request \in [Request -> Handler] /\ request' = [request EXCEPT ![p] = NoRequest]
      /\ UNCHANGED <<session, crossed, sock, late>> /\ NoRequest.user = None
  BY DEF Fail, Ends, PlaceInv, KnownInv, IndInv, Sockets, NoRequest
<1>2. request'[p] = NoRequest /\ \A q \in Request \ {p} : request'[q] = request[q]
  BY <1>1
<1>3. \A v : Admitted(v)' = Admitted(v)
  BY <1>1, AdmittedSame
<1>4. u \in User => \A s \in Socket : s \in (Admitted(u) \ late)' =>
            session'[u] \in {None, sock'[s].device}
  BY <1>1, <1>3 DEF PlaceInv, Placed
<1>5. ASSUME u \in User, NEW q \in Request, request'[q].user = u, u \notin crossed'
      PROVE  Undisturbed(q, u)'
  <2>1. u # None
    BY <1>5, PresenceAssumption
  <2>2. q # p /\ request[q].user = u
    BY <1>1, <1>2, <1>5, <2>1
  <2>3. Undisturbed(p, u)
    BY <1>0, <1>1, <1>5 DEF PlaceInv, Alone
  <2> QED BY <2>2, <2>3 DEF Undisturbed
<1>6. \A v \in User \ {u} :
        /\ session'[v] = session[v] /\ (v \in crossed' <=> v \in crossed)
        /\ \A s \in Socket : s \in (Admitted(v) \ late)' =>
                s \in Admitted(v) \ late /\ sock'[s].device = sock[s].device
  BY <1>1, <1>3
<1>7. request[p].user \in {u, None} /\ request'[p].user \in {u, None}
  BY <1>0, <1>1, <1>2
<1> QED BY <1>1, <1>2, <1>4, <1>5, <1>6, <1>7, RequestPlaced

LEMMA LogoutPlaced ==
    ASSUME PlaceInv, NEW u \in User, Logout(u)
    PROVE  Placed' /\ Alone'
<1>1. /\ session[u] # None /\ session \in [User -> Device \cup {None}]
      /\ session' = [session EXCEPT ![u] = None]
      /\ request' = request /\ crossed' = crossed /\ sock' = sock /\ late' = late
  BY DEF Logout, PlaceInv, KnownInv, IndInv, Sockets
<1>2. \A v \in User : session'[v] = IF v = u THEN None ELSE session[v]
  BY <1>1
<1>3. \A v : Admitted(v)' = Admitted(v)
  BY <1>1, AdmittedSame
<1>4. Placed'
  BY <1>1, <1>2, <1>3 DEF PlaceInv, Placed
<1>5. ASSUME NEW p \in Request, NEW v \in User, request'[p].user = v, v \notin crossed'
      PROVE  Undisturbed(p, v)'
  <2>1. Undisturbed(p, v)
    BY <1>1, <1>5 DEF PlaceInv, Alone
  <2> QED BY <1>1, <1>2, <1>3, <2>1 DEF Undisturbed
<1> QED BY <1>4, <1>5 DEF Alone

LEMMA RestartPlaced ==
    ASSUME PlaceInv, Restart
    PROVE  Placed' /\ Alone'
<1>1. \A s \in Socket : sock'[s] \in {NoConnection, Gone}
  BY DEF Restart
<1>2. \A s \in Socket : ~sock'[s].open
  BY <1>1, GoneTyped DEF NoConnection
<1>3. \A p \in Request : request'[p].user = None
  BY DEF Restart, NoRequest
<1> QED BY <1>2, <1>3, PresenceAssumption DEF Placed, Admitted, Alone

LEMMA NextPlaced == PlaceInv /\ [Next]_vars => PlaceInv'
<1> SUFFICES ASSUME PlaceInv, [Next]_vars PROVE Placed' /\ Alone'
  BY NextKnown DEF PlaceInv
<1>1. ASSUME UNCHANGED vars PROVE Placed' /\ Alone'
  <2>1. UNCHANGED <<session, request, crossed, sock, late>>
    BY <1>1 DEF vars, requests
  <2>2. \A v : Admitted(v)' = Admitted(v)
    BY <2>1, AdmittedSame
  <2> QED BY <2>1, <2>2, NobodyAdmitted
<1>2. ASSUME NEW p \in Request,
             \/ \E u \in User : Refresh(p, u) \/ \E d \in LogsIn[u] : LoginFind(p, u, d)
             \/ LoginRevoke(p) \/ LoginKick(p) \/ LoginActivate(p) \/ LastSave(p) \/ Fail(p)
      PROVE  Placed' /\ Alone'
  BY <1>2, RefreshPlaced, LoginFindPlaced, LoginRevokePlaced, LoginKickPlaced, ActivatePlaced,
     FailPlaced
<1> QED BY <1>1, <1>2, GatewayPlaced, DisconnectPlaced, LogoutPlaced, RestartPlaced DEF Next

\* A login moves a user from one device to the other for good: with any number of
\* logins, refreshes and logouts in flight, no app stays in the registry for the
\* user on another device than the session's, but for the sockets that a login
\* could not know of, and those that overlapping requests leave behind.
THEOREM OneDeviceAtATime == Spec => []OnePlace
<1>1. Init => PlaceInv
  <2>1. Init => KnownInv
    BY InitInv DEF Init, KnownInv, Registered, Replaced, NoConnection, NoPresence
  <2> QED BY <2>1, PresenceAssumption
          DEF Init, PlaceInv, Placed, Alone, Admitted, NoConnection, NoRequest
<1>2. PlaceInv => OnePlace
  <2> SUFFICES ASSUME PlaceInv, NEW s \in bySocket \ late, sock[s].open
               PROVE  session[presence[s].userId] \in {None, presence[s].deviceId}
    BY DEF OnePlace
  <2>1. s \in Socket /\ sock[s].stage = "in" /\ presence[s] \in Presence
    BY DEF PlaceInv, KnownInv, IndInv, Maps, MapsAgree, Sockets
  <2>2. /\ presence[s].userId = sock[s].user /\ presence[s].deviceId = sock[s].device
        /\ sock[s].device # None /\ sock[s].user \in User
    BY <2>1 DEF PlaceInv, KnownInv, Registered, Presence
  <2>3. s \in Admitted(sock[s].user) \ late
    BY <2>1, <2>2 DEF Admitted
  <2> QED BY <2>2, <2>3, <2>1 DEF PlaceInv, Placed
<1> QED BY <1>1, <1>2, NextPlaced, PTL DEF Spec

-----------------------------------------------------------------------------
(* The indicator, when no device is used by two users.                       *)

Unshared == \A u, v \in User : LogsIn[u] \cap LogsIn[v] # {} => u = v

\* Whoever holds a device, in any of the tables, logs in from it.
SessionOwners ==
    /\ \A u \in User : session[u] # None => session[u] \in LogsIn[u]
    /\ \A p \in Request : request[p].user \in User =>
            request[p].device \in LogsIn[request[p].user]
LoadedOwners ==
    \A s \in Socket : sock[s].stage = "loaded" /\ sock[s].device # None
            => sock[s].device \in LogsIn[sock[s].user]
PresenceOwners ==
    \A s \in bySocket : presence[s].deviceId \in LogsIn[presence[s].userId]
Owners == SessionOwners /\ LoadedOwners /\ PresenceOwners

IndicatorInv == IndInv /\ Owners /\ IndicatorCurrent

\* The presences of v depend on what the maps hold for v only.
LEMMA PresencesSame ==
    ASSUME NEW v \in User,
           \A e \in Device :
                \/ /\ byDevice[e] = None \/ presence[byDevice[e]].userId # v
                   /\ byDevice'[e] = None \/ presence'[byDevice'[e]].userId # v
                \/ /\ byDevice[e] = byDevice'[e]
                   /\ presence'[byDevice'[e]] = presence[byDevice[e]]
    PROVE  Indicator(v)' = Indicator(v)
<1> DEFINE D == {e \in Device : byDevice[e] # None /\ presence[byDevice[e]].userId = v}
           E == {e \in Device : byDevice'[e] # None /\ presence'[byDevice'[e]].userId = v}
<1>1. D = E
  OBVIOUS
<1>2. \A e \in D : presence'[byDevice'[e]] = presence[byDevice[e]]
  OBVIOUS
<1>3. [e \in D |-> presence[byDevice[e]]] = [e \in E |-> presence'[byDevice'[e]]]
  <2> HIDE DEF D, E
  <2> QED BY <1>1, <1>2
<1>4. MyPresences(v)' = MyPresences(v)
  BY <1>3 DEF MyPresences
<1> QED BY <1>4 DEF Indicator

LEMMA EmittedToAll ==
    ASSUME IndicatorCurrent, view \in [User -> IndicatorType], NEW us, EmitPresence(us),
           \A v \in User : v \notin us => Indicator(v)' = Indicator(v)
    PROVE  IndicatorCurrent'
BY DEF IndicatorCurrent, EmitPresence

LEMMA IndicatorSame == IndicatorCurrent /\ UNCHANGED registry => IndicatorCurrent'
BY DEF IndicatorCurrent, registry, Indicator, MyPresences

LEMMA SetIndicator ==
    ASSUME Unshared, IndicatorInv, NEW s \in Socket, s \notin bySocket, NEW p \in Presence,
           Set(s, p), p.deviceId \in LogsIn[p.userId]
    PROVE  IndicatorCurrent'
<1> DEFINE d == p.deviceId
           u == p.userId
<1>1. /\ d \in Device /\ u \in User /\ d \in LogsIn[u] /\ s # None
      /\ byDevice' = [byDevice EXCEPT ![d] = s]
      /\ presence' = [presence EXCEPT ![s] = p] /\ p.userId = u
      /\ EmitPresence({u})
  BY PresenceAssumption DEF Set, Presence
<1> HIDE DEF d, u
<1>2. ASSUME NEW v \in User, v # u PROVE Indicator(v)' = Indicator(v)
  <2>1. ASSUME NEW e \in Device
        PROVE  \/ /\ byDevice[e] = None \/ presence[byDevice[e]].userId # v
                  /\ byDevice'[e] = None \/ presence'[byDevice'[e]].userId # v
               \/ /\ byDevice[e] = byDevice'[e]
                  /\ presence'[byDevice'[e]] = presence[byDevice[e]]
    <3>1. CASE e = d
      <4>1. byDevice'[e] = s /\ presence'[s] = p
        BY <1>1, <3>1 DEF IndicatorInv, IndInv, Maps
      <4>2. presence'[byDevice'[e]].userId # v
        BY <1>1, <1>2, <4>1
      <4>3. ASSUME byDevice[e] # None PROVE presence[byDevice[e]].userId # v
        <5>1. byDevice[d] \in bySocket /\ presence[byDevice[d]].deviceId = d
          BY <1>1, <3>1, <4>3 DEF IndicatorInv, IndInv, Maps, MapsAgree
        <5>2. d \in LogsIn[presence[byDevice[d]].userId]
          BY <5>1 DEF IndicatorInv, Owners, PresenceOwners
        <5> QED BY <1>1, <1>2, <3>1, <5>2 DEF Unshared
      <4> QED BY <4>2, <4>3
    <3>2. CASE e # d
      <4>1. byDevice'[e] = byDevice[e]
        BY <1>1, <3>2 DEF IndicatorInv, IndInv, Maps
      <4>2. CASE byDevice[e] = None
        BY <4>1, <4>2
      <4>3. CASE byDevice[e] # None
        <5>1. byDevice[e] \in bySocket /\ byDevice[e] # s
          BY <4>3 DEF IndicatorInv, IndInv, Maps, MapsAgree
        <5>2. presence'[byDevice[e]] = presence[byDevice[e]]
          BY <1>1, <5>1 DEF IndicatorInv, IndInv, Maps
        <5> QED BY <4>1, <5>2
      <4> QED BY <4>2, <4>3
    <3> QED BY <3>1, <3>2
  <2> QED BY <2>1, PresencesSame
<1>3. view \in [User -> IndicatorType] /\ IndicatorCurrent
  BY DEF IndicatorInv, IndInv, Maps
<1> QED BY <1>1, <1>2, <1>3, EmittedToAll

LEMMA DeleteIndicator ==
    ASSUME IndicatorInv, NEW K \in SUBSET Socket, DeleteBySocket(K), UNCHANGED connects
    PROVE  IndicatorCurrent'
<1> DEFINE us == {presence[s].userId : s \in {t \in K \cap bySocket : ~Stale(t)}}
<1>1. /\ EmitPresence(us) /\ presence' = presence
  BY DEF DeleteBySocket
<1>2. \A d \in Device : byDevice'[d] = IF byDevice[d] \in K THEN None ELSE byDevice[d]
  BY DeleteMaps DEF IndicatorInv, IndInv
<1>3. ASSUME NEW v \in User, v \notin us PROVE Indicator(v)' = Indicator(v)
  <2>1. ASSUME NEW e \in Device
        PROVE  \/ /\ byDevice[e] = None \/ presence[byDevice[e]].userId # v
                  /\ byDevice'[e] = None \/ presence'[byDevice'[e]].userId # v
               \/ /\ byDevice[e] = byDevice'[e]
                  /\ presence'[byDevice'[e]] = presence[byDevice[e]]
    <3>1. CASE byDevice[e] \in K
      <4>1. byDevice[e] # None /\ byDevice'[e] = None
        BY <1>2, <3>1, PresenceAssumption
      <4>2. byDevice[e] \in bySocket /\ presence[byDevice[e]].deviceId = e
        BY <4>1 DEF IndicatorInv, IndInv, Maps, MapsAgree
      <4>3. ~Stale(byDevice[e])
        BY <4>2 DEF Stale
      <4>4. presence[byDevice[e]].userId \in us
        BY <3>1, <4>2, <4>3
      <4> QED BY <1>3, <4>1, <4>4
    <3>2. CASE byDevice[e] \notin K
      BY <1>1, <1>2, <3>2
    <3> QED BY <3>1, <3>2
  <2> QED BY <2>1, PresencesSame
<1>4. view \in [User -> IndicatorType] /\ IndicatorCurrent
  BY DEF IndicatorInv, IndInv, Maps
<1> HIDE DEF us
<1> QED BY <1>1, <1>3, <1>4, EmittedToAll

LEMMA MutateIndicator ==
    ASSUME IndicatorInv, NEW s \in Socket, NEW p, Mutate(s, p), UNCHANGED connects,
           s \in bySocket => p.userId = presence[s].userId
    PROVE  IndicatorCurrent'
<1>1. CASE s \in bySocket
  <2>1. /\ presence' = [presence EXCEPT ![s] = p] /\ byDevice' = byDevice
        /\ EmitPresence({p.userId}) /\ p.userId = presence[s].userId
    BY <1>1 DEF Mutate
  <2>2. ASSUME NEW v \in User, v # p.userId PROVE Indicator(v)' = Indicator(v)
    <3>1. ASSUME NEW e \in Device, byDevice[e] # None
          PROVE  \/ /\ presence[byDevice[e]].userId # v
                    /\ presence'[byDevice'[e]].userId # v
                 \/ /\ byDevice[e] = byDevice'[e]
                    /\ presence'[byDevice'[e]] = presence[byDevice[e]]
      <4>1. byDevice[e] \in Socket
        BY <3>1 DEF IndicatorInv, IndInv, Maps
      <4>2. presence'[byDevice[e]] = IF byDevice[e] = s THEN p ELSE presence[byDevice[e]]
        BY <2>1, <4>1 DEF IndicatorInv, IndInv, Maps
      <4> QED BY <2>1, <2>2, <4>2
    <3>2. \A e \in Device : byDevice'[e] = byDevice[e]
      BY <2>1
    <3> QED BY <3>1, <3>2, PresencesSame
  <2>3. view \in [User -> IndicatorType] /\ IndicatorCurrent
    BY DEF IndicatorInv, IndInv, Maps
  <2> QED BY <2>1, <2>2, <2>3, EmittedToAll
<1>2. CASE s \notin bySocket
  BY <1>2 DEF Mutate, IndicatorInv, IndicatorCurrent, Indicator, MyPresences
<1> QED BY <1>1, <1>2

\* A step of one socket without a presence, or of none, keeps the registry.
LEMMA OneSocketIndicator ==
    ASSUME IndicatorInv, NEW s \in Socket, NEW c, sock' = [sock EXCEPT ![s] = c],
           c.stage = "loaded" /\ c.device # None => c.device \in LogsIn[c.user],
           UNCHANGED <<session, request, crossed, registry>>
    PROVE  Owners' /\ IndicatorCurrent'
<1>1. IndicatorCurrent'
  BY IndicatorSame DEF IndicatorInv
<1>2. \A t \in Socket : sock'[t] = IF t = s THEN c ELSE sock[t]
  BY DEF IndicatorInv, IndInv, Sockets
<1>3. LoadedOwners'
  BY <1>2 DEF LoadedOwners, IndicatorInv, Owners
<1>4. SessionOwners' /\ PresenceOwners'
  BY DEF SessionOwners, PresenceOwners, IndicatorInv, Owners, registry
<1> QED BY <1>1, <1>3, <1>4 DEF Owners

LEMMA ConnectIndicator ==
    ASSUME IndicatorInv, NEW s \in Socket, NEW u \in User, NEW w \in BOOLEAN,
           Connect(s, u, w)
    PROVE  Owners' /\ IndicatorCurrent'
<1> DEFINE c == [stage |-> IF w THEN "web" ELSE "query", open |-> TRUE, user |-> u,
                 device |-> None]
<1>1. c.stage # "loaded" /\ sock' = [sock EXCEPT ![s] = c]
      /\ UNCHANGED <<session, request, crossed, registry>>
  BY DEF Connect, requests
<1> HIDE DEF c
<1> QED BY <1>1, OneSocketIndicator

LEMMA QuerySessionIndicator ==
    ASSUME IndicatorInv, NEW s \in Socket, QuerySession(s)
    PROVE  Owners' /\ IndicatorCurrent'
<1> DEFINE c == [sock[s] EXCEPT !.stage = "loaded", !.device = session[sock[s].user]]
<1>1. sock[s].user \in User /\ sock[s] \in Connection
  BY DEF IndicatorInv, IndInv, Sockets, QuerySession
<1>2. c.device = session[sock[s].user] /\ c.user = sock[s].user
  BY <1>1 DEF Connection
<1>3. c.device # None => c.device \in LogsIn[c.user]
  BY <1>1, <1>2 DEF IndicatorInv, Owners, SessionOwners
<1>4. sock' = [sock EXCEPT ![s] = c] /\ UNCHANGED <<session, request, crossed, registry>>
  BY DEF QuerySession, IndicatorInv, IndInv, Sockets, requests
<1> HIDE DEF c
<1> QED BY <1>3, <1>4, OneSocketIndicator

LEMMA RefuseIndicator ==
    ASSUME IndicatorInv, NEW s \in Socket, Refuse(s)
    PROVE  Owners' /\ IndicatorCurrent'
<1>1. sock' = [sock EXCEPT ![s] = Gone] /\ UNCHANGED <<session, request, crossed, registry>>
  BY DEF Refuse, requests
<1>2. Gone.stage # "loaded"
  BY GoneTyped
<1> QED BY <1>1, <1>2, OneSocketIndicator

LEMMA RegisterIndicator ==
    ASSUME Unshared, IndicatorInv, NEW s \in Socket, NEW w \in BOOLEAN, Register(s, w)
    PROVE  Owners' /\ IndicatorCurrent'
<1> DEFINE p == NewPresence(sock[s], w)
<1>1. /\ p \in Presence /\ s \notin bySocket
      /\ p.userId = sock[s].user /\ p.deviceId = sock[s].device
  BY NewPresenceTyped DEF IndicatorInv
<1>2. /\ Set(s, p) /\ sock[s].stage = "loaded" /\ sock[s].device # None
      /\ sock' = [sock EXCEPT ![s].stage = "in"] /\ UNCHANGED <<session, request, crossed>>
  BY DEF Register, requests
<1> HIDE DEF p
<1>3. p.deviceId \in LogsIn[p.userId]
  BY <1>1, <1>2 DEF IndicatorInv, Owners, LoadedOwners
<1>4. IndicatorCurrent'
  BY <1>1, <1>2, <1>3, SetIndicator
<1>5. SessionOwners'
  BY <1>2 DEF SessionOwners, IndicatorInv, Owners
<1>6. \A t \in Socket : /\ t # s => sock'[t] = sock[t]
                        /\ sock'[s].stage = "in"
  BY <1>2 DEF IndicatorInv, IndInv, Sockets, Connection
<1>7. LoadedOwners'
  BY <1>6 DEF LoadedOwners, IndicatorInv, Owners
<1>8. \A t \in bySocket' : /\ t = s \/ t \in bySocket
                           /\ presence'[t] = IF t = s THEN p ELSE presence[t]
  BY <1>2 DEF Set, IndicatorInv, IndInv, Maps
<1>9. PresenceOwners'
  BY <1>3, <1>8 DEF PresenceOwners, IndicatorInv, Owners
<1> QED BY <1>4, <1>5, <1>7, <1>9 DEF Owners

LEMMA TalkIndicator ==
    ASSUME IndicatorInv, NEW s \in Socket, NEW p, Mutate(s, p),
           s \in bySocket =>
                p.deviceId = presence[s].deviceId /\ p.userId = presence[s].userId,
           UNCHANGED <<session, request, crossed, sock, connects>>
    PROVE  Owners' /\ IndicatorCurrent'
<1>1. IndicatorCurrent'
  BY MutateIndicator
<1>2. \A t \in bySocket : t \in Socket
  BY DEF IndicatorInv, IndInv, Maps
<1>3. /\ bySocket' = bySocket
      /\ \A t \in bySocket : /\ presence'[t].deviceId = presence[t].deviceId
                             /\ presence'[t].userId = presence[t].userId
  <2>1. CASE s \in bySocket
    <3>1. bySocket' = bySocket /\ presence' = [presence EXCEPT ![s] = p]
      BY <2>1 DEF Mutate
    <3>2. \A t \in Socket : presence'[t] = IF t = s THEN p ELSE presence[t]
      BY <3>1 DEF IndicatorInv, IndInv, Maps
    <3> QED BY <1>2, <2>1, <3>1, <3>2
  <2>2. CASE s \notin bySocket
    BY <2>2 DEF Mutate
  <2> QED BY <2>1, <2>2
<1>4. PresenceOwners'
  BY <1>3 DEF PresenceOwners, IndicatorInv, Owners
<1>5. SessionOwners' /\ LoadedOwners'
  BY DEF SessionOwners, LoadedOwners, IndicatorInv, Owners
<1> QED BY <1>1, <1>4, <1>5 DEF Owners

LEMMA DisconnectIndicator ==
    ASSUME IndicatorInv, NEW K \in SUBSET Socket, Disconnect(K), UNCHANGED connects
    PROVE  LoadedOwners' /\ PresenceOwners' /\ IndicatorCurrent'
<1> DEFINE L == {s \in K : sock[s].stage # "web"}
<1>1. L \in SUBSET Socket /\ DeleteBySocket(L) /\ connects' = connects
  BY DEF Disconnect
<1>2. IndicatorCurrent' /\ bySocket' \subseteq bySocket /\ presence' = presence
  <2> HIDE DEF L
  <2> QED BY <1>1, DeleteIndicator DEF DeleteBySocket
<1>3. PresenceOwners'
  BY <1>2 DEF PresenceOwners, IndicatorInv, Owners
<1>4. ASSUME NEW s \in Socket, sock'[s].stage = "loaded"
      PROVE  /\ sock[s].stage = "loaded"
             /\ sock'[s].user = sock[s].user /\ sock'[s].device = sock[s].device
  <2>1. sock'[s] = IF s \in K THEN Closed(sock[s]) ELSE sock[s]
    BY DEF Disconnect
  <2>2. sock[s] \in Connection
    BY DEF IndicatorInv, IndInv, Sockets
  <2>3. CASE s \in K
    <3>1. sock'[s] = Closed(sock[s])
      BY <2>1, <2>3
    <3> QED BY <1>4, <2>2, <3>1, ClosedTyped
  <2>4. CASE s \notin K
    BY <1>4, <2>1, <2>4
  <2> QED BY <2>3, <2>4
<1>5. LoadedOwners'
  BY <1>4 DEF LoadedOwners, IndicatorInv, Owners
<1> QED BY <1>2, <1>3, <1>5

\* The sessions and requests, in every step of AuthService.
LEMMA ReceiveOwners ==
    ASSUME IndicatorInv, NEW p \in Request, NEW u \in User, NEW d \in LogsIn[u], NEW stage,
           Receive(p, u, stage, d), session' = session
    PROVE  SessionOwners'
<1>1. /\ request'[p].user = u /\ request'[p].device = d
      /\ \A q \in Request \ {p} : request'[q] = request[q]
  BY DEF Receive, IndicatorInv, IndInv, Sockets
<1> QED BY <1>1 DEF SessionOwners, IndicatorInv, Owners

LEMMA AuthOwners ==
    ASSUME IndicatorInv, NEW p \in Request, AuthStep(p) \/ LoginKick(p)
    PROVE  SessionOwners'
<1>1. session \in [User -> Device \cup {None}] /\ request \in [Request -> Handler]
      /\ SessionOwners
  BY DEF IndicatorInv, IndInv, Sockets, Owners
<1>2. ASSUME NEW u \in User, NEW d \in LogsIn[u], LoginFind(p, u, d) PROVE SessionOwners'
  BY <1>2, ReceiveOwners DEF LoginFind
<1>3. ASSUME NEW u \in User, Refresh(p, u) PROVE SessionOwners'
  <2>1. session[u] \in LogsIn[u]
    BY <1>1, <1>3 DEF Refresh, SessionOwners
  <2> QED BY <1>3, <2>1, ReceiveOwners DEF Refresh
<1>4. ASSUME NEW stage, Goes(p, stage) \/ Ends(p)
      PROVE  \A q \in Request : request'[q].user \in User =>
                request'[q].device \in LogsIn[request'[q].user]
  <2>1. \A q \in Request : \/ request'[q].user = None
                            \/ /\ request'[q].user = request[q].user
                               /\ request'[q].device = request[q].device
    BY <1>1, <1>4 DEF Goes, Ends, NoRequest, Handler
  <2> QED BY <1>1, <2>1, PresenceAssumption DEF SessionOwners
<1>5. ASSUME session' = session \/ session' = [session EXCEPT ![request[p].user] = None]
             \/ SaveSession(p)
      PROVE  \A u \in User : session'[u] # None => session'[u] \in LogsIn[u]
  BY <1>1, <1>5 DEF SaveSession, SessionOwners
<1>6. CASE LoginRevoke(p)
  BY <1>4, <1>5, <1>6 DEF LoginRevoke, SessionOwners
<1>7. CASE LoginKick(p)
  BY <1>4, <1>5, <1>7 DEF LoginKick, SessionOwners
<1>8. CASE LoginActivate(p)
  BY <1>4, <1>5, <1>8 DEF LoginActivate, SessionOwners
<1>9. CASE LastSave(p)
  BY <1>4, <1>5, <1>9 DEF LastSave, SessionOwners
<1>10. CASE Fail(p)
  BY <1>4, <1>5, <1>10 DEF Fail, SessionOwners
<1> QED BY <1>2, <1>3, <1>6, <1>7, <1>8, <1>9, <1>10 DEF AuthStep

LEMMA SocketsSameIndicator ==
    ASSUME IndicatorInv, SessionOwners', UNCHANGED <<sock, registry>>
    PROVE  Owners' /\ IndicatorCurrent'
<1>1. LoadedOwners' /\ PresenceOwners'
  BY DEF LoadedOwners, PresenceOwners, IndicatorInv, Owners, registry
<1>2. IndicatorCurrent'
  BY IndicatorSame DEF IndicatorInv
<1> QED BY <1>1, <1>2 DEF Owners

LEMMA AuthIndicator ==
    ASSUME IndicatorInv, NEW p \in Request, AuthStep(p) \/ LoginKick(p)
    PROVE  Owners' /\ IndicatorCurrent'
<1>1. SessionOwners'
  BY AuthOwners
<1>2. CASE LoginKick(p)
  <2>1. PICK K \in SUBSET Socket : Disconnect(K) /\ UNCHANGED connects
    BY <1>2 DEF LoginKick, Room
  <2> QED BY <1>1, <2>1, DisconnectIndicator DEF Owners
<1>3. CASE AuthStep(p)
  BY <1>1, <1>3, AuthTyped, SocketsSameIndicator DEF IndicatorInv
<1> QED BY <1>2, <1>3

LEMMA LogoutIndicator ==
    ASSUME IndicatorInv, NEW u \in User, Logout(u)
    PROVE  Owners' /\ IndicatorCurrent'
<1>1. SessionOwners'
  BY DEF Logout, SessionOwners, IndicatorInv, Owners, IndInv, Sockets
<1> QED BY <1>1, LogoutTyped, SocketsSameIndicator DEF IndicatorInv

LEMMA RestartIndicator ==
    ASSUME IndicatorInv, Restart
    PROVE  Owners' /\ IndicatorCurrent'
<1>1. SessionOwners'
  BY PresenceAssumption DEF Restart, SessionOwners, NoRequest, IndicatorInv, Owners
<1>2. \A s \in Socket : sock'[s] \in {NoConnection, Gone}
  BY DEF Restart
<1>3. \A s \in Socket : sock'[s].stage # "loaded"
  <2>1. NoConnection.stage = "none" /\ Gone.stage = "gone"
    BY GoneTyped DEF NoConnection
  <2> QED BY <1>2, <2>1
<1>4. LoadedOwners' /\ PresenceOwners'
  BY <1>3 DEF LoadedOwners, PresenceOwners, Restart
<1>5. ASSUME NEW u \in User PROVE u \notin told' /\ Indicator(u)' = Nobody
  <2>1. \A d \in Device : byDevice'[d] = None
    BY DEF Restart, NoDevice
  <2>2. DOMAIN MyPresences(u)' = {}
    BY <2>1 DEF MyPresences
  <2> QED BY <2>2 DEF Restart, Indicator, Payload
<1> QED BY <1>1, <1>4, <1>5 DEF Owners, IndicatorCurrent

LEMMA InitIndicator == Init => IndicatorInv
<1> SUFFICES ASSUME Init PROVE IndicatorInv
  OBVIOUS
<1>1. Owners
  BY PresenceAssumption
     DEF Init, Owners, SessionOwners, LoadedOwners, PresenceOwners, NoRequest, NoConnection
<1>2. ASSUME NEW u \in User PROVE u \notin told /\ Indicator(u) = Nobody
  <2>1. \A d \in Device : byDevice[d] = None
    BY DEF Init, NoDevice
  <2>2. DOMAIN MyPresences(u) = {}
    BY <2>1 DEF MyPresences
  <2> QED BY <2>2 DEF Init, Indicator, Payload
<1> QED BY <1>1, <1>2, InitInv DEF IndicatorInv, IndicatorCurrent

LEMMA NextIndicator == Unshared /\ IndicatorInv /\ [Next]_vars => IndicatorInv'
<1> SUFFICES ASSUME Unshared, IndicatorInv, [Next]_vars PROVE Owners' /\ IndicatorCurrent'
  BY NextInv DEF IndicatorInv
<1>1. ASSUME NEW s \in Socket, NEW u \in User, NEW w \in BOOLEAN,
             Connect(s, u, w)
      PROVE  Owners' /\ IndicatorCurrent'
  BY <1>1, ConnectIndicator
<1>2. ASSUME NEW s \in Socket, QuerySession(s) \/ Refuse(s)
      PROVE  Owners' /\ IndicatorCurrent'
  BY <1>2, QuerySessionIndicator, RefuseIndicator
<1>3. ASSUME NEW s \in Socket, NEW w \in BOOLEAN, Register(s, w) PROVE Owners' /\ IndicatorCurrent'
  BY <1>3, RegisterIndicator
<1>4. ASSUME NEW s \in Socket, NEW b \in BOOLEAN,
             HandleShiftState(s, b) \/ HandleLunchState(s, b)
      PROVE  Owners' /\ IndicatorCurrent'
  <2>1. \E p \in {OnShift(presence[s], b), OnLunch(presence[s], b)} :
            Mutate(s, p) /\ UNCHANGED <<session, request, crossed, sock, connects>>
    BY <1>4 DEF HandleShiftState, HandleLunchState, requests
  <2>2. PICK p \in {OnShift(presence[s], b), OnLunch(presence[s], b)} :
            Mutate(s, p) /\ UNCHANGED <<session, request, crossed, sock, connects>>
    BY <2>1
  <2>3. s \in bySocket => p.deviceId = presence[s].deviceId /\ p.userId = presence[s].userId
    BY FlagsTyped DEF IndicatorInv
  <2> QED BY <2>2, <2>3, TalkIndicator
<1>5. ASSUME NEW s \in Socket, HandleDisconnect(s) PROVE Owners' /\ IndicatorCurrent'
  <2>1. Disconnect({s}) /\ UNCHANGED <<session, request, crossed, connects>>
    BY <1>5 DEF HandleDisconnect, requests
  <2>2. SessionOwners'
    BY <2>1 DEF SessionOwners, IndicatorInv, Owners
  <2> QED BY <2>1, <2>2, DisconnectIndicator DEF Owners
<1>6. ASSUME NEW p \in Request, AuthStep(p) \/ LoginKick(p)
      PROVE  Owners' /\ IndicatorCurrent'
  BY <1>6, AuthIndicator
<1>9. ASSUME NEW u \in User, Logout(u) PROVE Owners' /\ IndicatorCurrent'
  BY <1>9, LogoutIndicator
<1>7. CASE Restart
  BY <1>7, RestartIndicator
<1>8. CASE UNCHANGED vars
  <2>1. IndicatorCurrent'
    BY <1>8, IndicatorSame DEF vars, IndicatorInv
  <2>2. Owners'
    BY <1>8 DEF vars, requests, registry, IndicatorInv, Owners, SessionOwners, LoadedOwners,
                PresenceOwners
  <2> QED BY <2>1, <2>2
<1> QED BY <1>1, <1>2, <1>3, <1>4, <1>5, <1>6, <1>7, <1>8, <1>9 DEF Next, AuthStep

\* When no device is used by two users, a user whom the process has sent a
\* 'device:presence' was told last what the registry would answer, and a user it has
\* sent none has nothing in the registry: emitPresence is missed only when set()
\* takes a device over from another user.
THEOREM IndicatorStaysCurrent ==
    ASSUME Unshared
    PROVE  Spec => []IndicatorCurrent
<1>1. IndicatorInv => IndicatorCurrent
  BY DEF IndicatorInv
<1>2. IndicatorInv /\ [Next]_vars => IndicatorInv'
  BY NextIndicator
<1> QED BY <1>1, <1>2, InitIndicator, PTL DEF Spec

-----------------------------------------------------------------------------
(* The registry is a map of places (DevicePlaces).                           *)

\* Who has device d, in terms of the two maps.
LEMMA PlaceFields ==
    ASSUME IndInv, NEW d \in Device
    PROVE  /\ Held[d] = PlaceOf(d)
           /\ byDevice[d] = None => Held[d] = None
           /\ byDevice[d] # None =>
                /\ byDevice[d] \in Socket /\ byDevice[d] \in bySocket
                /\ presence[byDevice[d]] \in Presence
                /\ Held[d] \in Place /\ Held[d] # None
                /\ Held[d].socket = byDevice[d]
                /\ Held[d].userId = presence[byDevice[d]].userId
                /\ Held[d].onShift = presence[byDevice[d]].onShift
                /\ Held[d].onLunch = presence[byDevice[d]].onLunch
<1>1. Held[d] = PlaceOf(d)
  BY DEF Held
<1>2. CASE byDevice[d] = None
  BY <1>1, <1>2 DEF PlaceOf
<1>3. CASE byDevice[d] # None
  <2> DEFINE s == byDevice[d]
             p == presence[s]
  <2>1. s \in Socket /\ s \in bySocket /\ p \in Presence
    BY <1>3 DEF IndInv, Maps, MapsAgree
  <2>2. Held[d] = [socket |-> s, userId |-> p.userId, onShift |-> p.onShift,
                   onLunch |-> p.onLunch]
    BY <1>1, <1>3 DEF PlaceOf
  <2> HIDE DEF s, p
  <2>3. Held[d] \in Place
    BY <2>1, <2>2 DEF Presence, Place
  <2>4. Held[d] # None
    BY <2>3, PresenceAssumption
  <2>5. /\ Held[d].socket = s /\ Held[d].userId = p.userId
        /\ Held[d].onShift = p.onShift /\ Held[d].onLunch = p.onLunch
    BY <2>2
  <2> QED BY <1>1, <1>3, <2>1, <2>3, <2>4, <2>5 DEF s, p
<1> QED BY <1>1, <1>2, <1>3

LEMMA PlacesHas ==
    ASSUME IndInv, NEW d \in Device, NEW s \in Socket
    PROVE  Places!Has(s, d) <=> byDevice[d] = s
BY PlaceFields, PresenceAssumption DEF Places!Has

LEMMA HeldSame ==
    ASSUME UNCHANGED <<byDevice, presence>>
    PROVE  Held' = Held
BY DEF Held, PlaceOf

\* A step that leaves the registry alone: a connection opens, goes on, or nothing
\* of the sockets changes.
LEMMA OpenPlaces ==
    ASSUME UNCHANGED <<byDevice, presence>>,
           \A s \in Socket :
                /\ sock[s].open => sock'[s].open
                /\ sock'[s].open => sock[s].open \/ s \in Unanswered
                /\ s \in Unanswered' => s \in Unanswered
    PROVE  Places!Next
<1>1. Held' = Held
  BY HeldSame
<1>2. Connected \subseteq Connected' /\ Connected' \subseteq Connected \cup Unanswered
  BY DEF Connected
<1>3. Unanswered' \subseteq Unanswered
  BY DEF Unanswered
<1> QED BY <1>1, <1>2, <1>3 DEF Places!Next, Places!Open

\* Some connections close.
LEMMA ClosePlaces ==
    ASSUME IndInv, IndInv', presence' = presence, NEW K \in SUBSET Socket,
           \A d \in Device : byDevice'[d] = IF byDevice[d] \in K THEN None ELSE byDevice[d],
           Connected' = Connected \ K, K \cap bySocket \subseteq Connected,
           \A s \in Socket : s \in Unanswered' => s \in Unanswered
    PROVE  Places!Next
<1>1. Connected \ Connected' = K \cap Connected
  OBVIOUS
<1>2. ASSUME NEW d \in Device
      PROVE  Held'[d] = IF \E s \in Connected \ Connected' : Places!Has(s, d)
                        THEN None ELSE Held[d]
  <2>1. (\E s \in Connected \ Connected' : Places!Has(s, d)) <=> byDevice[d] \in K
    <3>1. ASSUME byDevice[d] \in K PROVE byDevice[d] \in K \cap Connected
      BY <3>1, PlaceFields, PresenceAssumption
    <3> QED BY <1>1, <3>1, PlacesHas
  <2>2. Held'[d] = PlaceOf(d)' /\ Held[d] = PlaceOf(d)
    BY DEF Held
  <2>3. CASE byDevice[d] \in K
    BY <2>1, <2>2, <2>3 DEF PlaceOf
  <2>4. CASE byDevice[d] \notin K
    BY <2>1, <2>2, <2>4 DEF PlaceOf
  <2> QED BY <2>3, <2>4
<1>3. Held' = [d \in Device |-> IF \E s \in Connected \ Connected' : Places!Has(s, d)
                                THEN None ELSE Held[d]]
  BY <1>2 DEF Held
<1>4. Connected' \subseteq Connected /\ Unanswered' \subseteq Unanswered
  BY DEF Unanswered
<1> QED BY <1>3, <1>4 DEF Places!Next, Places!Close

LEMMA ConnectPlaces ==
    ASSUME IndInv, NEW s \in Socket, NEW u \in User, NEW w \in BOOLEAN,
           Connect(s, u, w)
    PROVE  Places!Next
<1>1. UNCHANGED <<byDevice, presence>> /\ s \in Unanswered
  BY DEF Connect, registry, Unanswered
<1>2. \A t \in Socket : t # s => sock'[t] = sock[t]
  BY DEF Connect, IndInv, Sockets
<1>3. sock'[s].open
  BY DEF Connect, IndInv, Sockets
<1>4. \A t \in Socket : t \in Unanswered' => t \in Unanswered
  BY <1>1, <1>2 DEF Unanswered
<1> QED BY <1>1, <1>2, <1>3, <1>4, OpenPlaces

LEMMA QuerySessionPlaces ==
    ASSUME IndInv, NEW s \in Socket, QuerySession(s)
    PROVE  Places!Next
<1>1. UNCHANGED <<byDevice, presence>>
  BY DEF QuerySession, registry
<1>2. \A t \in Socket : sock'[t].open = sock[t].open
  BY DEF QuerySession, IndInv, Sockets, Connection
<1>3. s \in Unanswered /\ \A t \in Socket : t # s => sock'[t] = sock[t]
  BY DEF QuerySession, IndInv, Sockets, Unanswered
<1>4. \A t \in Socket : t \in Unanswered' => t \in Unanswered
  BY <1>3 DEF Unanswered
<1> QED BY <1>1, <1>2, <1>4, OpenPlaces

LEMMA RefusePlaces ==
    ASSUME IndInv, IndInv', NEW s \in Socket, Refuse(s)
    PROVE  Places!Next
<1>1. UNCHANGED <<byDevice, presence, bySocket>> /\ s \notin bySocket
  BY DEF Refuse, registry, IndInv, Sockets
<1>2. /\ ~sock'[s].open /\ sock'[s].stage = "gone"
      /\ \A t \in Socket : t # s => sock'[t] = sock[t]
  BY GoneTyped DEF Refuse, IndInv, Sockets
<1>3. Connected' = Connected \ {s}
  BY <1>2 DEF Connected
<1>4. \A t \in Socket : t \in Unanswered' => t \in Unanswered
  BY <1>2 DEF Unanswered
<1>5. \A d \in Device : byDevice'[d] = IF byDevice[d] \in {s} THEN None ELSE byDevice[d]
  BY <1>1 DEF IndInv, Maps, MapsAgree
<1> QED BY <1>1, <1>3, <1>4, <1>5, ClosePlaces

LEMMA RegisterPlaces ==
    ASSUME IndInv, IndInv', NEW s \in Socket, NEW w \in BOOLEAN, Register(s, w)
    PROVE  Places!Next
<1> DEFINE p == NewPresence(sock[s], w)
           d == p.deviceId
<1>1. /\ p \in Presence /\ ~p.onLunch /\ s \notin bySocket /\ d \in Device /\ Set(s, p)
      /\ s # None
  BY NewPresenceTyped, PresenceAssumption DEF Register, Presence
<1> HIDE DEF p, d
<1>2. /\ byDevice' = [byDevice EXCEPT ![d] = s] /\ presence' = [presence EXCEPT ![s] = p]
  BY <1>1 DEF Set, d
<1>3. byDevice'[d] = s /\ presence'[s] = p
  BY <1>1, <1>2 DEF IndInv, Maps
<1>4. /\ Held'[d] \in Place /\ Held'[d].socket = s /\ Held'[d].onLunch = FALSE
  <2>1. Held'[d] = [socket |-> s, userId |-> p.userId, onShift |-> p.onShift,
                    onLunch |-> p.onLunch]
    BY <1>1, <1>3 DEF Held, PlaceOf
  <2>2. p.userId \in User /\ p.onShift \in BOOLEAN /\ p.onLunch \in BOOLEAN
    BY <1>1 DEF Presence
  <2>3. p.onLunch = FALSE
    BY <1>1, <2>2
  <2> QED BY <2>1, <2>2, <2>3 DEF Place
<1>5. ASSUME NEW e \in Device, e # d PROVE Held'[e] = Held[e]
  <2>1. byDevice'[e] = byDevice[e] /\ byDevice[e] # s
    BY <1>1, <1>2, <1>5 DEF IndInv, Maps, MapsAgree
  <2>2. byDevice[e] # None => presence'[byDevice[e]] = presence[byDevice[e]]
    BY <1>2, <2>1 DEF IndInv, Maps
  <2> QED BY <2>1, <2>2 DEF Held, PlaceOf
<1>6. Held' = [Held EXCEPT ![d] = Held'[d]]
  BY <1>1, <1>5 DEF Held
<1>7. /\ s \in Unanswered \ Unanswered' /\ Unanswered' \subseteq Unanswered
      /\ Connected' = Connected
  <2>1. \A t \in Socket : /\ sock'[t].open = sock[t].open
                          /\ sock'[t].stage = IF t = s THEN "in" ELSE sock[t].stage
    BY DEF Register, IndInv, Sockets, Connection
  <2>2. sock[s].stage = "loaded"
    BY DEF Register
  <2> QED BY <2>1, <2>2 DEF Unanswered, Connected
<1>8. Held'[d] \in [socket: Unanswered \ Unanswered', userId: User, onShift: BOOLEAN,
                    onLunch: {FALSE}]
  BY <1>4, <1>7 DEF Place
<1> QED BY <1>1, <1>6, <1>7, <1>8 DEF Places!Next, Places!Take, Places!Newcomer

\* A message changes the flags of the place of its own socket.
LEMMA TalkPlaces ==
    ASSUME IndInv, IndInv', NEW s \in Socket, sock[s].open, NEW p, Mutate(s, p), sock' = sock,
           s \in bySocket => p \in Presence /\ p.userId = presence[s].userId
                                /\ (p.onLunch => p.onShift)
    PROVE  Places!Next
<1>1. Unanswered' = Unanswered /\ Connected' = Connected /\ s \in Connected
  BY DEF Unanswered, Connected
<1>2. CASE s \notin bySocket
  <2>1. UNCHANGED <<byDevice, presence>>
    BY <1>2 DEF Mutate
  <2> QED BY <2>1, OpenPlaces DEF Unanswered
<1>3. CASE s \in bySocket
  <2>1. byDevice' = byDevice /\ presence' = [presence EXCEPT ![s] = p]
    BY <1>3 DEF Mutate
  <2>2. presence'[s] = p /\ p \in Presence /\ p.userId = presence[s].userId /\ s # None
    BY <1>3, <2>1, PresenceAssumption DEF IndInv, Maps
  <2>3. p.onShift \in BOOLEAN /\ p.onLunch \in BOOLEAN /\ (p.onLunch => p.onShift)
    BY <1>3, <2>2 DEF Presence
  <2>4. ASSUME NEW d \in Device
        PROVE  IF Places!Has(s, d) THEN Places!Said(Held[d], Held'[d]) ELSE Held'[d] = Held[d]
    <3>1. CASE byDevice[d] = s
      <4>1. Held[d] = [socket |-> s, userId |-> presence[s].userId,
                       onShift |-> presence[s].onShift, onLunch |-> presence[s].onLunch]
        BY <2>2, <3>1 DEF Held, PlaceOf
      <4>2. Held'[d] = [socket |-> s, userId |-> p.userId, onShift |-> p.onShift,
                        onLunch |-> p.onLunch]
        BY <2>1, <2>2, <3>1 DEF Held, PlaceOf
      <4>3. Held'[d] = [socket |-> Held[d].socket, userId |-> Held[d].userId,
                        onShift |-> p.onShift, onLunch |-> p.onLunch]
        BY <2>2, <4>1, <4>2
      <4>4. Places!Said(Held[d], Held'[d])
        BY <2>3, <4>3 DEF Places!Said
      <4> QED BY <3>1, <4>4, PlacesHas
    <3>2. CASE byDevice[d] # s
      <4>1. byDevice[d] # None => presence'[byDevice[d]] = presence[byDevice[d]]
        BY <2>1, <3>2 DEF IndInv, Maps
      <4>2. Held'[d] = Held[d]
        BY <2>1, <4>1 DEF Held, PlaceOf
      <4> QED BY <3>2, <4>2, PlacesHas
    <3> QED BY <3>1, <3>2
  <2>5. Places!Say(s)
    BY <1>1, <2>4 DEF Places!Say
  <2> QED BY <1>1, <2>5 DEF Places!Next
<1> QED BY <1>2, <1>3

LEMMA DisconnectPlaces ==
    ASSUME IndInv, IndInv', NEW K \in SUBSET Socket, \A s \in K : sock[s].open, Disconnect(K),
           UNCHANGED connects
    PROVE  Places!Next
<1> DEFINE L == {s \in K : sock[s].stage # "web"}
<1>1. L \in SUBSET Socket /\ L \subseteq K /\ DeleteBySocket(L) /\ presence' = presence
      /\ connects' = connects
  BY DEF Disconnect, DeleteBySocket
<1>2. K \cap bySocket \subseteq L
  BY DEF IndInv, Sockets, Maps
<1> HIDE DEF L
<1>3. \A d \in Device : byDevice'[d] = IF byDevice[d] \in L THEN None ELSE byDevice[d]
  BY <1>1, DeleteMaps DEF IndInv
<1>4. \A d \in Device : byDevice'[d] = IF byDevice[d] \in K THEN None ELSE byDevice[d]
  <2>1. \A d \in Device : byDevice[d] \in K <=> byDevice[d] \in L
    BY <1>1, <1>2, PresenceAssumption DEF IndInv, Maps, MapsAgree
  <2> QED BY <1>3, <2>1
<1>5. \A s \in Socket : sock'[s] = IF s \in K THEN Closed(sock[s]) ELSE sock[s]
  BY DEF Disconnect
<1>6. \A s \in K : ~sock'[s].open /\ sock'[s].stage \in {sock[s].stage, "gone"}
  BY <1>5, ClosedTyped DEF IndInv, Sockets
<1>7. Connected' = Connected \ K /\ K \cap bySocket \subseteq Connected
  BY <1>5, <1>6 DEF Connected
<1>8. \A s \in Socket : s \in Unanswered' => s \in Unanswered
  BY <1>5, <1>6 DEF Unanswered
<1> QED BY <1>1, <1>4, <1>7, <1>8, ClosePlaces

LEMMA AuthPlaces ==
    ASSUME UNCHANGED <<sock, registry>>
    PROVE  Places!Next
<1>1. UNCHANGED <<byDevice, presence>>
  BY DEF registry
<1> QED BY <1>1, OpenPlaces DEF Unanswered

LEMMA RestartPlacesStep == Restart => Places!Next
<1> SUFFICES ASSUME Restart PROVE Places!Next
  OBVIOUS
<1>1. \A s \in Socket : /\ ~sock'[s].open
                        /\ s \in Unanswered' => s \in Unanswered
  BY GoneTyped DEF Restart, NoConnection, Unanswered
<1>2. Connected' = {} /\ Unanswered' \subseteq Unanswered
  BY <1>1 DEF Connected, Unanswered
<1>3. Held' = Places!Empty
  BY DEF Restart, NoDevice, Held, PlaceOf, Places!Empty
<1> QED BY <1>2, <1>3 DEF Places!Next, Places!Restart

LEMMA NextPlaces == IndInv /\ [Next]_vars => [Places!Next]_(Places!vars)
<1> SUFFICES ASSUME IndInv, IndInv', [Next]_vars PROVE [Places!Next]_(Places!vars)
  BY NextInv
<1>1. ASSUME NEW s \in Socket, NEW u \in User, NEW w \in BOOLEAN,
             Connect(s, u, w)
      PROVE  Places!Next
  BY <1>1, ConnectPlaces
<1>2. ASSUME NEW s \in Socket,
             QuerySession(s) \/ Refuse(s) \/ \E w \in BOOLEAN : Register(s, w)
      PROVE  Places!Next
  BY <1>2, QuerySessionPlaces, RefusePlaces, RegisterPlaces
<1>3. ASSUME NEW s \in Socket, NEW b \in BOOLEAN, HandleShiftState(s, b) PROVE Places!Next
  <2>1. Mutate(s, OnShift(presence[s], b)) /\ sock[s].open /\ sock' = sock
    BY <1>3 DEF HandleShiftState, Talks
  <2> QED BY <2>1, FlagsTyped, TalkPlaces
<1>4. ASSUME NEW s \in Socket, NEW b \in BOOLEAN, HandleLunchState(s, b) PROVE Places!Next
  <2>1. Mutate(s, OnLunch(presence[s], b)) /\ sock[s].open /\ sock' = sock
    BY <1>4 DEF HandleLunchState, Talks
  <2> QED BY <2>1, FlagsTyped, TalkPlaces
<1>5. ASSUME NEW s \in Socket, HandleDisconnect(s) PROVE Places!Next
  <2>1. Disconnect({s}) /\ sock[s].open /\ UNCHANGED connects
    BY <1>5 DEF HandleDisconnect
  <2> QED BY <2>1, DisconnectPlaces
<1>6. ASSUME NEW p \in Request, LoginKick(p) PROVE Places!Next
  <2>1. PICK K \in SUBSET Socket :
            Disconnect(K) /\ UNCHANGED connects /\ \A s \in K : sock[s].open
    BY <1>6 DEF LoginKick, Room
  <2> QED BY <2>1, DisconnectPlaces
<1>7. ASSUME (\E p \in Request : AuthStep(p)) \/ (\E u \in User : Logout(u))
      PROVE  Places!Next
  <2>1. UNCHANGED <<sock, registry>>
    BY <1>7, AuthTyped, LogoutTyped
  <2> QED BY <2>1, AuthPlaces
<1>8. CASE Restart
  BY <1>8, RestartPlacesStep
<1>9. CASE UNCHANGED vars
  <2>1. UNCHANGED <<sock, registry>>
    BY <1>9 DEF vars
  <2> QED BY <2>1, AuthPlaces
<1> QED BY <1>1, <1>2, <1>3, <1>4, <1>5, <1>6, <1>7, <1>8, <1>9 DEF Next, AuthStep

LEMMA StartsEmpty == Init => Places!Init
<1> SUFFICES ASSUME Init PROVE Places!Init
  OBVIOUS
<1>1. Held = Places!Empty
  BY DEF Init, NoDevice, Held, PlaceOf, Places!Empty
<1>2. Connected = {} /\ Unanswered = Socket
  BY DEF Init, NoConnection, Connected, Unanswered
<1> QED BY <1>1, <1>2 DEF Places!Init

\* The registry and its gateway implement DevicePlaces: in whatever order sockets
\* connect, speak, close and are kicked, the two maps act like one that gives each
\* device to its latest connection and takes it back when that one closes.
THEOREM RegistryFollowsPlaces == Spec => FollowsPlaces
<1>1. Init => Places!Init
  BY StartsEmpty
<1>2. IndInv /\ [Next]_vars => [Places!Next]_(Places!vars)
  BY NextPlaces
<1> QED BY <1>1, <1>2, IndInvAlways, PTL DEF Spec, FollowsPlaces, Places!Spec

LEMMA PlacesStep == Places!OnePlaceEach /\ [Places!Next]_(Places!vars) => Places!OnePlaceEach'
<1> SUFFICES ASSUME Places!OnePlaceEach, [Places!Next]_(Places!vars) PROVE Places!OnePlaceEach'
  OBVIOUS
<1>1. CASE UNCHANGED Places!vars
  BY <1>1 DEF Places!vars, Places!OnePlaceEach, Places!Has
<1>2. CASE Places!Next
  <2>1. Unanswered' \subseteq Unanswered
    BY <1>2 DEF Places!Next
  <2>2. ASSUME \A s \in Socket, d \in Device : Places!Has(s, d)' => Places!Has(s, d)
        PROVE  Places!OnePlaceEach'
    BY <2>1, <2>2 DEF Places!OnePlaceEach
  <2>3. CASE Places!Open \/ Places!Close \/ Places!Restart
    <3>1. \A s \in Socket, d \in Device : Places!Has(s, d)' => Places!Has(s, d)
      BY <2>3 DEF Places!Open, Places!Close, Places!Restart, Places!Empty, Places!Has
    <3> QED BY <2>2, <3>1
  <2>4. ASSUME NEW t \in Connected, Places!Say(t) PROVE Places!OnePlaceEach'
    <3>1. ASSUME NEW s \in Socket, NEW d \in Device, Places!Has(s, d)' PROVE Places!Has(s, d)
      <4>1. CASE Places!Has(t, d)
        <5>1. Places!Said(Held[d], Held'[d])
          BY <2>4, <4>1 DEF Places!Say
        <5>2. PICK b \in BOOLEAN, c \in BOOLEAN :
                Held'[d] = [socket |-> Held[d].socket, userId |-> Held[d].userId,
                            onShift |-> b, onLunch |-> c]
          BY <5>1 DEF Places!Said
        <5>3. Held'[d].socket = Held[d].socket
          BY <5>2
        <5> QED BY <3>1, <4>1, <5>3 DEF Places!Has
      <4>2. CASE ~Places!Has(t, d)
        BY <2>4, <3>1, <4>2 DEF Places!Say, Places!Has
      <4> QED BY <4>1, <4>2
    <3> QED BY <2>2, <3>1
  <2>5. ASSUME NEW e \in Device, Places!Take(e) PROVE Places!OnePlaceEach'
    <3>1. /\ Held'[e] \in Places!Newcomer /\ Held' = [Held EXCEPT ![e] = Held'[e]]
          /\ Held = [d \in Device |-> Held[d]]
      BY <2>5 DEF Places!Take, Held
    <3>2. Held'[e].socket \in Unanswered \ Unanswered'
      BY <3>1 DEF Places!Newcomer
    <3>3. \A d \in Device : d # e => Held'[d] = Held[d]
      BY <3>1
    <3>4. ASSUME NEW s \in Socket, NEW d \in Device, Places!Has(s, d)'
          PROVE  IF d = e THEN s \in Unanswered /\ s \notin Unanswered'
                          ELSE Places!Has(s, d) /\ s \notin Unanswered
      BY <3>2, <3>3, <3>4 DEF Places!Has, Places!OnePlaceEach
    <3> QED BY <2>1, <3>4 DEF Places!OnePlaceEach
  <2> QED BY <1>2, <2>3, <2>4, <2>5 DEF Places!Next
<1> QED BY <1>1, <1>2

\* Of the places alone it follows that a connection speaks for one device at most, and
\* for none before its session was found.
THEOREM PlacesAreTakenOnce == FollowsPlaces => []Places!OnePlaceEach
<1>1. Places!Init => Places!OnePlaceEach
  BY DEF Places!Init, Places!Empty, Places!OnePlaceEach, Places!Has
<1> QED BY <1>1, PlacesStep, PTL DEF FollowsPlaces, Places!Spec

=============================================================================
