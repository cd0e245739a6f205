------------------------------ MODULE Settings -------------------------------
(***************************************************************************)
(* SettingsService: the capture interval is one row of app_settings; a PUT *)
(* saves it, reads it back and broadcasts what it read, a device that was  *)
(* away asks for it with a GET.  Requests overlap between their queries,   *)
(* and a query may fail.  A value is the number of the PUT that saved it, 0 *)
(* the default; values that isValid refuses change nothing.                *)
(***************************************************************************)
EXTENDS Integers

CONSTANTS
    Device,
    Proc,     \* requests the server works on at once
    MaxPuts,  \* bound: PUTs
    None

Value == 0 .. MaxPuts

Request == [of: Device \cup {None},       \* the device of a GET; None: a PUT
            saved: Value,                 \* what the PUT saved
            current: Value \cup {None}]   \* what was read back, None: not yet

ASSUME SettingsAssumption ==
    MaxPuts \in Nat /\ None \notin Device \cup Int \cup Request

VARIABLES
    stored,   \* the row
    request,  \* request[p]: the request p works on, or None
    online,   \* devices with a socket
    known,    \* known[d]: what the app of d goes by, None when it has to ask
    crossed,  \* history: the requests that overlapped another, while they run
    spoilt    \* history: some request crossed another, or a PUT failed, and no
              \* PUT has run through by itself since

history == <<crossed, spoilt>>
vars == <<stored, request, online, known, history>>

TypeOK ==
    /\ stored \in Value
    /\ request \in [Proc -> Request \cup {None}]
    /\ online \subseteq Device
    /\ known \in [Device -> Value \cup {None}]
    /\ crossed \subseteq Proc
    /\ spoilt \in BOOLEAN

Init ==
    /\ stored = 0
    /\ request = [p \in Proc |-> None]
    /\ online = {}
    /\ known = [d \in Device |-> None]
    /\ crossed = {}
    /\ spoilt = FALSE

Busy == {p \in Proc : request[p] # None}

\* Request p begins beside those under way.
Begin(p, r) ==
    /\ request[p] = None
    /\ request' = [request EXCEPT ![p] = r]
    /\ crossed' = IF Busy = {} THEN {} ELSE crossed \cup Busy \cup {p}
    /\ spoilt' = (spoilt \/ Busy # {})

\* Request p ends; settles says that it was a PUT that told everybody.
End(p, settles) ==
    /\ request' = [request EXCEPT ![p] = None]
    /\ crossed' = crossed \ {p}
    /\ spoilt' = IF p \in crossed THEN spoilt
                 ELSE IF settles THEN FALSE
                 ELSE spoilt \/ request[p].of = None

\* Mutant: the row is read back before it is saved.
PutReadingFirst(p) ==
    /\ stored < MaxPuts
    /\ stored' = stored + 1
    /\ Begin(p, [of |-> None, saved |-> stored + 1, current |-> stored])
    /\ UNCHANGED <<online, known>>

\* setCaptureInterval up to repo.save.
Put(p) ==
    /\ stored < MaxPuts
    /\ stored' = stored + 1
    /\ Begin(p, [of |-> None, saved |-> stored + 1, current |-> None])
    /\ UNCHANGED <<online, known>>

\* A device connects, then asks: what it knew may have changed meanwhile.
Connect(d) ==
    /\ d \notin online
    /\ online' = online \cup {d}
    /\ known' = [known EXCEPT ![d] = None]
    /\ UNCHANGED <<stored, request, history>>

Get(p, d) ==
    /\ d \in online /\ known[d] = None
    /\ Begin(p, [of |-> d, saved |-> 0, current |-> None])
    /\ UNCHANGED <<stored, online, known>>

\* getCaptureInterval: the query.
Query(p) ==
    /\ request[p] # None /\ request[p].current = None
    /\ request' = [request EXCEPT ![p].current = stored]
    /\ UNCHANGED <<stored, online, known, history>>

\* The query throws: a PUT has saved the row and tells nobody.
QueryFails(p) ==
    /\ request[p] # None /\ request[p].current = None
    /\ End(p, FALSE)
    /\ UNCHANGED <<stored, online, known>>

Ready(p) == request[p] # None /\ request[p].current # None

\* Mutant: those who still have to ask are told, nobody else.
BroadcastToAskers(p) ==
    /\ Ready(p) /\ request[p].of = None
    /\ known' = [d \in Device |-> IF d \in online /\ known[d] = None
                                  THEN request[p].current ELSE known[d]]
    /\ End(p, TRUE)
    /\ UNCHANGED <<stored, online>>

\* registry.broadcast, to every connected device.
Broadcast(p) ==
    /\ Ready(p) /\ request[p].of = None
    /\ known' = [d \in Device |-> IF d \in online THEN request[p].current ELSE known[d]]
    /\ End(p, TRUE)
    /\ UNCHANGED <<stored, online>>

\* The answer to a GET arrives.
Answer(p) ==
    /\ Ready(p) /\ request[p].of # None
    /\ known' = [known EXCEPT ![request[p].of] = request[p].current]
    /\ End(p, FALSE)
    /\ UNCHANGED <<stored, online>>

Disconnect(d) ==
    /\ d \in online
    /\ online' = online \ {d}
    /\ UNCHANGED <<stored, request, known, history>>

Next ==
    \/ \E p \in Proc :
        \/ Put(p)
        \/ \E d \in Device : Get(p, d)
        \/ Query(p)
        \/ QueryFails(p)
        \/ Broadcast(p)
        \/ Answer(p)
    \/ \E d \in Device : Connect(d) \/ Disconnect(d)

Spec == Init /\ [][Next]_vars

-----------------------------------------------------------------------------
(* Correctness *)

\* A PUT never announces a value older than the one it saved, however many run.
AnnouncesNoOlder ==
    \A p \in Proc : Ready(p) /\ request[p].of = None => request[p].current >= request[p].saved

\* When nothing is under way, a connected device that has an interval has the
\* one that is stored ("se propaga a todos los dispositivos"), as long as requests
\* do not cross and PUTs do not fail; and one PUT that runs through by itself
\* makes up for all that did.
InSync ==
    Busy = {} /\ ~spoilt => \A d \in online : known[d] # None => known[d] = stored
=============================================================================
