--------------------------- MODULE SettingsProofs ---------------------------
(***************************************************************************)
(* Proofs about Settings, for any number of devices, requests and PUTs.    *)
(* A request that is not crossed runs alone (Alone), so that what it read  *)
(* is still stored when it tells it (Fresh).                               *)
(***************************************************************************)
EXTENDS Settings, TLAPS

Synced == \A d \in online : known[d] # None => known[d] = stored

\* What a PUT saved is not newer than the row.
SavedBefore == \A p \in Busy : request[p].saved <= stored

Alone == \A p \in Busy : p \notin crossed => \A q \in Busy : q = p
CrossingSpoils == \A p \in Busy : p \in crossed => spoilt
Fresh == \A p \in Busy : p \notin crossed /\ request[p].current # None
            => request[p].current = stored

\* Only a PUT under way may have left the devices behind.
SyncedButForPuts == ~spoilt /\ (\A p \in Busy : request[p].of # None) => Synced

Inv ==
    /\ TypeOK
    /\ SavedBefore
    /\ AnnouncesNoOlder
    /\ Alone
    /\ CrossingSpoils
    /\ Fresh
    /\ SyncedButForPuts

LEMMA Typed ==
    ASSUME Inv
    PROVE  /\ MaxPuts \in Nat /\ None \notin Value /\ None \notin Device
           /\ None \notin Request /\ Value \subseteq Nat
           /\ stored \in Value
           /\ request \in [Proc -> Request \cup {None}]
           /\ \A p \in Busy : p \in Proc /\ request[p] \in Request
           /\ known \in [Device -> Value \cup {None}] /\ online \subseteq Device
<1>1. MaxPuts \in Nat /\ None \notin Int /\ None \notin Device /\ None \notin Request
  BY SettingsAssumption
<1> QED BY <1>1 DEF Inv, TypeOK, Busy, Value

-----------------------------------------------------------------------------
(* The steps.                                                               *)

\* A request begins; a PUT raises stored by one.
LEMMA BeginKeepsInv ==
    ASSUME Inv, NEW p \in Proc, NEW r \in Request, Begin(p, r),
           r.current = None, UNCHANGED <<online, known>>,
           \/ r.of # None /\ stored' = stored /\ r.saved <= stored
           \/ r.of = None /\ stored' \in Value /\ stored' = stored + 1 /\ r.saved = stored'
    PROVE  Inv'
<1>1. /\ request[p] = None
      /\ request' = [request EXCEPT ![p] = r]
      /\ crossed' = IF Busy = {} THEN {} ELSE crossed \cup Busy \cup {p}
      /\ spoilt' = (spoilt \/ Busy # {})
  BY DEF Begin
<1>2. /\ request'[p] = r /\ r # None
      /\ \A q \in Proc \ {p} : request'[q] = request[q]
  BY <1>1, Typed
<1>3. Busy' = Busy \cup {p} /\ p \notin Busy
  BY <1>1, <1>2 DEF Busy
<1>4. stored \in Nat /\ stored' \in Value /\ stored' \in Nat /\ stored <= stored'
  BY Typed
<1>5. TypeOK'
  BY <1>1, <1>4, Typed DEF Inv, TypeOK, Busy
<1>6. SavedBefore'
  <2> SUFFICES ASSUME NEW q \in Busy' PROVE request'[q].saved <= stored'
    BY DEF SavedBefore
  <2>1. CASE q = p
    BY <1>2, <1>4, <2>1
  <2>2. CASE q # p
    <3>1. q \in Busy /\ q \in Proc /\ request'[q] = request[q] /\ request[q].saved <= stored
      BY <1>2, <1>3, <2>2, Typed DEF Inv, SavedBefore
    <3>2. request[q].saved \in Nat
      BY <3>1, Typed DEF Request
    <3> QED BY <1>4, <3>1, <3>2
  <2> QED BY <2>1, <2>2
<1>7. AnnouncesNoOlder'
  BY <1>2 DEF Inv, AnnouncesNoOlder, Ready
<1>8. CASE Busy = {}
  <2>1. Busy' = {p} /\ crossed' = {} /\ spoilt' = spoilt
    BY <1>1, <1>3, <1>8 DEF Inv, TypeOK
  <2>2. Alone' /\ CrossingSpoils' /\ Fresh'
    BY <1>2, <2>1 DEF Alone, CrossingSpoils, Fresh
  <2>3. SyncedButForPuts'
    BY <1>2, <1>8, <2>1 DEF Inv, SyncedButForPuts, Synced
  <2> QED BY <1>5, <1>6, <1>7, <2>2, <2>3 DEF Inv
<1>9. CASE Busy # {}
  <2>1. Busy' \subseteq crossed' /\ spoilt' = TRUE
    BY <1>1, <1>3, <1>9
  <2> QED BY <1>5, <1>6, <1>7, <2>1
          DEF Inv, Alone, CrossingSpoils, Fresh, SyncedButForPuts
<1> QED BY <1>8, <1>9

\* A request ends, and leaves the devices as they were or told.
LEMMA EndKeepsInv ==
    ASSUME Inv, NEW p \in Busy, NEW settles \in BOOLEAN, End(p, settles),
           UNCHANGED <<stored, online>>, known' \in [Device -> Value \cup {None}],
           p \notin crossed /\ settles => Synced',
           p \notin crossed /\ request[p].of # None /\ Synced => Synced'
    PROVE  Inv'
<1>1. /\ request' = [request EXCEPT ![p] = None]
      /\ crossed' = crossed \ {p}
      /\ spoilt' = IF p \in crossed THEN spoilt
                   ELSE IF settles THEN FALSE
                   ELSE spoilt \/ request[p].of = None
  BY DEF End
<1>2. /\ p \in Proc /\ request'[p] = None
      /\ \A q \in Proc \ {p} : request'[q] = request[q]
  BY <1>1, Typed
<1>3. Busy' = Busy \ {p}
  BY <1>1, <1>2 DEF Busy
<1>4. \A q \in Busy' : q \in Busy /\ q # p /\ q \in Proc /\ request'[q] = request[q]
                       /\ (q \in crossed' <=> q \in crossed)
  BY <1>1, <1>2, <1>3, Typed
<1>5. TypeOK'
  BY <1>1, Typed DEF Inv, TypeOK
<1>6. SavedBefore' /\ Fresh'
  BY <1>4 DEF Inv, SavedBefore, Fresh
<1>7. AnnouncesNoOlder'
  BY <1>2 DEF Inv, AnnouncesNoOlder, Ready
<1>8. Alone'
  BY <1>4 DEF Inv, Alone
<1>9. CASE p \in crossed
  <2>1. spoilt /\ spoilt'
    BY <1>1, <1>9 DEF Inv, CrossingSpoils
  <2> QED BY <1>5, <1>6, <1>7, <1>8, <2>1 DEF Inv, CrossingSpoils, SyncedButForPuts
<1>10. CASE p \notin crossed
  <2>1. Busy' = {} /\ \A q \in Busy : q = p
    BY <1>3, <1>10 DEF Inv, Alone
  <2>2. CrossingSpoils'
    BY <2>1 DEF CrossingSpoils
  <2>3. ~spoilt' => Synced'
    <3>1. CASE settles
      BY <1>10, <3>1
    <3>2. CASE ~settles
      BY <1>1, <1>10, <2>1, <3>2 DEF Inv, SyncedButForPuts
    <3> QED BY <3>1, <3>2
  <2> QED BY <1>5, <1>6, <1>7, <1>8, <2>2, <2>3 DEF Inv, SyncedButForPuts
<1> QED BY <1>9, <1>10

LEMMA QueryKeepsInv ==
    ASSUME Inv, NEW p \in Proc, Query(p)
    PROVE  Inv'
<1>1. /\ p \in Busy /\ request[p].current = None
      /\ request' = [request EXCEPT ![p].current = stored]
      /\ UNCHANGED <<stored, online, known, crossed, spoilt>>
  BY DEF Query, Busy, history
<1>2. request[p] \in Request
  BY <1>1, Typed
<1>3. /\ request'[p] = [request[p] EXCEPT !.current = stored]
      /\ \A q \in Proc \ {p} : request'[q] = request[q]
  BY <1>1, Typed
<1>4. /\ request'[p] \in Request /\ request'[p].current = stored
      /\ request'[p].of = request[p].of /\ request'[p].saved = request[p].saved
  BY <1>2, <1>3, Typed DEF Request
<1>5. TypeOK'
  BY <1>1, <1>3, <1>4, Typed DEF Inv, TypeOK
<1>6. Busy' = Busy
  BY <1>1, <1>3, <1>4, Typed DEF Busy
<1>7. ASSUME NEW q \in Busy
      PROVE  request'[q].of = request[q].of /\ request'[q].saved = request[q].saved
             /\ (q # p => request'[q] = request[q])
  BY <1>3, <1>4, <1>7, Typed
<1>8. SavedBefore' /\ Alone' /\ CrossingSpoils' /\ SyncedButForPuts'
  BY <1>1, <1>6, <1>7
     DEF Inv, SavedBefore, Alone, CrossingSpoils, SyncedButForPuts, Synced
<1>9. Fresh'
  BY <1>1, <1>4, <1>6, <1>7 DEF Inv, Fresh
<1>10. AnnouncesNoOlder'
  <2> SUFFICES ASSUME NEW q \in Proc, request'[q] # None, request'[q].current # None,
                      request'[q].of = None
               PROVE  request'[q].current >= request'[q].saved
    BY DEF AnnouncesNoOlder, Ready
  <2>1. CASE q = p
    <3>1. request[p].saved <= stored /\ request[p].saved \in Nat /\ stored \in Nat
      BY <1>1, <1>2, Typed DEF Inv, SavedBefore, Request
    <3> QED BY <1>4, <2>1, <3>1
  <2>2. CASE q # p
    BY <1>3, <2>2 DEF Inv, AnnouncesNoOlder, Ready
  <2> QED BY <2>1, <2>2
<1> QED BY <1>5, <1>8, <1>9, <1>10 DEF Inv

LEMMA DevicesKeepInv ==
    ASSUME Inv, NEW d \in Device, Connect(d) \/ Disconnect(d)
    PROVE  Inv'
<1>1. /\ UNCHANGED <<stored, request, crossed, spoilt>>
      /\ online' \subseteq Device /\ known' \in [Device -> Value \cup {None}]
      /\ Synced => Synced'
  <2>1. CASE Connect(d)
    <3>1. /\ online' = online \cup {d} /\ known' = [known EXCEPT ![d] = None]
          /\ UNCHANGED <<stored, request, crossed, spoilt>>
      BY <2>1 DEF Connect, history
    <3> QED BY <3>1, Typed DEF Synced
  <2>2. CASE Disconnect(d)
    <3>1. /\ online' = online \ {d} /\ UNCHANGED <<stored, request, known, crossed, spoilt>>
      BY <2>2 DEF Disconnect, history
    <3> QED BY <3>1, Typed DEF Synced
  <2> QED BY <2>1, <2>2
<1>2. TypeOK'
  BY <1>1 DEF Inv, TypeOK
<1>3. SavedBefore' /\ AnnouncesNoOlder' /\ Alone' /\ CrossingSpoils' /\ Fresh'
  BY <1>1 DEF Inv, SavedBefore, AnnouncesNoOlder, Ready, Alone, CrossingSpoils, Fresh, Busy
<1>4. SyncedButForPuts'
  BY <1>1 DEF Inv, SyncedButForPuts, Busy
<1> QED BY <1>2, <1>3, <1>4 DEF Inv

LEMMA InvHolds == Spec => []Inv
<1>1. Init => Inv
  <2> SUFFICES ASSUME Init PROVE Inv
    OBVIOUS
  <2>1. Busy = {} /\ 0 \in Value
    BY SettingsAssumption DEF Init, Busy, Value
  <2>2. TypeOK
    BY <2>1 DEF Init, TypeOK
  <2>3. AnnouncesNoOlder /\ Synced
    BY DEF Init, AnnouncesNoOlder, Ready, Synced
  <2> QED BY <2>1, <2>2, <2>3
          DEF Inv, SavedBefore, Alone, CrossingSpoils, Fresh, SyncedButForPuts
<1>2. Inv /\ [Next]_vars => Inv'
  <2> SUFFICES ASSUME Inv, [Next]_vars PROVE Inv'
    OBVIOUS
  <2>1. ASSUME NEW p \in Proc, Put(p) PROVE Inv'
    <3> DEFINE r == [of |-> None, saved |-> stored + 1, current |-> None]
    <3>1. stored + 1 \in Value /\ stored' = stored + 1 /\ Begin(p, r)
          /\ UNCHANGED <<online, known>>
      BY <2>1, Typed DEF Put, Value
    <3>2. r \in Request /\ r.of = None /\ r.current = None /\ r.saved = stored'
      BY <3>1 DEF Request
    <3> HIDE DEF r
    <3> QED BY <3>1, <3>2, BeginKeepsInv
  <2>2. ASSUME NEW p \in Proc, NEW d \in Device, Get(p, d) PROVE Inv'
    <3> DEFINE r == [of |-> d, saved |-> 0, current |-> None]
    <3>1. stored' = stored /\ Begin(p, r) /\ UNCHANGED <<online, known>>
      BY <2>2 DEF Get
    <3>2. 0 \in Value /\ d # None /\ 0 <= stored
      BY Typed DEF Value
    <3>3. r \in Request /\ r.of # None /\ r.current = None /\ r.saved <= stored
      BY <3>2 DEF Request
    <3> HIDE DEF r
    <3> QED BY <3>1, <3>3, BeginKeepsInv
  <2>3. ASSUME NEW p \in Proc, Query(p) PROVE Inv'
    BY <2>3, QueryKeepsInv
  <2>4. ASSUME NEW p \in Proc, QueryFails(p) PROVE Inv'
    <3>1. p \in Busy /\ End(p, FALSE) /\ UNCHANGED <<stored, online, known>>
      BY <2>4 DEF QueryFails, Busy
    <3>2. known' \in [Device -> Value \cup {None}] /\ (Synced => Synced')
      BY <3>1, Typed DEF Synced
    <3> QED BY <3>1, <3>2, EndKeepsInv
  <2>5. ASSUME NEW p \in Proc, Broadcast(p) PROVE Inv'
    <3>1. /\ p \in Busy /\ request[p].of = None /\ request[p].current # None
          /\ End(p, TRUE) /\ UNCHANGED <<stored, online>>
          /\ known' = [d \in Device |-> IF d \in online THEN request[p].current ELSE known[d]]
      BY <2>5 DEF Broadcast, Ready, Busy
    <3>2. known' \in [Device -> Value \cup {None}]
      <4>1. request[p].current \in Value
        BY <3>1, Typed DEF Request
      <4> QED BY <3>1, <4>1, Typed
    <3>3. p \notin crossed => Synced'
      <4>1. p \notin crossed => request[p].current = stored
        BY <3>1 DEF Inv, Fresh
      <4> QED BY <3>1, <4>1, Typed DEF Synced
    <3> QED BY <3>1, <3>2, <3>3, EndKeepsInv
  <2>6. ASSUME NEW p \in Proc, Answer(p) PROVE Inv'
    <3>1. /\ p \in Busy /\ request[p].of # None /\ request[p].current # None
          /\ End(p, FALSE) /\ UNCHANGED <<stored, online>>
          /\ known' = [known EXCEPT ![request[p].of] = request[p].current]
      BY <2>6 DEF Answer, Ready, Busy
    <3>2. request[p].current \in Value /\ request[p].of \in Device
      BY <3>1, Typed DEF Request
    <3>3. known' \in [Device -> Value \cup {None}]
      BY <3>1, <3>2, Typed
    <3>4. p \notin crossed /\ Synced => Synced'
      <4>1. p \notin crossed => request[p].current = stored
        BY <3>1 DEF Inv, Fresh
      <4> QED BY <3>1, <3>2, <4>1, Typed DEF Synced
    <3> QED BY <3>1, <3>3, <3>4, EndKeepsInv
  <2>7. ASSUME NEW d \in Device, Connect(d) \/ Disconnect(d) PROVE Inv'
    BY <2>7, DevicesKeepInv
  <2>8. CASE UNCHANGED vars
    BY <2>8 DEF vars, history, Inv, TypeOK, SavedBefore, AnnouncesNoOlder, Ready, Alone,
                CrossingSpoils, Fresh, SyncedButForPuts, Synced, Busy
  <2> QED BY <2>1, <2>2, <2>3, <2>4, <2>5, <2>6, <2>7, <2>8 DEF Next
<1> QED BY <1>1, <1>2, PTL DEF Spec

-----------------------------------------------------------------------------
(* The theorems.                                                            *)

\* The row, the requests and what devices go by are well formed.
THEOREM SettingsTyped == Spec => []TypeOK
<1>1. Inv => TypeOK
  BY DEF Inv
<1> QED BY <1>1, InvHolds, PTL

\* setCaptureInterval reads the row back after it saved it: what it broadcasts is
\* what it saved, or newer.
THEOREM AnnouncedIsNoOlder == Spec => []AnnouncesNoOlder
<1>1. Inv => AnnouncesNoOlder
  BY DEF Inv
<1> QED BY <1>1, InvHolds, PTL

\* Between requests the connected devices go by the value stored, unless requests
\* crossed or a PUT failed; a PUT that runs alone makes up for it.
THEOREM DevicesInSync == Spec => []InSync
<1>1. Inv => InSync
  BY DEF Inv, SyncedButForPuts, InSync, Synced
<1> QED BY <1>1, InvHolds, PTL
=============================================================================
