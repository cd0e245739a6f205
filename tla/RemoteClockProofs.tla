-------------------------- MODULE RemoteClockProofs --------------------------
(***************************************************************************)
(* Proofs about LocalHandshake and RemoteClock, for any number of users,   *)
(* machines, nonces and requests.  First the map of nonces by itself:      *)
(* lemmas about it, then one invariant, the types and the numbers.  Then   *)
(* the commands: the service does to the map only what its own operations  *)
(* do (ClockImplementsHandshake), so that the invariant holds there too,   *)
(* and what is left are the handlers.                                      *)
(***************************************************************************)
EXTENDS RemoteClock, FiniteSetTheorems, WellFoundedInduction, TLAPS

handshakeVars == <<handshake, apps>>

-----------------------------------------------------------------------------
(* The map.                                                                 *)

\* Entries have numbers of their own.
Numbered ==
    /\ IsFiniteSet(Keys)
    /\ \A n \in Keys : entries[n].number <= issues
    /\ \A m, n \in Keys : entries[m].number = entries[n].number => m = n

Inv == LocalHandshakeTypeOK /\ Numbered /\ FewPerUser

LEMMA KeysAreEntries ==
    ASSUME LocalHandshakeTypeOK
    PROVE  \A n \in Nonce : n \in Keys <=> entries[n] \in Entry
<1>1. None \notin Entry /\ Gone \notin Entry
  BY LocalHandshakeAssumption
<1> QED BY <1>1 DEF LocalHandshakeTypeOK, Keys

LEMMA LeastOf ==
    ASSUME NEW T \in SUBSET Nat, T # {}
    PROVE  \E m \in T : \A n \in T : m <= n
<1>1. PICK m \in T : \A n \in T : ~ (<<n, m>> \in OpToRel(<, Nat))
  BY NatLessThanWellFounded, WFMin
<1>2. \A n \in T : ~(n < m)
  BY <1>1 DEF OpToRel
<1> QED BY <1>2

LEMMA OldestIn ==
    ASSUME NEW R, NEW f, \A n \in R : f[n] \in Nat, R # {}
    PROVE  \E m \in R : \A n \in R : f[m] <= f[n]
<1> DEFINE T == {f[n] : n \in R}
<1>1. T \in SUBSET Nat /\ T # {}
  OBVIOUS
<1>2. \A n \in R : f[n] \in T
  OBVIOUS
<1>3. \A k \in T : \E m \in R : k = f[m]
  OBVIOUS
<1> HIDE DEF T
<1>4. PICK k \in T : \A j \in T : k <= j
  BY <1>1, LeastOf
<1> QED BY <1>2, <1>3, <1>4

\* What dropOldest leaves of a user's entries leaves room for one more.
LEMMA RoomForOne ==
    ASSUME LocalHandshakeTypeOK, Numbered, NEW K \in SUBSET Keys, NEW u \in User
    PROVE  LET R == Mine(K, u) \ Oldest(K, u)
           IN  IsFiniteSet(R) /\ Cardinality(R) \in Nat /\ Cardinality(R) <= MaxPerUser - 1
<1> DEFINE R == Mine(K, u) \ Oldest(K, u)
           number == [n \in R |-> entries[n].number]
<1>0. MaxPerUser \in Nat /\ MaxPerUser > 0
  BY LocalHandshakeAssumption
<1>1. IsFiniteSet(K)
  BY FS_Subset DEF Numbered
<1>2. R \in SUBSET K /\ Mine(K, u) \in SUBSET K
  BY DEF Mine
<1>3. IsFiniteSet(R) /\ Cardinality(R) \in Nat
  BY <1>1, <1>2, FS_Subset, FS_CardinalityType
<1>4. \A n \in R : entries[n].number \in Nat
  BY <1>2, KeysAreEntries DEF Keys, Entry
<1>5. CASE R = {}
  BY <1>0, <1>3, <1>5, FS_EmptySet
<1>6. CASE R # {}
  <2> HIDE DEF R
  <2>1. PICK m \in R : \A n \in R : number[m] <= number[n]
    BY <1>4, <1>6, OldestIn
  <2> DEFINE Y == Younger(K, u, m)
  <2>2. \A n \in R \ {m} : entries[n].number > entries[m].number
    <3> SUFFICES ASSUME NEW n \in R \ {m} PROVE entries[n].number > entries[m].number
      OBVIOUS
    <3>1. entries[m].number <= entries[n].number
      BY <2>1
    <3>2. entries[m].number # entries[n].number
      BY <1>2 DEF Numbered
    <3> QED BY <1>4, <3>1, <3>2
  <2>3. R \ {m} \in SUBSET Y
    BY <2>2 DEF Younger, R
  <2>4. Y \in SUBSET K
    BY <1>2 DEF Younger
  <2>5. IsFiniteSet(Y) /\ Cardinality(Y) \in Nat
    BY <1>1, <2>4, FS_Subset, FS_CardinalityType
  <2>6. ~(Cardinality(Y) >= MaxPerUser - 1)
    BY <2>1 DEF R, Oldest
  <2>7. Cardinality(R \ {m}) <= Cardinality(Y)
    BY <2>3, <2>5, FS_Subset
  <2>8. Cardinality(R \ {m}) = Cardinality(R) - 1
    BY <1>3, <2>1, FS_RemoveElement
  <2> HIDE DEF Y
  <2>9. Cardinality(R) <= MaxPerUser - 1
    BY <1>0, <1>3, <2>5, <2>6, <2>7, <2>8
  <2> QED BY <1>3, <2>9 DEF R
<1> QED BY <1>5, <1>6

\* Fewer entries are fewer of each user.
LEMMA FewerStill ==
    ASSUME NEW S, NEW T \in SUBSET S, IsFiniteSet(S), Cardinality(S) <= MaxPerUser
    PROVE  Cardinality(T) <= MaxPerUser
<1>1. /\ Cardinality(T) <= Cardinality(S) /\ Cardinality(T) \in Nat
      /\ Cardinality(S) \in Nat /\ MaxPerUser \in Nat
  BY FS_Subset, FS_CardinalityType, LocalHandshakeAssumption
<1> QED BY <1>1

-----------------------------------------------------------------------------
(* The invariant.                                                           *)

LEMMA AppsKeepInv ==
    ASSUME Inv, AppSteps
    PROVE  Inv'
<1>1. UNCHANGED handshake
  BY DEF AppSteps, LoginAt, AppLogout, Online, Offline
<1>2. app' \in [Device -> User \cup {None}] /\ present' \in [Device -> User \cup {None}]
  BY DEF Inv, LocalHandshakeTypeOK, AppSteps, LoginAt, AppLogout, Online, Offline
<1>3. LocalHandshakeTypeOK'
  BY <1>1, <1>2 DEF Inv, LocalHandshakeTypeOK, handshake
<1>4. Numbered' /\ FewPerUser'
  BY <1>1 DEF Inv, Numbered, FewPerUser, Mine, Keys, handshake
<1> QED BY <1>3, <1>4 DEF Inv

\* What issue() does to the map.
LEMMA IssueDoes ==
    ASSUME Inv, NEW u \in User, NEW d \in Device, NEW n \in Nonce, Issue(u, d, n)
    PROVE  LET kept == Keys \ Swept
               left == kept \ Oldest(kept, u)
           IN  /\ n \notin Keys /\ Keys' = left \cup {n}
               /\ entries'[n].userId = u /\ entries'[n].number = issues + 1
               /\ \A m \in left : entries'[m] = entries[m]
               /\ LocalHandshakeTypeOK'
<1> DEFINE kept == Keys \ Swept
           left == kept \ Oldest(kept, u)
           new == [userId |-> u, number |-> issues + 1, tab |-> d, left |-> TTL,
                   redeemedBy |-> None]
<1>1. /\ entries[n] = None
      /\ issues' = issues + 1
      /\ UNCHANGED apps
      /\ entries' = [m \in Nonce |->
                CASE m = n -> new
                  [] m # n /\ m \in Swept \cup Oldest(kept, u) -> Gone
                  [] OTHER -> entries[m]]
  BY DEF Issue
<1>2. /\ entries \in [Nonce -> Entry \cup {None, Gone}] /\ issues \in Nat /\ TTL \in Nat
      /\ None \notin Entry /\ Gone \notin Entry /\ None # Gone
  BY LocalHandshakeAssumption DEF Inv, LocalHandshakeTypeOK
<1>3. new \in Entry
  BY <1>2 DEF Entry
<1>4. new.userId = u /\ new.number = issues + 1
  OBVIOUS
<1>5. n \notin Keys
  BY <1>1 DEF Keys
<1>6. Keys \in SUBSET Nonce /\ Swept \in SUBSET Keys /\ Oldest(kept, u) \in SUBSET kept
  BY DEF Keys, Swept, Oldest, Mine
<1> HIDE DEF new, kept
<1>7. entries'[n] = new
  BY <1>1
<1>8. \A m \in Nonce \ {n} :
        entries'[m] = IF m \in Swept \cup Oldest(kept, u) THEN Gone ELSE entries[m]
  BY <1>1
<1>9. LocalHandshakeTypeOK'
  <2>1. \A m \in Nonce : entries'[m] \in Entry \cup {None, Gone}
    BY <1>2, <1>3, <1>7, <1>8
  <2>2. entries' = [m \in Nonce |-> entries'[m]]
    BY <1>1
  <2>3. entries' \in [Nonce -> Entry \cup {None, Gone}]
    BY <2>1, <2>2
  <2> QED BY <1>1, <1>2, <2>3 DEF Inv, LocalHandshakeTypeOK, apps
<1>10. \A m \in Nonce : m \in Keys' <=> entries'[m] \notin {None, Gone}
  BY DEF Keys
<1>11. \A m \in Nonce : m \in Keys <=> entries[m] \notin {None, Gone}
  BY DEF Keys
<1>12. Keys' \in SUBSET Nonce
  BY DEF Keys
<1>13. Keys' = left \cup {n}
  <2>1. n \in Keys'
    BY <1>2, <1>3, <1>7, <1>10
  <2>2. ASSUME NEW m \in Nonce \ {n} PROVE m \in Keys' <=> m \in left
    BY <1>5, <1>6, <1>8, <1>10, <1>11 DEF kept
  <2> QED BY <1>5, <1>6, <1>12, <2>1, <2>2 DEF kept
<1>14. \A m \in left : entries'[m] = entries[m]
  BY <1>5, <1>6, <1>8 DEF kept
<1> QED BY <1>4, <1>5, <1>7, <1>9, <1>13, <1>14 DEF kept

LEMMA IssueKeepsInv ==
    ASSUME Inv, NEW u \in User, NEW d \in Device, NEW n \in Nonce, Issue(u, d, n)
    PROVE  Inv'
<1> DEFINE kept == Keys \ Swept
           left == kept \ Oldest(kept, u)
<1>1. /\ n \notin Keys /\ Keys' = left \cup {n}
      /\ entries'[n].userId = u /\ entries'[n].number = issues + 1
      /\ \A m \in left : entries'[m] = entries[m]
      /\ LocalHandshakeTypeOK'
  BY IssueDoes
<1>2. kept \in SUBSET Keys /\ left \in SUBSET kept
  OBVIOUS
<1>3. issues' = issues + 1 /\ issues \in Nat
  BY DEF Issue, Inv, LocalHandshakeTypeOK
<1>4. IsFiniteSet(Keys) /\ LocalHandshakeTypeOK /\ Numbered
  BY DEF Inv, Numbered
<1> HIDE DEF left, kept
<1>5. Numbered'
  <2>1. IsFiniteSet(Keys')
    <3>1. IsFiniteSet(left)
      BY <1>2, <1>4, FS_Subset
    <3> QED BY <1>1, <3>1, FS_AddElement
  <2>2. \A m \in Keys : entries[m].number \in Nat /\ entries[m].number <= issues
    BY <1>4, KeysAreEntries DEF Numbered, Keys, Entry
  <2>3. ASSUME NEW m \in Keys' PROVE entries'[m].number <= issues'
    BY <1>1, <1>2, <1>3, <2>2
  <2>4. ASSUME NEW m \in Keys', NEW k \in Keys', entries'[m].number = entries'[k].number
        PROVE  m = k
    BY <1>1, <1>2, <1>3, <1>4, <2>2, <2>4 DEF Numbered
  <2> QED BY <2>1, <2>3, <2>4 DEF Numbered
<1>6. ASSUME NEW w \in User PROVE Cardinality(Mine(Keys, w)') <= MaxPerUser
  <2>0. Mine(Keys, w)' = {m \in Keys' : entries'[m].userId = w}
    BY DEF Mine
  <2>1. CASE w = u
    <3> DEFINE R == Mine(kept, u) \ Oldest(kept, u)
    <3>1. IsFiniteSet(R) /\ Cardinality(R) \in Nat /\ Cardinality(R) <= MaxPerUser - 1
      BY <1>2, <1>4, RoomForOne
    <3>2. Mine(Keys, w)' = R \cup {n}
      BY <1>1, <2>0, <2>1 DEF Mine, left
    <3> HIDE DEF R
    <3>3. Cardinality(R \cup {n}) = IF n \in R THEN Cardinality(R) ELSE Cardinality(R) + 1
      BY <3>1, FS_AddElement
    <3> QED BY <3>1, <3>2, <3>3, LocalHandshakeAssumption
  <2>2. CASE w # u
    <3>1. Mine(Keys, w)' \in SUBSET Mine(Keys, w)
      BY <1>1, <1>2, <2>0, <2>2 DEF Mine
    <3>2. IsFiniteSet(Mine(Keys, w))
      <4>1. Mine(Keys, w) \in SUBSET Keys
        BY DEF Mine
      <4> QED BY <1>4, <4>1, FS_Subset
    <3>3. Cardinality(Mine(Keys, w)) <= MaxPerUser
      BY DEF Inv, FewPerUser
    <3> QED BY <3>1, <3>2, <3>3, FewerStill
  <2> QED BY <2>1, <2>2
<1> QED BY <1>1, <1>5, <1>6 DEF Inv, FewPerUser

\* A step that issues nothing, and leaves user and number of each entry.
LEMMA FewerKeepInv ==
    ASSUME Inv, Keys' \subseteq Keys, UNCHANGED issues,
           \A n \in Keys' : /\ entries'[n].userId = entries[n].userId
                            /\ entries'[n].number = entries[n].number
    PROVE  Numbered' /\ FewPerUser'
<1>1. IsFiniteSet(Keys) /\ IsFiniteSet(Keys')
  BY FS_Subset DEF Inv, Numbered
<1>2. Numbered'
  BY <1>1 DEF Inv, Numbered
<1>3. ASSUME NEW u \in User PROVE Cardinality(Mine(Keys, u)') <= MaxPerUser
  <2>1. Mine(Keys, u)' \in SUBSET Mine(Keys, u)
    BY DEF Mine
  <2>2. Mine(Keys, u) \in SUBSET Keys
    BY DEF Mine
  <2>3. IsFiniteSet(Mine(Keys, u))
    BY <1>1, <2>2, FS_Subset
  <2>4. Cardinality(Mine(Keys, u)) <= MaxPerUser
    BY DEF Inv, FewPerUser
  <2> QED BY <2>1, <2>3, <2>4, FewerStill
<1> QED BY <1>2, <1>3 DEF FewPerUser

LEMMA RedeemKeepsInv ==
    ASSUME Inv, NEW n \in Nonce, Redeem(n)
    PROVE  Inv' /\ Keys' = Keys
<1> DEFINE by == app[entries[n].tab]
<1>1. /\ n \in Keys /\ by # None
      /\ entries' = [entries EXCEPT ![n].redeemedBy = by]
      /\ UNCHANGED <<issues, apps>>
  BY DEF Redeem
<1>2. /\ entries \in [Nonce -> Entry \cup {None, Gone}] /\ entries[n] \in Entry
      /\ app \in [Device -> User \cup {None}]
      /\ None \notin Entry /\ Gone \notin Entry
  BY <1>1, KeysAreEntries, LocalHandshakeAssumption DEF Inv, LocalHandshakeTypeOK
<1>3. by \in User
  BY <1>1, <1>2 DEF Entry
<1> HIDE DEF by
<1>4. /\ entries'[n] = [entries[n] EXCEPT !.redeemedBy = by]
      /\ \A m \in Nonce \ {n} : entries'[m] = entries[m]
  BY <1>1, <1>2
<1>5. /\ entries'[n] \in Entry
      /\ entries'[n].userId = entries[n].userId /\ entries'[n].number = entries[n].number
  BY <1>2, <1>3, <1>4 DEF Entry
<1>6. LocalHandshakeTypeOK'
  BY <1>1, <1>2, <1>5 DEF Inv, LocalHandshakeTypeOK, apps
<1>7. Keys' = Keys
  BY <1>1, <1>2, <1>4, <1>5 DEF Keys
<1>8. Numbered' /\ FewPerUser'
  <2>1. \A m \in Keys' : /\ entries'[m].userId = entries[m].userId
                         /\ entries'[m].number = entries[m].number
    BY <1>4, <1>5 DEF Keys
  <2> QED BY <1>1, <1>7, <2>1, FewerKeepInv
<1> QED BY <1>6, <1>7, <1>8 DEF Inv

LEMMA EvaluateKeepsInv ==
    ASSUME Inv, NEW u \in User, NEW n \in Nonce, Evaluate(u, n), UNCHANGED apps
    PROVE  Inv' /\ Keys' = Keys \ {n}
<1>1. /\ entries' = [entries EXCEPT ![n] = Gone] /\ UNCHANGED <<issues, apps>>
      /\ entries \in [Nonce -> Entry \cup {None, Gone}]
  BY DEF Evaluate, Inv, LocalHandshakeTypeOK
<1>2. LocalHandshakeTypeOK'
  BY <1>1 DEF Inv, LocalHandshakeTypeOK, apps
<1>3. Keys' = Keys \ {n} /\ \A m \in Keys' : entries'[m] = entries[m]
  BY <1>1 DEF Keys
<1>4. Numbered' /\ FewPerUser'
  BY <1>1, <1>3, FewerKeepInv
<1> QED BY <1>2, <1>3, <1>4 DEF Inv

LEMMA ForgetKeepsInv ==
    ASSUME Inv, Forget
    PROVE  Inv' /\ Keys' = {}
<1>1. /\ entries' = [n \in Nonce |-> IF entries[n] = None THEN None ELSE Gone]
      /\ present' = [d \in Device |-> None] /\ UNCHANGED <<issues, app>>
  BY DEF Forget
<1>2. LocalHandshakeTypeOK'
  BY <1>1 DEF Inv, LocalHandshakeTypeOK
<1>3. Keys' = {}
  BY <1>1 DEF Keys
<1>4. Numbered' /\ FewPerUser'
  BY <1>1, <1>3, FewerKeepInv
<1> QED BY <1>2, <1>3, <1>4 DEF Inv

LEMMA TickKeepsInv ==
    ASSUME Inv, Tick
    PROVE  Inv' /\ Keys' = Keys
<1>1. /\ UNCHANGED <<issues, apps>>
      /\ entries' = [n \in Nonce |->
            IF n \notin Keys \/ Past(n) THEN entries[n]
            ELSE [entries[n] EXCEPT !.left = @ - 1]]
  BY DEF Tick
<1>2. /\ entries \in [Nonce -> Entry \cup {None, Gone}] /\ TTL \in Nat
      /\ None \notin Entry /\ Gone \notin Entry
      /\ \A m \in Keys : entries[m] \in Entry
  BY KeysAreEntries, LocalHandshakeAssumption DEF Inv, LocalHandshakeTypeOK, Keys
<1>3. ASSUME NEW n \in Nonce
      PROVE  /\ n \in Keys => /\ entries'[n] \in Entry
                              /\ entries'[n].userId = entries[n].userId
                              /\ entries'[n].number = entries[n].number
             /\ n \notin Keys => entries'[n] = entries[n]
  BY <1>1, <1>2 DEF Entry, Past
<1>4. LocalHandshakeTypeOK'
  <2>1. \A n \in Nonce : entries'[n] \in Entry \cup {None, Gone}
    BY <1>2, <1>3
  <2> QED BY <1>1, <2>1 DEF Inv, LocalHandshakeTypeOK, apps
<1>5. Keys' = Keys
  BY <1>2, <1>3 DEF Keys
<1>6. Numbered' /\ FewPerUser'
  <2>1. \A n \in Keys' : /\ entries'[n].userId = entries[n].userId
                         /\ entries'[n].number = entries[n].number
    BY <1>3, <1>5 DEF Keys
  <2> QED BY <1>1, <1>5, <2>1, FewerKeepInv
<1> QED BY <1>4, <1>5, <1>6 DEF Inv

LEMMA InvInitially ==
    ASSUME LocalHandshakeInit
    PROVE  Inv
<1>1. Keys = {} /\ \A u \in User : Mine(Keys, u) = {}
  BY DEF LocalHandshakeInit, Keys, Mine
<1>2. Numbered /\ FewPerUser
  BY <1>1, FS_EmptySet, LocalHandshakeAssumption DEF Numbered, FewPerUser
<1> QED BY <1>2 DEF LocalHandshakeInit, Inv, LocalHandshakeTypeOK

LEMMA InvHolds == LocalHandshakeSpec => []Inv
<1>1. LocalHandshakeInit => Inv
  BY InvInitially
<1>2. Inv /\ [LocalHandshakeNext]_handshakeVars => Inv'
  <2> SUFFICES ASSUME Inv, [LocalHandshakeNext]_handshakeVars PROVE Inv'
    OBVIOUS
  <2>1. CASE AppSteps
    BY <2>1, AppsKeepInv
  <2>2. ASSUME NEW u \in User, NEW n \in Nonce, NEW d \in Device, Issue(u, d, n) PROVE Inv'
    BY <2>2, IssueKeepsInv
  <2>3. ASSUME NEW n \in Nonce, Redeem(n) PROVE Inv'
    BY <2>3, RedeemKeepsInv
  <2>4. ASSUME NEW u \in User, NEW n \in Nonce, Check(u, n) PROVE Inv'
    BY <2>4, EvaluateKeepsInv DEF Check
  <2>5. CASE Tick
    BY <2>5, TickKeepsInv
  <2>6. CASE Forget
    BY <2>6, ForgetKeepsInv
  <2>7. CASE UNCHANGED handshakeVars
    BY <2>7 DEF handshakeVars, handshake, apps, Inv, LocalHandshakeTypeOK, Numbered,
                FewPerUser, Mine, Keys
  <2> QED BY <2>1, <2>2, <2>3, <2>4, <2>5, <2>6, <2>7 DEF LocalHandshakeNext, HandshakeSteps
<1> QED BY <1>1, <1>2, PTL DEF LocalHandshakeSpec, handshakeVars

-----------------------------------------------------------------------------
(* The theorems.                                                            *)

\* LocalHandshakeService keeps well-formed entries, whatever is asked of it.
THEOREM HandshakeTyped == LocalHandshakeSpec => []LocalHandshakeTypeOK
<1>1. Inv => LocalHandshakeTypeOK
  BY DEF Inv
<1> QED BY <1>1, InvHolds, PTL

\* issue() leaves no user more nonces than MAX_PER_USER, for dropOldest leaves one
\* place less.
THEOREM FewPerUserAlways == LocalHandshakeSpec => []FewPerUser
<1>1. Inv => FewPerUser
  BY DEF Inv
<1> QED BY <1>1, InvHolds, PTL

\* A nonce disappears from the map by its evaluation, its age, a restart, or as
\* the oldest of a user who gets one more and has as many as dropOldest leaves.
THEOREM DisplacedByOwnOnly == LocalHandshakeSpec => DisplacedByOwn
<1> DEFINE Left(n) ==
        \/ Past(n) \/ Keys' = {} \/ Keys' = Keys \ {n}
        \/ /\ \E m \in Keys' \ Keys : entries'[m].userId = entries[n].userId
           /\ Cardinality(Younger(Keys, entries[n].userId, n)) >= MaxPerUser - 1
<1>1. ASSUME Inv, NEW u \in User, NEW d \in Device, NEW k \in Nonce, Issue(u, d, k),
             NEW n \in Keys \ Keys'
      PROVE  Left(n)
  <2> DEFINE kept == Keys \ Swept
             Y == Younger(kept, u, n)
             Z == Younger(Keys, u, n)
  <2>1. /\ k \notin Keys /\ Keys' = (kept \ Oldest(kept, u)) \cup {k}
        /\ entries'[k].userId = u
    BY <1>1, IssueDoes
  <2>2. n \in Swept \/ n \in Oldest(kept, u)
    BY <2>1
  <2>3. CASE n \in Swept
    BY <2>3 DEF Swept
  <2>4. CASE n \in Oldest(kept, u)
    <3>1. entries[n].userId = u /\ Cardinality(Y) >= MaxPerUser - 1
      BY <2>4 DEF Oldest, Mine
    <3>2. Y \in SUBSET Z /\ Z \in SUBSET Keys
      BY DEF Younger, Mine
    <3>3. IsFiniteSet(Z) /\ Cardinality(Z) \in Nat /\ Cardinality(Y) \in Nat
      BY <1>1, <3>2, FS_Subset, FS_CardinalityType DEF Inv, Numbered
    <3>4. Cardinality(Y) <= Cardinality(Z)
      BY <3>2, <3>3, FS_Subset
    <3>5. k \in Keys' \ Keys /\ entries'[k].userId = entries[n].userId
      BY <2>1, <3>1
    <3> HIDE DEF Y, Z
    <3>6. Cardinality(Z) >= MaxPerUser - 1
      BY <3>1, <3>3, <3>4, LocalHandshakeAssumption
    <3> QED BY <3>1, <3>5, <3>6 DEF Z
  <2> QED BY <2>2, <2>3, <2>4
<1>2. ASSUME Inv, LocalHandshakeNext
      PROVE  \A n \in Keys \ Keys' : Left(n)
  <2>1. CASE \E u \in User, n \in Nonce, d \in Device : Issue(u, d, n)
    BY <1>1, <1>2, <2>1
  <2>2. CASE \E u \in User, n \in Nonce : Check(u, n)
    <3>1. \E n \in Nonce : Keys' = Keys \ {n}
      BY <1>2, <2>2, EvaluateKeepsInv DEF Check
    <3> QED BY <3>1
  <2>3. CASE AppSteps
    <3>1. UNCHANGED handshake
      BY <2>3 DEF AppSteps, LoginAt, AppLogout, Online, Offline
    <3> QED BY <3>1 DEF handshake, Keys
  <2>4. CASE Forget
    BY <1>2, <2>4, ForgetKeepsInv
  <2>5. CASE (\E n \in Nonce : Redeem(n)) \/ Tick
    <3>1. Keys' = Keys
      BY <1>2, <2>5, RedeemKeepsInv, TickKeepsInv
    <3> QED BY <3>1
  <2> QED BY <1>2, <2>1, <2>2, <2>3, <2>4, <2>5 DEF LocalHandshakeNext, HandshakeSteps
<1>3. Inv /\ [LocalHandshakeNext]_handshakeVars
        => [\A n \in Keys \ Keys' : Left(n)]_handshakeVars
  BY <1>2
<1> QED BY <1>3, InvHolds, PTL DEF LocalHandshakeSpec, DisplacedByOwn, handshakeVars

-----------------------------------------------------------------------------
(* The composition.                                                         *)

LEMMA ClockStepIsHandshakeStep ==
    ASSUME [Next]_vars
    PROVE  [LocalHandshakeNext]_handshakeVars
<1> USE DEF handshakeVars
<1>1. ASSUME NEW r \in Request, NEW u \in User, NEW n \in Nonce, AskLunch(r, u, n)
      PROVE  LocalHandshakeNext
  <2>1. Check(u, n)
    BY <1>1 DEF AskLunch, Check
  <2> QED BY <2>1 DEF LocalHandshakeNext, HandshakeSteps
<1>2. ASSUME NEW r \in Request, NEW u \in User,
             AskClock(r, u) \/ ForcedLunchBack(r, u) \/ ForcedScreenshot(r, u)
      PROVE  UNCHANGED <<handshake, apps>>
  BY <1>2 DEF AskClock, ForcedLunchBack, ForcedScreenshot, Begin
<1>3. ASSUME NEW r \in Request, Resumes(r)
      PROVE  UNCHANGED <<handshake, apps>>
  BY <1>3 DEF Resumes, Busy, Unavailable, Emit, AckOrTimeout
<1>4. CASE (HandshakeSteps \/ AppSteps) /\ UNCHANGED clock
  BY <1>4 DEF LocalHandshakeNext
<1>5. CASE Restart
  BY <1>5 DEF Restart, LocalHandshakeNext
<1>6. CASE UNCHANGED vars
  BY <1>6 DEF vars
<1> QED BY <1>1, <1>2, <1>3, <1>4, <1>5, <1>6 DEF Next

\* Whatever the commands do, the nonces live as LocalHandshake says: a lunch
\* command is one evaluation, and every other step of a handler is none.
THEOREM ClockImplementsHandshake == Spec => LocalHandshakeSpec
<1>1. Init => LocalHandshakeInit
  BY DEF Init
<1>2. [Next]_vars => [LocalHandshakeNext]_handshakeVars
  BY ClockStepIsHandshakeStep
<1> QED BY <1>1, <1>2, PTL DEF Spec, LocalHandshakeSpec, handshakeVars

-----------------------------------------------------------------------------
(* The handlers.                                                            *)

\* A nonce that left the map is never issued again.
LEMMA GoneStays ==
    ASSUME Inv, [LocalHandshakeNext]_handshakeVars, NEW n \in Nonce, entries[n] = Gone
    PROVE  entries'[n] = Gone
<1>1. /\ entries \in [Nonce -> Entry \cup {None, Gone}] /\ n \notin Keys /\ Gone # None
  BY LocalHandshakeAssumption DEF Inv, LocalHandshakeTypeOK, Keys
<1>2. ASSUME NEW u \in User, NEW m \in Nonce, NEW d \in Device, Issue(u, d, m)
      PROVE  entries'[n] = Gone
  BY <1>1, <1>2 DEF Issue
<1>3. ASSUME NEW m \in Nonce, Redeem(m) PROVE entries'[n] = Gone
  BY <1>1, <1>3 DEF Redeem
<1>4. ASSUME NEW u \in User, NEW m \in Nonce, Evaluate(u, m) PROVE entries'[n] = Gone
  BY <1>1, <1>4 DEF Evaluate
<1>5. CASE Tick
  BY <1>1, <1>5 DEF Tick
<1>6. CASE AppSteps
  BY <1>6 DEF AppSteps, LoginAt, AppLogout, Online, Offline, handshake
<1>7. CASE Forget
  BY <1>1, <1>7 DEF Forget
<1>8. CASE UNCHANGED handshakeVars
  BY <1>8 DEF handshakeVars, handshake
<1> QED BY <1>2, <1>3, <1>4, <1>5, <1>6, <1>7, <1>8
        DEF LocalHandshakeNext, HandshakeSteps, Check

\* A command that is under way has a user; a nonce it rests on left the map.
Rests ==
    /\ \A r \in Request : req[r].at \in {"find", "wait"} => req[r].user # None
    /\ \A r \in Request : req[r].nonce # None => entries[req[r].nonce] = Gone
    /\ LunchOncePerNonce

Handlers == TypeOK /\ InFlightExact /\ Rests
ClockInv == Inv /\ Handlers

\* A step of another kind than the handlers' leaves them as they are.
LEMMA OthersKeepHandlers ==
    ASSUME ClockInv, Inv', [LocalHandshakeNext]_handshakeVars, UNCHANGED clock
    PROVE  Handlers'
<1>1. TypeOK'
  BY DEF ClockInv, Handlers, TypeOK, Inv, clock
<1>2. InFlightExact'
  BY DEF ClockInv, Handlers, InFlightExact, Waiting, Locks, clock
<1>3. \A r \in Request : req[r].nonce # None => req[r].nonce \in Nonce
  BY DEF ClockInv, Handlers, TypeOK, Handler
<1>4. \A r \in Request : req[r].nonce # None => entries'[req[r].nonce] = Gone
  BY <1>3, GoneStays DEF ClockInv, Handlers, Rests
<1>5. Rests'
  BY <1>4 DEF ClockInv, Handlers, Rests, LunchOncePerNonce, clock
<1> QED BY <1>1, <1>2, <1>5 DEF Handlers

\* A handler that is not at work begins, or is refused at once.
LEMMA BeginKeepsHandlers ==
    ASSUME ClockInv, Inv', [LocalHandshakeNext]_handshakeVars,
           NEW r \in Request, req[r].at = "idle", NEW h \in Handler, Become(r, h),
           h.at # "wait", h.at = "find" => h.user # None, UNCHANGED inFlight,
           h.nonce # None => entries[h.nonce] # Gone /\ entries'[h.nonce] = Gone
    PROVE  Handlers'
<1>1. /\ req \in [Request -> Handler] /\ req' = [req EXCEPT ![r] = h]
      /\ req'[r] = h /\ \A s \in Request \ {r} : req'[s] = req[s]
  BY DEF ClockInv, Handlers, TypeOK, Become
<1>2. TypeOK'
  BY <1>1 DEF ClockInv, Handlers, TypeOK, Inv
<1>3. InFlightExact'
  <2>1. \A u \in User : Waiting(u)' = Waiting(u)
    BY <1>1 DEF Waiting, Locks
  <2> QED BY <2>1 DEF ClockInv, Handlers, InFlightExact
<1>4. Rests'
  <2>1. \A s \in Request : req[s].nonce # None
            => req[s].nonce \in Nonce /\ entries[req[s].nonce] = Gone
    BY <1>1 DEF ClockInv, Handlers, Rests, Handler
  <2>2. \A s \in Request : req[s].nonce # None => entries'[req[s].nonce] = Gone
    BY <2>1, GoneStays DEF ClockInv
  <2>3. \A s \in Request : req'[s].nonce # None => entries'[req'[s].nonce] = Gone
    BY <1>1, <2>2
  <2>4. LunchOncePerNonce'
    BY <1>1, <2>1 DEF ClockInv, Handlers, Rests, LunchOncePerNonce
  <2>5. \A s \in Request : req'[s].at \in {"find", "wait"} => req'[s].user # None
    BY <1>1 DEF ClockInv, Handlers, Rests
  <2> QED BY <2>3, <2>4, <2>5 DEF Rests
<1> QED BY <1>2, <1>3, <1>4 DEF Handlers

LEMMA OverIs ==
    ASSUME NEW h \in Handler
    PROVE  Over(h) \in Handler /\ Over(h).at = "done" /\ Over(h).nonce = h.nonce
BY DEF Over, Idle, Handler

\* A handler that has answered keeps what it rested on.
LEMMA DoneKeepsHandlers ==
    ASSUME ClockInv, NEW r \in Request, Done(r), UNCHANGED <<handshake, apps>>,
           \/ req[r].at = "find" /\ UNCHANGED inFlight
           \/ req[r].at = "wait" /\ inFlight' = Released(r)
    PROVE  Handlers'
<1> DEFINE h == Over(req[r])
<1>1. /\ req \in [Request -> Handler] /\ req[r] \in Handler
      /\ req' = [req EXCEPT ![r] = h]
  BY DEF ClockInv, Handlers, TypeOK, Done, Become
<1>2. h \in Handler /\ h.at = "done" /\ h.nonce = req[r].nonce
  BY <1>1, OverIs
<1> HIDE DEF h
<1>3. req'[r] = h /\ \A s \in Request \ {r} : req'[s] = req[s]
  BY <1>1
<1>4. UNCHANGED <<entries, issues, app, present>>
  BY DEF handshake, apps
<1>5. TypeOK'
  <2>1. LocalHandshakeTypeOK'
    BY <1>4 DEF ClockInv, Inv, LocalHandshakeTypeOK
  <2>2. inFlight' \subseteq User
    BY DEF ClockInv, Handlers, TypeOK, Released
  <2> QED BY <1>1, <1>2, <2>1, <2>2 DEF TypeOK
<1>6. InFlightExact'
  <2> SUFFICES ASSUME NEW u \in User
               PROVE  /\ u \in inFlight' <=> Waiting(u)' # {}
                      /\ \A s, t \in Waiting(u)' : s = t
    BY DEF InFlightExact
  <2>1. Waiting(u)' = Waiting(u) \ {r}
    BY <1>2, <1>3 DEF Waiting, Locks
  <2>2. /\ u \in inFlight <=> Waiting(u) # {}
        /\ \A s, t \in Waiting(u) : s = t
    BY DEF ClockInv, Handlers, InFlightExact
  <2>3. CASE req[r].at = "find" /\ UNCHANGED inFlight
    <3>1. r \notin Waiting(u)
      BY <2>3 DEF Waiting
    <3> QED BY <2>1, <2>2, <2>3, <3>1
  <2>4. CASE req[r].at = "wait" /\ inFlight' = Released(r)
    <3>1. CASE r \in Waiting(u)
      BY <2>1, <2>2, <2>4, <3>1 DEF Waiting, Released
    <3>2. CASE r \notin Waiting(u)
      BY <2>1, <2>2, <2>4, <3>2 DEF Waiting, Released
    <3> QED BY <3>1, <3>2
  <2> QED BY <2>3, <2>4
<1>7. Rests'
  <2>1. \A s \in Request : req'[s].nonce = req[s].nonce
    BY <1>2, <1>3
  <2>2. \A s \in Request : req'[s].at \in {"find", "wait"} => req'[s].user # None
    BY <1>2, <1>3 DEF ClockInv, Handlers, Rests
  <2> QED BY <1>4, <2>1, <2>2 DEF ClockInv, Handlers, Rests, LunchOncePerNonce
<1> QED BY <1>5, <1>6, <1>7 DEF Handlers

\* The command goes out: the user's own takes the lock, which nobody has.
LEMMA EmitKeepsHandlers ==
    ASSUME ClockInv, NEW r \in Request, Emit(r)
    PROVE  Handlers'
<1> DEFINE h == [req[r] EXCEPT !.at = "wait"]
<1>1. /\ req \in [Request -> Handler] /\ req[r] \in Handler
      /\ req' = [req EXCEPT ![r] = h] /\ req[r].at = "find"
      /\ Locks(r) => req[r].user \notin inFlight
      /\ inFlight' = IF Locks(r) THEN inFlight \cup {req[r].user} ELSE inFlight
      /\ UNCHANGED <<entries, issues, app, present>>
  BY DEF ClockInv, Handlers, TypeOK, Emit, Become, handshake, apps
<1>2. /\ h \in Handler /\ h.at = "wait" /\ h.kind = req[r].kind /\ h.user = req[r].user
      /\ h.nonce = req[r].nonce
  BY <1>1 DEF Handler
<1> HIDE DEF h
<1>3. req'[r] = h /\ \A s \in Request \ {r} : req'[s] = req[s]
  BY <1>1
<1>4. req[r].user \in User
  BY <1>1 DEF ClockInv, Handlers, Rests, Handler
<1>5. TypeOK'
  <2>1. LocalHandshakeTypeOK'
    BY <1>1 DEF ClockInv, Inv, LocalHandshakeTypeOK
  <2>2. inFlight' \subseteq User
    BY <1>1, <1>4 DEF ClockInv, Handlers, TypeOK
  <2> QED BY <1>1, <1>2, <2>1, <2>2 DEF TypeOK
<1>6. InFlightExact'
  <2> SUFFICES ASSUME NEW u \in User
               PROVE  /\ u \in inFlight' <=> Waiting(u)' # {}
                      /\ \A s, t \in Waiting(u)' : s = t
    BY DEF InFlightExact
  <2>1. Waiting(u)' = IF Locks(r) /\ req[r].user = u THEN Waiting(u) \cup {r} ELSE Waiting(u)
    BY <1>1, <1>2, <1>3 DEF Waiting, Locks
  <2>2. /\ u \in inFlight <=> Waiting(u) # {}
        /\ \A s, t \in Waiting(u) : s = t
    BY DEF ClockInv, Handlers, InFlightExact
  <2> QED BY <1>1, <2>1, <2>2
<1>7. Rests'
  <2>1. \A s \in Request : req'[s].nonce = req[s].nonce /\ req'[s].user = req[s].user
    BY <1>2, <1>3
  <2>2. \A s \in Request : req'[s].at \in {"find", "wait"} => req'[s].user # None
    BY <1>1, <1>2, <1>3 DEF ClockInv, Handlers, Rests
  <2> QED BY <1>1, <2>1, <2>2 DEF ClockInv, Handlers, Rests, LunchOncePerNonce
<1> QED BY <1>5, <1>6, <1>7 DEF Handlers

LEMMA RestartKeepsHandlers ==
    ASSUME ClockInv, Inv', Restart
    PROVE  Handlers'
<1>1. /\ req \in [Request -> Handler]
      /\ req' = [r \in Request |-> IF req[r].at = "idle" THEN Idle ELSE Over(req[r])]
      /\ inFlight' = {} /\ Forget
      /\ Idle \in Handler /\ Idle.at = "idle" /\ Idle.nonce = None
  BY DEF ClockInv, Handlers, TypeOK, Restart, Idle, Handler
<1>2. ASSUME NEW r \in Request
      PROVE  /\ req'[r] \in Handler /\ req'[r].at \notin {"find", "wait"}
             /\ req'[r].nonce # None => req'[r].nonce = req[r].nonce
  BY <1>1, OverIs
<1>3. TypeOK'
  BY <1>1, <1>2 DEF TypeOK, Inv
<1>4. InFlightExact'
  BY <1>1, <1>2 DEF InFlightExact, Waiting
<1>5. \A r \in Request : req'[r].nonce # None => entries'[req'[r].nonce] = Gone
  <2>1. LocalHandshakeNext
    BY <1>1 DEF LocalHandshakeNext
  <2>2. \A r \in Request : req[r].nonce # None
            => req[r].nonce \in Nonce /\ entries[req[r].nonce] = Gone
    BY <1>1 DEF ClockInv, Handlers, Rests, Handler
  <2> QED BY <1>2, <2>1, <2>2, GoneStays DEF ClockInv
<1>6. Rests'
  BY <1>2, <1>5 DEF ClockInv, Handlers, Rests, LunchOncePerNonce
<1> QED BY <1>3, <1>4, <1>6 DEF Handlers

LEMMA AskKeepsHandlers ==
    ASSUME ClockInv, Inv', [LocalHandshakeNext]_handshakeVars, NEW r \in Request,
           NEW u \in User,
           \/ AskClock(r, u) \/ ForcedLunchBack(r, u) \/ ForcedScreenshot(r, u)
           \/ \E n \in Nonce : AskLunch(r, u, n)
    PROVE  Handlers'
<1>0. u # None /\ req[r] \in Handler
  BY LocalHandshakeAssumption DEF ClockInv, Handlers, TypeOK
<1>1. ASSUME NEW kind \in Kind, Begin(r, Asked(kind, u)) PROVE Handlers'
  <2> DEFINE h == Asked(kind, u)
  <2>1. h \in Handler /\ h.at = "find" /\ h.nonce = None /\ h.user = u
    BY DEF Asked, Idle, Handler
  <2>2. req[r].at = "idle" /\ Become(r, h) /\ UNCHANGED inFlight
    BY <1>1 DEF Begin
  <2> HIDE DEF h
  <2> QED BY <1>0, <2>1, <2>2, BeginKeepsHandlers
<1>2. ASSUME NEW n \in Nonce, AskLunch(r, u, n) PROVE Handlers'
  <2>1. /\ req[r].at = "idle" /\ UNCHANGED inFlight
        /\ entries' = [entries EXCEPT ![n] = Gone]
        /\ entries \in [Nonce -> Entry \cup {None, Gone}]
    BY <1>2 DEF AskLunch, Evaluate, ClockInv, Inv, LocalHandshakeTypeOK
  <2>2. CASE Passes(u, n)
    <3> DEFINE h == [Asked("own", u) EXCEPT !.nonce = n]
    <3>1. h \in Handler /\ h.at = "find" /\ h.nonce = n /\ h.user = u
      BY DEF Asked, Idle, Handler, Kind
    <3>2. Become(r, h)
      BY <1>2, <2>2 DEF AskLunch
    <3>3. entries[n] # Gone /\ entries'[n] = Gone
      BY <2>1, <2>2 DEF Passes, Keys
    <3> HIDE DEF h
    <3> QED BY <1>0, <2>1, <3>1, <3>2, <3>3, BeginKeepsHandlers
  <2>3. CASE ~Passes(u, n)
    <3> DEFINE h == Over(Asked("own", u))
    <3>1. Asked("own", u) \in Handler /\ Asked("own", u).nonce = None
      BY DEF Asked, Idle, Handler, Kind
    <3>2. h \in Handler /\ h.at = "done" /\ h.nonce = None
      BY <3>1, OverIs
    <3>3. Become(r, h)
      BY <1>2, <2>3 DEF AskLunch
    <3> HIDE DEF h
    <3> QED BY <2>1, <3>2, <3>3, BeginKeepsHandlers
  <2> QED BY <2>2, <2>3
<1> QED BY <1>1, <1>2 DEF AskClock, ForcedLunchBack, ForcedScreenshot, Kind

LEMMA HandlerStepKeepsHandlers ==
    ASSUME ClockInv, NEW r \in Request, Resumes(r)
    PROVE  Handlers'
<1>1. CASE Busy(r)
  BY <1>1, DoneKeepsHandlers DEF Busy
<1>2. CASE Unavailable(r)
  BY <1>2, DoneKeepsHandlers DEF Unavailable
<1>3. CASE Emit(r)
  BY <1>3, EmitKeepsHandlers
<1>4. CASE AckOrTimeout(r)
  BY <1>4, DoneKeepsHandlers DEF AckOrTimeout
<1> QED BY <1>1, <1>2, <1>3, <1>4 DEF Resumes

LEMMA ClockInvHolds == Spec => []ClockInv
<1>1. Init => Handlers
  <2> SUFFICES ASSUME Init PROVE Handlers
    OBVIOUS
  <2>1. req = [r \in Request |-> Idle] /\ inFlight = {} /\ Inv
    BY InvInitially DEF Init
  <2>2. Idle \in Handler /\ Idle.at = "idle" /\ Idle.nonce = None
    BY DEF Idle, Handler
  <2>3. TypeOK
    BY <2>1, <2>2 DEF Inv, TypeOK
  <2>4. InFlightExact
    BY <2>1, <2>2 DEF InFlightExact, Waiting
  <2>5. Rests
    BY <2>1, <2>2 DEF Rests, LunchOncePerNonce
  <2> QED BY <2>3, <2>4, <2>5 DEF Handlers
<1>2. Inv /\ Inv' /\ Handlers /\ [Next]_vars => Handlers'
  <2> SUFFICES ASSUME Inv, Inv', Handlers, [Next]_vars PROVE Handlers'
    OBVIOUS
  <2>0. ClockInv
    BY DEF ClockInv
  <2>1. [LocalHandshakeNext]_handshakeVars
    BY ClockStepIsHandshakeStep
  <2>2. ASSUME NEW r \in Request, NEW u \in User,
               \/ AskClock(r, u) \/ ForcedLunchBack(r, u) \/ ForcedScreenshot(r, u)
               \/ \E n \in Nonce : AskLunch(r, u, n)
        PROVE  Handlers'
    BY <2>0, <2>1, <2>2, AskKeepsHandlers
  <2>3. ASSUME NEW r \in Request, Resumes(r) PROVE Handlers'
    BY <2>0, <2>3, HandlerStepKeepsHandlers
  <2>4. CASE (HandshakeSteps \/ AppSteps) /\ UNCHANGED clock
    BY <2>0, <2>1, <2>4, OthersKeepHandlers
  <2>5. CASE Restart
    BY <2>0, <2>5, RestartKeepsHandlers
  <2>6. CASE UNCHANGED vars
    BY <2>0, <2>1, <2>6, OthersKeepHandlers DEF vars
  <2> QED BY <2>2, <2>3, <2>4, <2>5, <2>6 DEF Next
<1>3. Inv /\ Handlers => ClockInv
  BY DEF ClockInv
<1> QED BY <1>1, <1>2, <1>3, ClockImplementsHandshake, InvHolds, PTL DEF Spec

-----------------------------------------------------------------------------
(* The theorems.                                                            *)

\* The state of the service is well formed whatever overlaps, is lost or restarts.
THEOREM ClockTyped == Spec => []TypeOK
<1>1. ClockInv => TypeOK
  BY DEF ClockInv, Handlers
<1> QED BY <1>1, ClockInvHolds, PTL

\* inFlight is the set of users with a handler of their own that waits: the
\* finally of request() gives back each lock, once, and its own.
THEOREM LockIsExact == Spec => []InFlightExact
<1>1. ClockInv => InFlightExact
  BY DEF ClockInv, Handlers
<1> QED BY <1>1, ClockInvHolds, PTL

\* A nonce that let one lunch command pass lets no other pass.
THEOREM LunchOnce == Spec => []LunchOncePerNonce
<1>1. ClockInv => LunchOncePerNonce
  BY DEF ClockInv, Handlers, Rests
<1> QED BY <1>1, ClockInvHolds, PTL
=============================================================================
