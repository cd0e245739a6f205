------------------------- MODULE LoginThrottleProofs -------------------------
(***************************************************************************)
(* Proofs about LoginThrottle, for any number of keys and of attempts, any *)
(* limits and times.  Every operation of the service treats a key by       *)
(* itself, so the invariant is a relation between a key's entry, the tally *)
(* of its failures and the number of attempts under way with it; a lemma   *)
(* for each operation says that it keeps the relation.                     *)
(***************************************************************************)
EXTENDS LoginThrottle, FiniteSetTheorems, TLAPS

\* The attempts under way with key k.
Working(k) == {p \in Proc : attempt[p] # None /\ k \in {attempt[p].id, attempt[p].ip}}
InFlight(k) == Cardinality(Working(k))

\* The service's list t holds some of the failures F, and no other ones.
Part(t, F) ==
    /\ t[0] = 0 /\ F[0] = 0
    /\ \A a, b \in 0 .. Horizon :
        a <= b => t[a] <= t[b] /\ t[b] - t[a] <= F[b] - F[a]

\* The relation: entry e of key k, its failures F, n attempts under way.
\* Failures after the one that blocked come from attempts that overlapped it,
\* and only those can be lost when the block is over.
Consistent(k, e, F, n) ==
    /\ Part(Failures(e), F)
    /\ Blocked(e) => F[WindowTime + (BlockTime - e.left)] >= Limit(k)
    /\ BlockLeft(e) # None => F[BlockTime - BlockLeft(e)] + n <= Others
    /\ F[WindowTime] <= Failures(e)[WindowTime] + Others
    /\ Failures(e)[WindowTime] + n <= Limit(k) + Others
    /\ BlockLeft(e) = None => Failures(e)[WindowTime] < Limit(k)

KeysConsistent == \A k \in Key : Consistent(k, entries[k], failed[k], InFlight(k))

Inv == TypeOK /\ KeysConsistent

-----------------------------------------------------------------------------
(* Constants, tallies and entries.                                          *)

LEMMA Constants ==
    /\ WindowTime \in Nat /\ WindowTime > 0 /\ BlockTime \in Nat /\ BlockTime >= WindowTime
    /\ Horizon \in Nat /\ Horizon = WindowTime + BlockTime
    /\ WindowTime \in 0 .. Horizon /\ BlockTime \in 0 .. Horizon
    /\ Horizon \in 0 .. Horizon /\ 0 \in 0 .. Horizon
    /\ IsFiniteSet(Proc) /\ Cardinality(Proc) \in Nat /\ Others \in Nat
    /\ Cardinality(Proc) = Others + 1
    /\ \A k \in Key : Limit(k) \in Nat /\ Limit(k) > 0
<1>1. /\ WindowTime \in Nat /\ WindowTime > 0 /\ BlockTime \in Nat /\ BlockTime >= WindowTime
  BY LoginThrottleAssumption
<1>2. /\ Horizon \in Nat /\ Horizon = WindowTime + BlockTime
      /\ WindowTime \in 0 .. Horizon /\ BlockTime \in 0 .. Horizon
      /\ Horizon \in 0 .. Horizon /\ 0 \in 0 .. Horizon
  BY <1>1 DEF Horizon
<1>3. IsFiniteSet(Proc) /\ Cardinality(Proc) \in Nat
  BY LoginThrottleAssumption, FS_CardinalityType
<1>4. Cardinality(Proc) # 0
  BY <1>3, LoginThrottleAssumption, FS_EmptySet
<1>5. Others \in Nat /\ Cardinality(Proc) = Others + 1
  BY <1>3, <1>4 DEF Others
<1>6. ASSUME NEW k \in Key
      PROVE  Limit(k) \in Nat /\ Limit(k) > 0
  BY LoginThrottleAssumption DEF Limit
<1> QED BY <1>1, <1>2, <1>3, <1>5, <1>6

LEMMA Tallies ==
    ASSUME NEW t \in Tally
    PROVE  /\ Plus(t) \in Tally /\ Recent(t) \in Tally /\ Older(t) \in Tally
           /\ Nothing \in Tally
           /\ \A b \in 0 .. Horizon :
                /\ t[b] \in Nat
                /\ Plus(t)[b] = IF b = 0 THEN 0 ELSE t[b] + 1
                /\ Recent(t)[b] = IF b < WindowTime THEN t[b] ELSE t[WindowTime]
                /\ Older(t)[b] = IF b = 0 THEN 0 ELSE t[b - 1]
                /\ Nothing[b] = 0
<1> USE DEF Tally
<1>1. \A b \in 0 .. Horizon : t[b] \in Nat /\ t[b] + 1 \in Nat /\ (b # 0 => t[b - 1] \in Nat)
  <2> SUFFICES ASSUME NEW b \in 0 .. Horizon
               PROVE  t[b] \in Nat /\ t[b] + 1 \in Nat /\ (b # 0 => t[b - 1] \in Nat)
    OBVIOUS
  <2>1. b # 0 => b - 1 \in 0 .. Horizon
    BY Constants
  <2>2. t[b] \in Nat
    OBVIOUS
  <2> QED BY <2>1, <2>2
<1>2. t[WindowTime] \in Nat
  BY Constants
<1>3. Plus(t) \in Tally
  BY <1>1 DEF Plus
<1>4. Recent(t) \in Tally
  BY <1>1, <1>2 DEF Recent
<1>5. Older(t) \in Tally
  BY <1>1 DEF Older
<1>6. Nothing \in Tally
  BY DEF Nothing
<1> QED BY <1>1, <1>3, <1>4, <1>5, <1>6 DEF Plus, Recent, Older, Nothing

LEMMA EntryFields ==
    ASSUME NEW e \in Entry
    PROVE  /\ e # None /\ e.failures \in Tally /\ e.left \in (0 .. BlockTime) \cup {None}
           /\ Failures(e) = e.failures /\ BlockLeft(e) = e.left
<1>1. e # None
  BY LoginThrottleAssumption
<1>2. e.failures \in Tally /\ e.left \in (0 .. BlockTime) \cup {None}
  BY DEF Entry
<1> QED BY <1>1, <1>2 DEF Failures, BlockLeft

\* What an entry or its absence says.
LEMMA EntryTypes ==
    ASSUME NEW e \in Entry \cup {None}
    PROVE  /\ Failures(e) \in Tally
           /\ BlockLeft(e) \in (0 .. BlockTime) \cup {None}
           /\ e = None => Failures(e) = Nothing /\ BlockLeft(e) = None
           /\ Blocked(e) => BlockLeft(e) \in 1 .. BlockTime /\ e \in Entry /\ e.left = BlockLeft(e)
           /\ BlockLeft(e) # None => BlockLeft(e) \in 0 .. BlockTime /\ e \in Entry
<1>1. CASE e = None
  <2>1. Nothing \in Tally
    BY DEF Nothing, Tally
  <2>2. Failures(e) = Nothing /\ BlockLeft(e) = None
    BY <1>1 DEF Failures, BlockLeft
  <2>3. ~Blocked(e)
    BY <2>2 DEF Blocked
  <2> QED BY <2>1, <2>2, <2>3
<1>2. CASE e \in Entry
  <2>1. /\ e # None /\ e.failures \in Tally /\ e.left \in (0 .. BlockTime) \cup {None}
        /\ Failures(e) = e.failures /\ BlockLeft(e) = e.left
    BY <1>2, EntryFields
  <2>2. Blocked(e) => BlockLeft(e) \in 1 .. BlockTime
    BY <2>1, Constants DEF Blocked
  <2> QED BY <1>2, <2>1, <2>2
<1> QED BY <1>1, <1>2

LEMMA EntryRecord ==
    ASSUME NEW t \in Tally, NEW l \in (0 .. BlockTime) \cup {None}
    PROVE  /\ [failures |-> t, left |-> l] \in Entry
           /\ Failures([failures |-> t, left |-> l]) = t
           /\ BlockLeft([failures |-> t, left |-> l]) = l
           /\ [failures |-> t, left |-> l].left = l
<1>1. [failures |-> t, left |-> l] \in Entry
  BY DEF Entry
<1> QED BY <1>1, EntryFields

-----------------------------------------------------------------------------
(* The part of the failures that a list holds.                              *)

LEMMA PartOf ==
    ASSUME NEW t \in Tally, NEW F \in Tally, Part(t, F),
           NEW a \in 0 .. Horizon, NEW b \in 0 .. Horizon, a <= b
    PROVE  /\ t[a] \in Nat /\ t[b] \in Nat /\ F[a] \in Nat /\ F[b] \in Nat
           /\ t[a] <= t[b] /\ F[a] <= F[b] /\ t[b] - t[a] <= F[b] - F[a]
           /\ t[0] = 0 /\ F[0] = 0
<1>1. t[a] \in Nat /\ t[b] \in Nat /\ F[a] \in Nat /\ F[b] \in Nat
  BY Tallies
<1>2. t[a] <= t[b] /\ t[b] - t[a] <= F[b] - F[a] /\ t[0] = 0 /\ F[0] = 0
  BY DEF Part
<1> QED BY <1>1, <1>2

LEMMA NothingPart ==
    ASSUME NEW t \in Tally, NEW F \in Tally, Part(t, F)
    PROVE  Part(Nothing, F)
<1>1. \A b \in 0 .. Horizon : Nothing[b] = 0
  BY Tallies
<1>2. Nothing[0] = 0 /\ F[0] = 0
  BY <1>1, Constants DEF Part
<1>3. ASSUME NEW a \in 0 .. Horizon, NEW b \in 0 .. Horizon, a <= b
      PROVE  Nothing[a] <= Nothing[b] /\ Nothing[b] - Nothing[a] <= F[b] - F[a]
  <2>1. F[a] \in Nat /\ F[b] \in Nat /\ F[a] <= F[b]
    BY <1>3, PartOf
  <2>2. Nothing[a] = 0 /\ Nothing[b] = 0
    BY <1>1
  <2> QED BY <2>1, <2>2
<1> QED BY <1>2, <1>3 DEF Part

LEMMA OlderPart ==
    ASSUME NEW t \in Tally, NEW F \in Tally, Part(t, F)
    PROVE  Part(Older(t), Older(F))
<1>1. \A b \in 0 .. Horizon : /\ Older(t)[b] = IF b = 0 THEN 0 ELSE t[b - 1]
                              /\ Older(F)[b] = IF b = 0 THEN 0 ELSE F[b - 1]
  BY Tallies
<1>2. Older(t)[0] = 0 /\ Older(F)[0] = 0
  BY <1>1, Constants
<1>3. ASSUME NEW a \in 0 .. Horizon, NEW b \in 0 .. Horizon, a <= b
      PROVE  /\ Older(t)[a] <= Older(t)[b]
             /\ Older(t)[b] - Older(t)[a] <= Older(F)[b] - Older(F)[a]
  <2>1. CASE b = 0
    <3>1. a = 0
      BY <1>3, <2>1
    <3>2. Older(t)[a] = 0 /\ Older(t)[b] = 0 /\ Older(F)[a] = 0 /\ Older(F)[b] = 0
      BY <1>1, <2>1, <3>1
    <3> QED BY <3>2
  <2>2. CASE b # 0 /\ a = 0
    <3>1. 0 \in 0 .. Horizon /\ b - 1 \in 0 .. Horizon /\ 0 <= b - 1
      BY <2>2, Constants
    <3>2. /\ t[0] <= t[b - 1] /\ t[b - 1] - t[0] <= F[b - 1] - F[0] /\ t[0] = 0 /\ F[0] = 0
          /\ t[b - 1] \in Nat /\ F[b - 1] \in Nat
      BY <3>1, PartOf
    <3>3. /\ Older(t)[a] = 0 /\ Older(t)[b] = t[b - 1]
          /\ Older(F)[a] = 0 /\ Older(F)[b] = F[b - 1]
      BY <1>1, <2>2
    <3> QED BY <3>2, <3>3
  <2>3. CASE b # 0 /\ a # 0
    <3>1. a - 1 \in 0 .. Horizon /\ b - 1 \in 0 .. Horizon /\ a - 1 <= b - 1
      BY <1>3, <2>3, Constants
    <3>2. t[a - 1] <= t[b - 1] /\ t[b - 1] - t[a - 1] <= F[b - 1] - F[a - 1]
      BY <3>1, PartOf
    <3>3. /\ Older(t)[a] = t[a - 1] /\ Older(t)[b] = t[b - 1]
          /\ Older(F)[a] = F[a - 1] /\ Older(F)[b] = F[b - 1]
      BY <1>1, <2>3
    <3> QED BY <3>2, <3>3
  <2> QED BY <2>1, <2>2, <2>3
<1> QED BY <1>2, <1>3 DEF Part

\* A list without what is out of the window.
LEMMA RecentPart ==
    ASSUME NEW t \in Tally, NEW F \in Tally, Part(t, F)
    PROVE  Part(Recent(t), F)
<1>1. \A b \in 0 .. Horizon : Recent(t)[b] = IF b < WindowTime THEN t[b] ELSE t[WindowTime]
  BY Tallies
<1>2. Recent(t)[0] = 0 /\ F[0] = 0
  BY <1>1, Constants DEF Part
<1>3. ASSUME NEW a \in 0 .. Horizon, NEW b \in 0 .. Horizon, a <= b
      PROVE  /\ Recent(t)[a] <= Recent(t)[b]
             /\ Recent(t)[b] - Recent(t)[a] <= F[b] - F[a]
  <2>0. WindowTime \in 0 .. Horizon /\ WindowTime \in Nat
    BY Constants
  <2>1. CASE b < WindowTime
    <3>1. Recent(t)[a] = t[a] /\ Recent(t)[b] = t[b]
      BY <1>1, <1>3, <2>0, <2>1
    <3>2. t[a] <= t[b] /\ t[b] - t[a] <= F[b] - F[a]
      BY <1>3, PartOf
    <3> QED BY <3>1, <3>2
  <2>2. CASE ~(b < WindowTime) /\ a < WindowTime
    <3>1. Recent(t)[a] = t[a] /\ Recent(t)[b] = t[WindowTime]
      BY <1>1, <2>2
    <3>2. a <= WindowTime /\ WindowTime <= b
      BY <2>0, <2>2
    <3>3. /\ t[a] <= t[WindowTime] /\ t[WindowTime] - t[a] <= F[WindowTime] - F[a]
          /\ t[a] \in Nat /\ t[WindowTime] \in Nat /\ F[a] \in Nat /\ F[WindowTime] \in Nat
      BY <2>0, <3>2, PartOf
    <3>4. F[WindowTime] <= F[b] /\ F[b] \in Nat
      BY <2>0, <3>2, PartOf
    <3> QED BY <3>1, <3>3, <3>4
  <2>3. CASE ~(b < WindowTime) /\ ~(a < WindowTime)
    <3>1. Recent(t)[a] = t[WindowTime] /\ Recent(t)[b] = t[WindowTime] /\ t[WindowTime] \in Nat
      BY <1>1, <2>0, <2>3, Tallies
    <3>2. F[a] <= F[b] /\ F[a] \in Nat /\ F[b] \in Nat
      BY <1>3, PartOf
    <3> QED BY <3>1, <3>2
  <2> QED BY <2>1, <2>2, <2>3
<1> QED BY <1>2, <1>3 DEF Part

LEMMA PlusPart ==
    ASSUME NEW t \in Tally, NEW F \in Tally, Part(t, F)
    PROVE  Part(Plus(t), Plus(F))
<1>1. \A b \in 0 .. Horizon : /\ Plus(t)[b] = IF b = 0 THEN 0 ELSE t[b] + 1
                              /\ Plus(F)[b] = IF b = 0 THEN 0 ELSE F[b] + 1
  BY Tallies
<1>2. Plus(t)[0] = 0 /\ Plus(F)[0] = 0
  BY <1>1, Constants
<1>3. ASSUME NEW a \in 0 .. Horizon, NEW b \in 0 .. Horizon, a <= b
      PROVE  /\ Plus(t)[a] <= Plus(t)[b]
             /\ Plus(t)[b] - Plus(t)[a] <= Plus(F)[b] - Plus(F)[a]
  <2>1. /\ t[a] \in Nat /\ t[b] \in Nat /\ F[a] \in Nat /\ F[b] \in Nat
        /\ t[a] <= t[b] /\ t[b] - t[a] <= F[b] - F[a] /\ t[0] = 0 /\ F[0] = 0
    BY <1>3, PartOf
  <2>2. CASE b = 0
    <3>1. a = 0
      BY <1>3, <2>2
    <3>2. Plus(t)[a] = 0 /\ Plus(t)[b] = 0 /\ Plus(F)[a] = 0 /\ Plus(F)[b] = 0
      BY <1>1, <2>2, <3>1
    <3> QED BY <3>2
  <2>3. CASE b # 0 /\ a = 0
    <3>1. /\ Plus(t)[a] = 0 /\ Plus(t)[b] = t[b] + 1
          /\ Plus(F)[a] = 0 /\ Plus(F)[b] = F[b] + 1
      BY <1>1, <2>3
    <3>2. t[a] = 0 /\ F[a] = 0
      BY <2>1, <2>3
    <3> QED BY <2>1, <3>1, <3>2
  <2>4. CASE b # 0 /\ a # 0
    <3>1. /\ Plus(t)[a] = t[a] + 1 /\ Plus(t)[b] = t[b] + 1
          /\ Plus(F)[a] = F[a] + 1 /\ Plus(F)[b] = F[b] + 1
      BY <1>1, <2>4
    <3> QED BY <2>1, <3>1
  <2> QED BY <2>2, <2>3, <2>4
<1> QED BY <1>2, <1>3 DEF Part

-----------------------------------------------------------------------------
(* What each operation leaves of a key's entry.                             *)

\* The numbers Consistent is about, for an entry given as its list and block.
LEMMA ConsistentMeans ==
    ASSUME NEW k \in Key, NEW e \in Entry \cup {None}, NEW F \in Tally, NEW n \in Nat
    PROVE  Consistent(k, e, F, n) <=>
             /\ Part(Failures(e), F)
             /\ Blocked(e) => F[WindowTime + (BlockTime - BlockLeft(e))] >= Limit(k)
             /\ BlockLeft(e) # None => F[BlockTime - BlockLeft(e)] + n <= Others
             /\ F[WindowTime] <= Failures(e)[WindowTime] + Others
             /\ Failures(e)[WindowTime] + n <= Limit(k) + Others
             /\ BlockLeft(e) = None => Failures(e)[WindowTime] < Limit(k)
<1>1. Blocked(e) => e.left = BlockLeft(e)
  BY EntryTypes
<1> QED BY <1>1 DEF Consistent

\* Fewer attempts are under way.
LEMMA Fewer ==
    ASSUME NEW k \in Key, NEW e \in Entry \cup {None}, NEW F \in Tally,
           NEW n \in Nat, NEW m \in Nat, m <= n, Consistent(k, e, F, n)
    PROVE  Consistent(k, e, F, m)
<1>1. Failures(e) \in Tally /\ (BlockLeft(e) # None => BlockLeft(e) \in 0 .. BlockTime)
  BY EntryTypes
<1>2. Failures(e)[WindowTime] \in Nat
  BY <1>1, Constants, Tallies
<1>3. BlockLeft(e) # None => F[BlockTime - BlockLeft(e)] \in Nat
  <2>1. BlockLeft(e) # None => BlockTime - BlockLeft(e) \in 0 .. Horizon
    BY <1>1, Constants
  <2> QED BY <2>1, Tallies
<1>4. Limit(k) \in Nat /\ Others \in Nat
  BY Constants
<1>5. BlockLeft(e) # None => F[BlockTime - BlockLeft(e)] + n <= Others
  BY ConsistentMeans
<1>6. BlockLeft(e) # None => F[BlockTime - BlockLeft(e)] + m <= Others
  BY <1>3, <1>4, <1>5
<1>7. Failures(e)[WindowTime] + n <= Limit(k) + Others
  BY ConsistentMeans
<1>8. Failures(e)[WindowTime] + m <= Limit(k) + Others
  BY <1>2, <1>4, <1>7
<1> QED BY <1>6, <1>8, ConsistentMeans

\* One more attempt is admitted.
LEMMA OneMore ==
    ASSUME NEW k \in Key, NEW e \in Entry \cup {None}, NEW F \in Tally,
           NEW n \in Nat, n <= Others, BlockLeft(e) = None, Consistent(k, e, F, n)
    PROVE  Consistent(k, e, F, n + 1)
<1>1. Failures(e)[WindowTime] \in Nat
  BY EntryTypes, Constants, Tallies
<1>2. Limit(k) \in Nat /\ Others \in Nat /\ n + 1 \in Nat
  BY Constants
<1>3. Failures(e)[WindowTime] < Limit(k)
  BY ConsistentMeans
<1>4. Failures(e)[WindowTime] + (n + 1) <= Limit(k) + Others
  BY <1>1, <1>2, <1>3
<1>5. ~Blocked(e)
  BY DEF Blocked
<1>6. Part(Failures(e), F) /\ F[WindowTime] <= Failures(e)[WindowTime] + Others
  BY ConsistentMeans
<1> QED BY <1>2, <1>3, <1>4, <1>5, <1>6, ConsistentMeans

\* lazyPurge deletes the entry.
LEMMA Dropped ==
    ASSUME NEW k \in Key, NEW e \in Entry \cup {None}, NEW F \in Tally, NEW n \in Nat,
           Consistent(k, e, F, n), Failures(e)[WindowTime] = 0
    PROVE  Consistent(k, None, F, n)
<1> USE ConsistentMeans
<1>1. None \in Entry \cup {None} /\ Failures(None) = Nothing /\ BlockLeft(None) = None
  BY EntryTypes
<1>2. ~Blocked(None)
  BY <1>1 DEF Blocked
<1>3. Part(Nothing, F)
  <2>1. Failures(e) \in Tally
    BY EntryTypes
  <2> QED BY <2>1, NothingPart
<1>4. Nothing[WindowTime] = 0
  BY Constants, Tallies
<1>5. Limit(k) \in Nat /\ Limit(k) > 0
  BY Constants
<1>6. F[WindowTime] <= 0 + Others /\ 0 + n <= Limit(k) + Others
  OBVIOUS
<1> QED BY <1>1, <1>2, <1>3, <1>4, <1>5, <1>6

\* check restarts an entry whose block is over: everything that failed since
\* the block began, and is lost, overlapped the failure that blocked.
LEMMA Fresh ==
    ASSUME NEW k \in Key, NEW e \in Entry \cup {None}, NEW F \in Tally, NEW n \in Nat,
           Consistent(k, e, F, n), BlockLeft(e) = 0
    PROVE  Consistent(k, [failures |-> Nothing, left |-> None], F, n)
<1> DEFINE f == [failures |-> Nothing, left |-> None]
<1>1. f \in Entry \cup {None} /\ Failures(f) = Nothing /\ BlockLeft(f) = None
  BY Tallies, EntryRecord
<1> HIDE DEF f
<1>2. ~Blocked(f)
  BY <1>1 DEF Blocked
<1>3. Failures(e) \in Tally /\ Part(Failures(e), F)
  BY EntryTypes, ConsistentMeans
<1>4. Part(Nothing, F)
  BY <1>3, NothingPart
<1>5. Nothing[WindowTime] = 0
  BY Constants, Tallies
<1>6. Limit(k) \in Nat /\ Limit(k) > 0 /\ Others \in Nat
  BY Constants
<1>7. F[WindowTime] \in Nat /\ F[BlockTime] \in Nat /\ F[WindowTime] <= F[BlockTime]
  BY <1>3, Constants, PartOf
<1>8. F[BlockTime] + n <= Others
  <2>1. None # 0
    BY LoginThrottleAssumption
  <2>2. BlockLeft(e) # None => F[BlockTime - BlockLeft(e)] + n <= Others
    BY ConsistentMeans
  <2>3. BlockTime - 0 = BlockTime
    BY Constants
  <2> QED BY <2>1, <2>2, <2>3
<1>9. F[WindowTime] <= 0 + Others /\ 0 + n <= Limit(k) + Others
  BY <1>6, <1>7, <1>8
<1> QED BY <1>1, <1>2, <1>4, <1>5, <1>6, <1>9, ConsistentMeans DEF f

\* addFailure, which ends one of the attempts under way.
Failed(k, e) ==
    LET t == Plus(Recent(Failures(e)))
    IN  [failures |-> t,
         left |-> IF t[Horizon] >= Limit(k) THEN BlockTime ELSE BlockLeft(e)]

LEMMA FailedType ==
    ASSUME NEW k \in Key, NEW e \in Entry \cup {None}
    PROVE  /\ Failed(k, e) \in Entry
           /\ Failures(Failed(k, e)) = Plus(Recent(Failures(e)))
           /\ BlockLeft(Failed(k, e)) =
                IF Failures(e)[WindowTime] + 1 >= Limit(k) THEN BlockTime ELSE BlockLeft(e)
           /\ Plus(Recent(Failures(e))) \in Tally
           /\ Plus(Recent(Failures(e)))[WindowTime] = Failures(e)[WindowTime] + 1
<1> DEFINE t == Plus(Recent(Failures(e)))
           l == IF t[Horizon] >= Limit(k) THEN BlockTime ELSE BlockLeft(e)
<1>1. Failures(e) \in Tally /\ BlockLeft(e) \in (0 .. BlockTime) \cup {None}
  BY EntryTypes
<1>2. Recent(Failures(e)) \in Tally
  BY <1>1, Tallies
<1>3. t \in Tally
  BY <1>2, Tallies
<1>4. WindowTime \in 0 .. Horizon /\ Horizon \in 0 .. Horizon /\ WindowTime # 0 /\ Horizon # 0
      /\ ~(Horizon < WindowTime) /\ ~(WindowTime < WindowTime)
  BY Constants
<1>5. /\ Recent(Failures(e))[WindowTime] = Failures(e)[WindowTime]
      /\ Recent(Failures(e))[Horizon] = Failures(e)[WindowTime]
  BY <1>1, <1>4, Tallies
<1>6. t[WindowTime] = Failures(e)[WindowTime] + 1 /\ t[Horizon] = Failures(e)[WindowTime] + 1
  BY <1>2, <1>4, <1>5, Tallies
<1>7. l \in (0 .. BlockTime) \cup {None}
  BY <1>1, Constants
<1>8. Failed(k, e) = [failures |-> t, left |-> l]
  BY DEF Failed
<1> HIDE DEF t, l
<1>9. /\ [failures |-> t, left |-> l] \in Entry
      /\ Failures([failures |-> t, left |-> l]) = t
      /\ BlockLeft([failures |-> t, left |-> l]) = l
  BY <1>3, <1>7, EntryRecord
<1>10. l = IF Failures(e)[WindowTime] + 1 >= Limit(k) THEN BlockTime ELSE BlockLeft(e)
  BY <1>6 DEF l
<1>11. /\ Failed(k, e) \in Entry
       /\ Failures(Failed(k, e)) = t
       /\ BlockLeft(Failed(k, e)) = l
  BY <1>8, <1>9
<1> QED BY <1>3, <1>6, <1>10, <1>11 DEF t

LEMMA FailedConsistent ==
    ASSUME NEW k \in Key, NEW e \in Entry \cup {None}, NEW F \in Tally,
           NEW n \in Nat, n > 0, n <= Others + 1, Consistent(k, e, F, n)
    PROVE  Consistent(k, Failed(k, e), Plus(F), n - 1)
<1> DEFINE f == Failed(k, e)
           c == Failures(e)[WindowTime]
<1>1. /\ f \in Entry \cup {None} /\ f \in Entry
      /\ Failures(f) = Plus(Recent(Failures(e)))
      /\ BlockLeft(f) = IF c + 1 >= Limit(k) THEN BlockTime ELSE BlockLeft(e)
      /\ Failures(f)[WindowTime] = c + 1
  BY FailedType
<1>2. /\ Failures(e) \in Tally /\ Recent(Failures(e)) \in Tally /\ Plus(F) \in Tally
      /\ Part(Failures(e), F) /\ c \in Nat
      /\ (BlockLeft(e) # None => BlockLeft(e) \in 0 .. BlockTime)
  BY EntryTypes, Tallies, ConsistentMeans, Constants
<1>3. /\ Limit(k) \in Nat /\ Others \in Nat /\ WindowTime \in Nat /\ WindowTime > 0
      /\ BlockTime \in Nat /\ WindowTime \in 0 .. Horizon /\ BlockTime \in 0 .. Horizon
      /\ BlockTime # None
  BY Constants, LoginThrottleAssumption
<1> HIDE DEF f, c
<1>4. Part(Failures(f), Plus(F))
  <2>1. Part(Recent(Failures(e)), F)
    BY <1>2, RecentPart
  <2> QED BY <1>1, <1>2, <2>1, PlusPart
<1>5. \A b \in 0 .. Horizon : F[b] \in Nat /\ Plus(F)[b] = IF b = 0 THEN 0 ELSE F[b] + 1
  BY Tallies
<1>6. F[WindowTime] \in Nat /\ Plus(F)[WindowTime] = F[WindowTime] + 1
  BY <1>3, <1>5
<1>7. F[WindowTime] <= c + Others /\ c + n <= Limit(k) + Others
  BY ConsistentMeans DEF c
<1>8. Plus(F)[WindowTime] <= Failures(f)[WindowTime] + Others
  BY <1>1, <1>2, <1>3, <1>6, <1>7
<1>9. Failures(f)[WindowTime] + (n - 1) <= Limit(k) + Others
  BY <1>1, <1>2, <1>3, <1>7
<1>10. CASE c + 1 >= Limit(k)
  <2>1. BlockLeft(f) = BlockTime
    BY <1>1, <1>10
  <2>2. Plus(F)[WindowTime + (BlockTime - BlockLeft(f))] >= Limit(k)
    <3>1. WindowTime + (BlockTime - BlockTime) = WindowTime
      BY <1>3
    <3>2. c <= F[WindowTime]
      <4>1. 0 \in 0 .. Horizon /\ 0 <= WindowTime
        BY <1>3, Constants
      <4>2. Failures(e)[WindowTime] - Failures(e)[0] <= F[WindowTime] - F[0]
            /\ Failures(e)[0] = 0 /\ F[0] = 0
        BY <1>2, <1>3, <4>1, PartOf
      <4> QED BY <1>2, <1>6, <4>2 DEF c
    <3>3. F[WindowTime] + 1 >= Limit(k)
      BY <1>2, <1>3, <1>6, <1>10, <3>2
    <3> QED BY <1>6, <2>1, <3>1, <3>3
  <2>3. Plus(F)[BlockTime - BlockLeft(f)] + (n - 1) <= Others
    <3>1. BlockTime - BlockTime = 0 /\ 0 \in 0 .. Horizon
      BY <1>3, Constants
    <3>2. Plus(F)[0] = 0
      BY <1>5, <3>1
    <3> QED BY <1>3, <2>1, <3>1, <3>2
  <2>4. BlockLeft(f) # None
    BY <1>3, <2>1
  <2> QED BY <1>1, <1>2, <1>4, <1>8, <1>9, <2>2, <2>3, <2>4, ConsistentMeans DEF f
<1>11. CASE ~(c + 1 >= Limit(k))
  <2>1. BlockLeft(f) = BlockLeft(e)
    BY <1>1, <1>11
  <2>2. Blocked(f) => Plus(F)[WindowTime + (BlockTime - BlockLeft(f))] >= Limit(k)
    <3> SUFFICES ASSUME Blocked(f)
                 PROVE  Plus(F)[WindowTime + (BlockTime - BlockLeft(f))] >= Limit(k)
      OBVIOUS
    <3>1. Blocked(e)
      BY <2>1 DEF Blocked
    <3>2. F[WindowTime + (BlockTime - BlockLeft(e))] >= Limit(k)
      BY <3>1, ConsistentMeans
    <3>3. BlockLeft(e) \in 1 .. BlockTime
      BY <3>1, EntryTypes
    <3>4. /\ WindowTime + (BlockTime - BlockLeft(e)) \in 0 .. Horizon
          /\ WindowTime + (BlockTime - BlockLeft(e)) # 0
      BY <3>3, Constants
    <3> QED BY <1>3, <1>5, <2>1, <3>2, <3>4
  <2>3. BlockLeft(f) # None => Plus(F)[BlockTime - BlockLeft(f)] + (n - 1) <= Others
    <3> SUFFICES ASSUME BlockLeft(f) # None
                 PROVE  Plus(F)[BlockTime - BlockLeft(f)] + (n - 1) <= Others
      OBVIOUS
    <3>1. BlockLeft(e) \in 0 .. BlockTime
      BY <1>2, <2>1
    <3>2. BlockTime - BlockLeft(e) \in 0 .. Horizon
      BY <3>1, Constants
    <3>3. F[BlockTime - BlockLeft(e)] + n <= Others
      BY <2>1, ConsistentMeans
    <3>4. /\ F[BlockTime - BlockLeft(e)] \in Nat
          /\ \/ Plus(F)[BlockTime - BlockLeft(e)] = 0
             \/ Plus(F)[BlockTime - BlockLeft(e)] = F[BlockTime - BlockLeft(e)] + 1
      BY <1>5, <3>2
    <3> QED BY <1>3, <2>1, <3>3, <3>4
  <2>4. BlockLeft(f) = None => Failures(f)[WindowTime] < Limit(k)
    BY <1>1, <1>2, <1>3, <1>11
  <2> QED BY <1>1, <1>2, <1>4, <1>8, <1>9, <2>2, <2>3, <2>4, ConsistentMeans DEF f
<1> QED BY <1>10, <1>11

\* A tick of the clock.
Later(e) ==
    IF e = None THEN None
    ELSE [failures |-> Older(e.failures), left |-> IF Blocked(e) THEN e.left - 1 ELSE e.left]

LEMMA LaterType ==
    ASSUME NEW e \in Entry \cup {None}
    PROVE  /\ Later(e) \in Entry \cup {None}
           /\ Failures(Later(e)) = IF e = None THEN Nothing ELSE Older(Failures(e))
           /\ BlockLeft(Later(e)) = IF Blocked(e) THEN BlockLeft(e) - 1 ELSE BlockLeft(e)
<1>1. CASE e = None
  <2>1. Later(e) = None /\ Failures(e) = Nothing /\ BlockLeft(e) = None
    BY <1>1, EntryTypes DEF Later
  <2>2. ~Blocked(e)
    BY <2>1 DEF Blocked
  <2> QED BY <1>1, <2>1, <2>2
<1>2. CASE e \in Entry
  <2> DEFINE l == IF Blocked(e) THEN e.left - 1 ELSE e.left
  <2>1. /\ e # None /\ e.failures \in Tally /\ e.left \in (0 .. BlockTime) \cup {None}
        /\ Failures(e) = e.failures /\ BlockLeft(e) = e.left
    BY <1>2, EntryFields
  <2>2. Blocked(e) => e.left \in 1 .. BlockTime
    BY <2>1, EntryTypes
  <2>3. l \in (0 .. BlockTime) \cup {None}
    <3>1. CASE Blocked(e)
      BY <2>2, <3>1, Constants
    <3>2. CASE ~Blocked(e)
      BY <2>1, <3>2
    <3> QED BY <3>1, <3>2
  <2>4. Older(e.failures) \in Tally
    BY <2>1, Tallies
  <2>5. Later(e) = [failures |-> Older(e.failures), left |-> l]
    BY <2>1 DEF Later
  <2>6. l = IF Blocked(e) THEN BlockLeft(e) - 1 ELSE BlockLeft(e)
    BY <2>1
  <2> HIDE DEF l
  <2>7. /\ Later(e) \in Entry /\ Failures(Later(e)) = Older(e.failures)
        /\ BlockLeft(Later(e)) = l
    BY <2>3, <2>4, <2>5, EntryRecord
  <2> QED BY <2>1, <2>6, <2>7
<1> QED BY <1>1, <1>2

LEMMA LaterConsistent ==
    ASSUME NEW k \in Key, NEW e \in Entry \cup {None}, NEW F \in Tally, NEW n \in Nat,
           Consistent(k, e, F, n)
    PROVE  Consistent(k, Later(e), Older(F), n)
<1> DEFINE f == Later(e)
           c == Failures(e)[WindowTime]
           d == Failures(f)[WindowTime]
<1>1. /\ f \in Entry \cup {None}
      /\ Failures(f) = IF e = None THEN Nothing ELSE Older(Failures(e))
      /\ BlockLeft(f) = IF Blocked(e) THEN BlockLeft(e) - 1 ELSE BlockLeft(e)
  BY LaterType
<1>2. /\ Failures(e) \in Tally /\ Older(F) \in Tally /\ Part(Failures(e), F) /\ c \in Nat
      /\ (BlockLeft(e) # None => BlockLeft(e) \in 0 .. BlockTime)
      /\ (e = None => Failures(e) = Nothing)
  BY EntryTypes, Tallies, ConsistentMeans, Constants
<1>3. /\ Limit(k) \in Nat /\ Others \in Nat /\ WindowTime \in Nat /\ WindowTime > 0
      /\ BlockTime \in Nat /\ WindowTime \in 0 .. Horizon /\ WindowTime - 1 \in 0 .. Horizon
      /\ WindowTime - 1 <= WindowTime /\ 0 \in 0 .. Horizon
  BY Constants
<1>4. Failures(f) = Older(Failures(e))
  <2>1. CASE e = None
    <3>1. \A b \in 0 .. Horizon : b # 0 => b - 1 \in 0 .. Horizon
      BY Constants
    <3>2. Nothing \in Tally /\ \A b \in 0 .. Horizon : Nothing[b] = 0
      BY Tallies, <1>2
    <3>3. \A b \in 0 .. Horizon : Older(Nothing)[b] = 0
      BY <3>1, <3>2 DEF Older
    <3>4. Older(Nothing) = Nothing
      BY <3>3 DEF Older, Nothing
    <3> QED BY <1>1, <1>2, <2>1, <3>4
  <2> QED BY <1>1, <2>1
<1> HIDE DEF f
<1>5. Part(Failures(f), Older(F))
  BY <1>2, <1>4, OlderPart
<1>6. \A b \in 0 .. Horizon : F[b] \in Nat /\ Older(F)[b] = IF b = 0 THEN 0 ELSE F[b - 1]
  BY Tallies
<1>7. /\ Older(F)[WindowTime] = F[WindowTime - 1] /\ d = Failures(e)[WindowTime - 1]
      /\ d \in Nat /\ F[WindowTime - 1] \in Nat /\ F[WindowTime] \in Nat
  <2>1. WindowTime # 0
    BY <1>3
  <2>2. Older(F)[WindowTime] = F[WindowTime - 1]
    BY <1>3, <1>6, <2>1
  <2>3. Older(Failures(e))[WindowTime] = Failures(e)[WindowTime - 1]
    BY <1>2, <1>3, <2>1, Tallies
  <2>4. Failures(e)[WindowTime - 1] \in Nat
    BY <1>2, <1>3, Tallies
  <2>5. F[WindowTime - 1] \in Nat /\ F[WindowTime] \in Nat
    BY <1>3, <1>6
  <2> QED BY <1>4, <2>2, <2>3, <2>4, <2>5
<1>8. d <= c /\ c - d <= F[WindowTime] - F[WindowTime - 1]
  BY <1>2, <1>3, <1>7, PartOf
<1>9. F[WindowTime] <= c + Others /\ c + n <= Limit(k) + Others
  BY ConsistentMeans
<1> HIDE DEF c, d
<1>10. Older(F)[WindowTime] <= d + Others /\ d + n <= Limit(k) + Others
  BY <1>2, <1>3, <1>7, <1>8, <1>9
<1>11. CASE Blocked(e)
  <2>1. BlockLeft(e) \in 1 .. BlockTime /\ BlockLeft(e) # None
    BY <1>11, EntryTypes DEF Blocked
  <2>2. BlockLeft(f) = BlockLeft(e) - 1 /\ BlockLeft(f) # None
    BY <1>1, <1>3, <1>11, <2>1, LoginThrottleAssumption
  <2>3. /\ F[WindowTime + (BlockTime - BlockLeft(e))] >= Limit(k)
        /\ F[BlockTime - BlockLeft(e)] + n <= Others
    BY <1>11, <2>1, ConsistentMeans
  <2>4. /\ WindowTime + (BlockTime - BlockLeft(f)) \in 0 .. Horizon
        /\ WindowTime + (BlockTime - BlockLeft(f)) # 0
        /\ WindowTime + (BlockTime - BlockLeft(f)) - 1 = WindowTime + (BlockTime - BlockLeft(e))
        /\ BlockTime - BlockLeft(f) \in 0 .. Horizon
        /\ BlockTime - BlockLeft(f) # 0
        /\ BlockTime - BlockLeft(f) - 1 = BlockTime - BlockLeft(e)
    BY <2>1, <2>2, Constants
  <2>5. /\ Older(F)[WindowTime + (BlockTime - BlockLeft(f))] >= Limit(k)
        /\ Older(F)[BlockTime - BlockLeft(f)] + n <= Others
    <3> DEFINE x == WindowTime + (BlockTime - BlockLeft(f))
               y == BlockTime - BlockLeft(f)
               v == WindowTime + (BlockTime - BlockLeft(e))
               w == BlockTime - BlockLeft(e)
    <3>1. /\ x \in 0 .. Horizon /\ x # 0 /\ x - 1 = v
          /\ y \in 0 .. Horizon /\ y # 0 /\ y - 1 = w
      BY <2>1, <2>2, <2>4, Constants
    <3>2. F[v] >= Limit(k) /\ F[w] + n <= Others
      BY <2>3
    <3> HIDE DEF x, y, v, w
    <3>3. /\ x \in 0 .. Horizon /\ x # 0 /\ F[x - 1] >= Limit(k)
          /\ y \in 0 .. Horizon /\ y # 0 /\ F[y - 1] + n <= Others
      BY <3>1, <3>2
    <3>4. Older(F)[x] = F[x - 1] /\ Older(F)[y] = F[y - 1]
      BY <1>6, <3>3
    <3>5. Older(F)[x] >= Limit(k) /\ Older(F)[y] + n <= Others
      BY <3>3, <3>4
    <3> QED BY <3>5 DEF x, y
  <2> QED BY <1>1, <1>2, <1>5, <1>10, <2>2, <2>5, ConsistentMeans DEF f, d
<1>12. CASE ~Blocked(e)
  <2>1. BlockLeft(f) = BlockLeft(e)
    BY <1>1, <1>12
  <2>2. ~Blocked(f)
    BY <1>12, <2>1 DEF Blocked
  <2>3. BlockLeft(f) # None => Older(F)[BlockTime - BlockLeft(f)] + n <= Others
    <3> SUFFICES ASSUME BlockLeft(f) # None
                 PROVE  Older(F)[BlockTime - BlockLeft(f)] + n <= Others
      OBVIOUS
    <3>1. BlockLeft(e) = 0
      BY <1>2, <1>12, <2>1, <1>3 DEF Blocked
    <3>2. F[BlockTime - 0] + n <= Others
      BY <2>1, <3>1, ConsistentMeans
    <3>3. /\ BlockTime \in 0 .. Horizon /\ BlockTime # 0 /\ BlockTime - 0 = BlockTime
          /\ BlockTime - 1 \in 0 .. Horizon /\ BlockTime - 1 <= BlockTime
      BY Constants
    <3>4. Older(F)[BlockTime - 0] = F[BlockTime - 1]
      BY <1>6, <3>3
    <3>5. F[BlockTime - 1] <= F[BlockTime] /\ F[BlockTime - 1] \in Nat /\ F[BlockTime] \in Nat
      BY <1>2, <3>3, PartOf
    <3> QED BY <1>3, <2>1, <3>1, <3>2, <3>3, <3>4, <3>5
  <2>4. BlockLeft(f) = None => d < Limit(k)
    <3>1. BlockLeft(e) = None => c < Limit(k)
      BY ConsistentMeans DEF c
    <3> QED BY <1>2, <1>3, <1>7, <1>8, <2>1, <3>1
  <2> QED BY <1>1, <1>2, <1>5, <1>10, <2>2, <2>3, <2>4, ConsistentMeans DEF f, d
<1> QED BY <1>11, <1>12

-----------------------------------------------------------------------------
(* The same for the map: what happens to the entry of each key.             *)

Entries == [Key -> Entry \cup {None}]

LEMMA PurgedKeeps ==
    ASSUME NEW E \in Entries
    PROVE  /\ Purged(E) \in Entries
           /\ \A k \in Key : \/ Purged(E)[k] = E[k]
                             \/ Purged(E)[k] = None /\ Failures(E[k])[WindowTime] = 0
BY DEF Purged, Entries

LEMMA RestartedKeeps ==
    ASSUME NEW E \in Entries, NEW k \in Key
    PROVE  /\ Restarted(E, k) \in Entries
           /\ \A j \in Key : j # k => Restarted(E, k)[j] = E[j]
           /\ IF BlockLeft(E[k]) = 0
              THEN Restarted(E, k)[k] = [failures |-> Nothing, left |-> None]
              ELSE Restarted(E, k)[k] = E[k]
<1>1. [failures |-> Nothing, left |-> None] \in Entry
  <2>1. Nothing \in Tally
    BY DEF Nothing, Tally
  <2> QED BY <2>1, EntryRecord
<1> QED BY <1>1 DEF Restarted, Entries

LEMMA AddFailureKeeps ==
    ASSUME NEW E \in Entries, NEW k \in Key
    PROVE  /\ AddFailure(E, k) \in Entries
           /\ AddFailure(E, k)[k] = Failed(k, E[k])
           /\ \A j \in Key : j # k => AddFailure(E, k)[j] = E[j]
<1>1. E[k] \in Entry \cup {None}
  BY DEF Entries
<1>2. Failed(k, E[k]) \in Entry
  BY <1>1, FailedType
<1>3. AddFailure(E, k) = [E EXCEPT ![k] = Failed(k, E[k])]
  BY DEF AddFailure, Failed
<1> QED BY <1>2, <1>3 DEF Entries

-----------------------------------------------------------------------------
(* The attempts under way.                                                  *)

Attempts == attempt \in [Proc -> [id: Identifier, ip: Ip] \cup {None}]

LEMMA AttemptKeys ==
    ASSUME Attempts, NEW p \in Proc, attempt[p] # None
    PROVE  /\ attempt[p].id \in Identifier /\ attempt[p].ip \in Ip
           /\ attempt[p].id \in Key /\ attempt[p].ip \in Key
           /\ attempt[p].id # attempt[p].ip
<1>1. attempt[p] \in [id: Identifier, ip: Ip]
  BY DEF Attempts
<1>2. attempt[p].id \in Identifier /\ attempt[p].ip \in Ip
  BY <1>1
<1> QED BY <1>2, LoginThrottleAssumption DEF Key

LEMMA InFlightBound ==
    ASSUME NEW k
    PROVE  /\ IsFiniteSet(Working(k)) /\ InFlight(k) \in Nat /\ InFlight(k) <= Others + 1
           /\ \A p \in Proc : p \notin Working(k) => InFlight(k) <= Others
<1>1. Working(k) \subseteq Proc
  BY DEF Working
<1>2. /\ IsFiniteSet(Working(k)) /\ Cardinality(Working(k)) <= Cardinality(Proc)
      /\ Cardinality(Working(k)) \in Nat
  BY <1>1, Constants, FS_Subset, FS_CardinalityType
<1>3. ASSUME NEW p \in Proc, p \notin Working(k)
      PROVE  InFlight(k) <= Others
  <2>1. Working(k) # Proc
    BY <1>3
  <2>2. Cardinality(Working(k)) # Cardinality(Proc)
    BY <1>1, <2>1, Constants, FS_Subset
  <2> QED BY <1>2, <2>2, Constants DEF InFlight
<1> QED BY <1>2, <1>3, Constants DEF InFlight

\* An attempt with the keys i and a begins.
LEMMA InFlightStarts ==
    ASSUME Attempts, NEW p \in Proc, attempt[p] = None,
           NEW i \in Identifier, NEW a \in Ip,
           attempt' = [attempt EXCEPT ![p] = [id |-> i, ip |-> a]]
    PROVE  /\ Attempts'
           /\ \A k \in Key : InFlight(k) <= Others
           /\ \A k \in Key :
                InFlight(k)' = IF k \in {i, a} THEN InFlight(k) + 1 ELSE InFlight(k)
<1>1. Attempts'
  BY DEF Attempts
<1>2. ASSUME NEW k \in Key
      PROVE  /\ InFlight(k) <= Others
             /\ InFlight(k)' = IF k \in {i, a} THEN InFlight(k) + 1 ELSE InFlight(k)
  <2>1. p \notin Working(k)
    BY DEF Working
  <2>2. InFlight(k) <= Others
    BY <2>1, InFlightBound
  <2>3. attempt'[p] # None /\ attempt'[p].id = i /\ attempt'[p].ip = a
        /\ \A q \in Proc : q # p => attempt'[q] = attempt[q]
    BY LoginThrottleAssumption DEF Attempts
  <2>4. CASE k \in {i, a}
    <3>1. Working(k)' = Working(k) \cup {p}
      BY <2>3, <2>4 DEF Working
    <3>2. Cardinality(Working(k) \cup {p}) = Cardinality(Working(k)) + 1
      BY <2>1, InFlightBound, FS_AddElement
    <3> QED BY <2>2, <2>4, <3>1, <3>2 DEF InFlight
  <2>5. CASE k \notin {i, a}
    <3>1. Working(k)' = Working(k)
      BY <2>1, <2>3, <2>5 DEF Working
    <3> QED BY <2>2, <2>5, <3>1 DEF InFlight
  <2> QED BY <2>4, <2>5
<1> QED BY <1>1, <1>2

\* The attempt of p ends.
LEMMA InFlightEnds ==
    ASSUME Attempts, NEW p \in Proc, attempt[p] # None,
           attempt' = [attempt EXCEPT ![p] = None]
    PROVE  /\ Attempts'
           /\ \A k \in Key :
                /\ InFlight(k)' \in Nat /\ InFlight(k)' <= Others
                /\ IF k \in {attempt[p].id, attempt[p].ip}
                   THEN InFlight(k) > 0 /\ InFlight(k)' = InFlight(k) - 1
                   ELSE InFlight(k)' = InFlight(k)
<1>1. Attempts'
  BY DEF Attempts
<1>2. ASSUME NEW k \in Key
      PROVE  /\ InFlight(k)' \in Nat /\ InFlight(k)' <= Others
             /\ IF k \in {attempt[p].id, attempt[p].ip}
                THEN InFlight(k) > 0 /\ InFlight(k)' = InFlight(k) - 1
                ELSE InFlight(k)' = InFlight(k)
  <2>1. attempt'[p] = None /\ \A q \in Proc : q # p => attempt'[q] = attempt[q]
    BY DEF Attempts
  <2>2. InFlight(k) \in Nat /\ IsFiniteSet(Working(k)) /\ InFlight(k) <= Others + 1
    BY InFlightBound
  <2>3. CASE k \in {attempt[p].id, attempt[p].ip}
    <3>1. p \in Working(k)
      BY <2>3 DEF Working
    <3>2. Working(k)' = Working(k) \ {p}
      BY <2>1, <2>3 DEF Working
    <3>3. /\ Cardinality(Working(k) \ {p}) = Cardinality(Working(k)) - 1
          /\ IsFiniteSet(Working(k) \ {p})
      BY <2>2, <3>1, FS_RemoveElement
    <3>4. Cardinality(Working(k) \ {p}) \in Nat
      BY <3>3, FS_CardinalityType
    <3> QED BY <2>2, <2>3, <3>2, <3>3, <3>4, Constants DEF InFlight
  <2>4. CASE k \notin {attempt[p].id, attempt[p].ip}
    <3>1. Working(k)' = Working(k)
      BY <2>1, <2>4 DEF Working
    <3>2. p \notin Working(k)
      BY <2>4 DEF Working
    <3>3. InFlight(k) <= Others
      BY <3>2, InFlightBound
    <3>4. InFlight(k)' = InFlight(k)
      BY <3>1 DEF InFlight
    <3> QED BY <2>2, <2>4, <3>3, <3>4
  <2> QED BY <2>3, <2>4
<1> QED BY <1>1, <1>2

-----------------------------------------------------------------------------
(* The invariant.                                                           *)

LEMMA InvMeans ==
    Inv <=> /\ entries \in Entries /\ Attempts /\ failed \in [Key -> Tally]
            /\ \A k \in Key : Consistent(k, entries[k], failed[k], InFlight(k))
BY DEF Inv, TypeOK, KeysConsistent, Entries, Attempts

LEMMA KeyFacts ==
    ASSUME Inv, NEW k \in Key
    PROVE  /\ entries[k] \in Entry \cup {None} /\ failed[k] \in Tally /\ InFlight(k) \in Nat
           /\ Consistent(k, entries[k], failed[k], InFlight(k))
<1>1. InFlight(k) \in Nat
  BY InFlightBound
<1> QED BY <1>1, InvMeans DEF Entries

\* The whole check of a key that is not refused.
LEMMA PurgeIsConsistent ==
    ASSUME NEW E \in Entries, NEW k \in Key, NEW F \in Tally, NEW n \in Nat,
           Consistent(k, E[k], F, n)
    PROVE  Consistent(k, Purged(E)[k], F, n)
<1>1. E[k] \in Entry \cup {None}
  BY DEF Entries
<1> QED BY <1>1, PurgedKeeps, Dropped

LEMMA RestartIsConsistent ==
    ASSUME NEW E \in Entries, NEW i \in Key, NEW k \in Key, NEW F \in Tally, NEW n \in Nat,
           Consistent(k, E[k], F, n)
    PROVE  Consistent(k, Restarted(E, i)[k], F, n)
<1>1. E[k] \in Entry \cup {None}
  BY DEF Entries
<1>2. CASE k # i
  BY <1>2, RestartedKeeps
<1>3. CASE k = i /\ BlockLeft(E[k]) = 0
  BY <1>1, <1>3, RestartedKeeps, Fresh
<1>4. CASE k = i /\ BlockLeft(E[k]) # 0
  BY <1>4, RestartedKeeps
<1> QED BY <1>2, <1>3, <1>4

\* Restarting i forgets a block of i that is over, and touches no other key.
LEMMA RestartUnblocks ==
    ASSUME NEW E \in Entries, NEW i \in Key, ~Blocked(E[i])
    PROVE  BlockLeft(Restarted(E, i)[i]) = None
<1>1. E[i] \in Entry \cup {None}
  BY DEF Entries
<1>2. CASE BlockLeft(E[i]) = 0
  <2>1. Restarted(E, i)[i] = [failures |-> Nothing, left |-> None]
    BY <1>2, RestartedKeeps
  <2>2. Nothing \in Tally
    BY DEF Nothing, Tally
  <2> QED BY <2>1, <2>2, EntryRecord
<1>3. CASE BlockLeft(E[i]) # 0
  <2>1. Restarted(E, i)[i] = E[i]
    BY <1>3, RestartedKeeps
  <2>2. BlockLeft(E[i]) # None => BlockLeft(E[i]) \in 0 .. BlockTime
    BY <1>1, EntryTypes
  <2>3. BlockLeft(E[i]) = None
    BY <1>3, <2>2, Constants DEF Blocked
  <2> QED BY <2>1, <2>3
<1> QED BY <1>2, <1>3

\* A key nobody has failed with since its last success.
LEMMA NothingConsistent ==
    ASSUME NEW k \in Key, NEW n \in Nat, n <= Others
    PROVE  Consistent(k, None, Nothing, n)
<1>1. Nothing \in Tally /\ \A b \in 0 .. Horizon : Nothing[b] = 0
  BY DEF Nothing, Tally
<1>2. /\ None \in Entry \cup {None}
      /\ Failures(None) = Nothing /\ BlockLeft(None) = None
  BY EntryTypes
<1>3. ~Blocked(None)
  BY <1>2 DEF Blocked
<1>4. Part(Nothing, Nothing)
  BY <1>1, Constants DEF Part
<1>5. Nothing[WindowTime] = 0 /\ Limit(k) \in Nat /\ Limit(k) > 0 /\ Others \in Nat
  BY <1>1, Constants
<1>6. 0 <= 0 + Others /\ 0 + n <= Limit(k) + Others
  BY <1>5
<1> QED BY <1>1, <1>2, <1>3, <1>4, <1>5, <1>6, ConsistentMeans

LEMMA InitInv ==
    ASSUME Init
    PROVE  Inv
<1>1. Nothing \in Tally
  BY DEF Nothing, Tally
<1>2. /\ entries \in Entries /\ Attempts /\ failed \in [Key -> Tally]
  BY <1>1 DEF Init, Entries, Attempts
<1>3. ASSUME NEW k \in Key
      PROVE  Consistent(k, entries[k], failed[k], InFlight(k))
  <2>1. entries[k] = None /\ failed[k] = Nothing
    BY DEF Init
  <2>2. Working(k) = {}
    BY DEF Init, Working
  <2>3. InFlight(k) = 0
    BY <2>2, FS_EmptySet DEF InFlight
  <2>4. 0 \in Nat /\ 0 <= Others
    BY Constants
  <2>5. Consistent(k, None, Nothing, 0)
    BY <2>4, NothingConsistent
  <2> QED BY <2>1, <2>3, <2>5
<1> QED BY <1>2, <1>3, InvMeans

LEMMA RefuseKeepsInv ==
    ASSUME Inv, NEW p \in Proc, NEW i \in Identifier, NEW a \in Ip, Refuse(p, i, a)
    PROVE  Inv'
<1>1. /\ entries' = Refused(Purged(entries), i, a) /\ UNCHANGED <<attempt, failed>>
      /\ entries \in Entries /\ Attempts /\ failed \in [Key -> Tally] /\ i \in Key
  BY InvMeans DEF Refuse, Key
<1>2. Purged(entries) \in Entries
  BY <1>1, PurgedKeeps
<1>3. entries' \in Entries
  BY <1>1, <1>2, RestartedKeeps DEF Refused
<1>4. ASSUME NEW k \in Key
      PROVE  Consistent(k, entries'[k], failed[k], InFlight(k))
  <2>1. /\ failed[k] \in Tally /\ InFlight(k) \in Nat
        /\ Consistent(k, entries[k], failed[k], InFlight(k))
    BY KeyFacts
  <2>2. Consistent(k, Purged(entries)[k], failed[k], InFlight(k))
    BY <1>1, <2>1, PurgeIsConsistent
  <2>3. Consistent(k, Restarted(Purged(entries), i)[k], failed[k], InFlight(k))
    BY <1>1, <1>2, <2>1, <2>2, RestartIsConsistent
  <2> QED BY <1>1, <2>2, <2>3 DEF Refused
<1>5. Attempts' /\ failed' = failed /\ \A k \in Key : InFlight(k)' = InFlight(k)
  BY <1>1 DEF Attempts, InFlight, Working
<1> QED BY <1>1, <1>3, <1>4, <1>5 DEF Inv, TypeOK, KeysConsistent, Entries, Attempts

LEMMA AdmitKeepsInv ==
    ASSUME Inv, NEW p \in Proc, NEW i \in Identifier, NEW a \in Ip, Admit(p, i, a)
    PROVE  Inv'
<1> DEFINE P == Purged(entries)
           R == Restarted(P, i)
           S == Restarted(R, a)
<1>1. /\ entries' = S /\ UNCHANGED failed
      /\ attempt[p] = None /\ attempt' = [attempt EXCEPT ![p] = [id |-> i, ip |-> a]]
      /\ ~Blocked(P[i]) /\ ~Blocked(P[a])
  BY DEF Admit
<1>2. /\ entries \in Entries /\ Attempts /\ failed \in [Key -> Tally]
      /\ i \in Key /\ a \in Key /\ i # a
  BY InvMeans, LoginThrottleAssumption DEF Key
<1>3. P \in Entries
  BY <1>2, PurgedKeeps
<1> HIDE DEF P
<1>4. R \in Entries
  BY <1>2, <1>3, RestartedKeeps
<1>5. R[a] = P[a]
  BY <1>2, <1>3, RestartedKeeps
<1>6. BlockLeft(R[i]) = None
  BY <1>1, <1>2, <1>3, RestartUnblocks
<1> HIDE DEF R
<1>7. S \in Entries
  BY <1>2, <1>4, RestartedKeeps
<1>8. S[i] = R[i]
  BY <1>2, <1>4, RestartedKeeps
<1>9. BlockLeft(S[a]) = None
  BY <1>1, <1>2, <1>4, <1>5, RestartUnblocks
<1>10. /\ Attempts'
       /\ \A k \in Key : InFlight(k) <= Others
       /\ \A k \in Key :
            InFlight(k)' = IF k \in {i, a} THEN InFlight(k) + 1 ELSE InFlight(k)
  BY <1>1, <1>2, InFlightStarts
<1>11. ASSUME NEW k \in Key
       PROVE  Consistent(k, S[k], failed[k], InFlight(k)')
  <2>1. /\ failed[k] \in Tally /\ InFlight(k) \in Nat
        /\ Consistent(k, entries[k], failed[k], InFlight(k))
    BY KeyFacts
  <2>2. Consistent(k, P[k], failed[k], InFlight(k))
    BY <1>2, <2>1, PurgeIsConsistent DEF P
  <2>3. Consistent(k, R[k], failed[k], InFlight(k))
    BY <1>2, <1>3, <2>1, <2>2, RestartIsConsistent DEF R
  <2>4. Consistent(k, S[k], failed[k], InFlight(k))
    BY <1>2, <1>4, <2>1, <2>3, RestartIsConsistent
  <2>5. CASE k \in {i, a}
    <3>1. BlockLeft(S[k]) = None
      BY <1>6, <1>8, <1>9, <2>5
    <3>2. S[k] \in Entry \cup {None}
      BY <1>7 DEF Entries
    <3>3. InFlight(k) <= Others
      BY <1>10
    <3>4. Consistent(k, S[k], failed[k], InFlight(k) + 1)
      BY <2>1, <2>4, <3>1, <3>2, <3>3, OneMore
    <3> QED BY <1>10, <2>5, <3>4
  <2>6. CASE k \notin {i, a}
    BY <1>10, <2>4, <2>6
  <2> QED BY <2>5, <2>6
<1> HIDE DEF S
<1> QED BY <1>1, <1>2, <1>7, <1>10, <1>11 DEF Inv, TypeOK, KeysConsistent, Entries, Attempts

LEMMA RegisterFailureKeepsInv ==
    ASSUME Inv, NEW p \in Proc, RegisterFailure(p)
    PROVE  Inv'
<1> DEFINE i == attempt[p].id
           a == attempt[p].ip
           G == AddFailure(entries, i)
           H == AddFailure(G, a)
<1>1. /\ attempt[p] # None /\ attempt' = [attempt EXCEPT ![p] = None]
      /\ entries' = H
      /\ failed' = [k \in Key |-> IF k \in {i, a} THEN Plus(failed[k]) ELSE failed[k]]
  BY DEF RegisterFailure
<1>2. entries \in Entries /\ Attempts /\ failed \in [Key -> Tally]
  BY InvMeans
<1>3. i \in Key /\ a \in Key /\ i # a
  BY <1>1, <1>2, AttemptKeys
<1>4. /\ Attempts'
      /\ \A k \in Key :
           /\ InFlight(k)' \in Nat /\ InFlight(k)' <= Others
           /\ IF k \in {i, a} THEN InFlight(k) > 0 /\ InFlight(k)' = InFlight(k) - 1
              ELSE InFlight(k)' = InFlight(k)
  BY <1>1, <1>2, InFlightEnds
<1> HIDE DEF i, a
<1>5. G \in Entries /\ G[i] = Failed(i, entries[i]) /\ \A k \in Key : k # i => G[k] = entries[k]
  BY <1>2, <1>3, AddFailureKeeps
<1> HIDE DEF G
<1>6. H \in Entries /\ H[a] = Failed(a, G[a]) /\ \A k \in Key : k # a => H[k] = G[k]
  BY <1>3, <1>5, AddFailureKeeps
<1> HIDE DEF H
<1>7. \A k \in Key : H[k] = IF k \in {i, a} THEN Failed(k, entries[k]) ELSE entries[k]
  BY <1>3, <1>5, <1>6
<1>8. failed' \in [Key -> Tally]
  <2>1. \A k \in Key : failed[k] \in Tally /\ Plus(failed[k]) \in Tally
    BY <1>2, Tallies
  <2> QED BY <1>1, <2>1
<1>9. ASSUME NEW k \in Key
      PROVE  Consistent(k, H[k], failed'[k], InFlight(k)')
  <2>1. /\ entries[k] \in Entry \cup {None} /\ failed[k] \in Tally /\ InFlight(k) \in Nat
        /\ Consistent(k, entries[k], failed[k], InFlight(k))
    BY KeyFacts
  <2>2. InFlight(k) <= Others + 1
    BY InFlightBound
  <2>3. CASE k \in {i, a}
    <3>1. /\ H[k] = Failed(k, entries[k]) /\ failed'[k] = Plus(failed[k])
          /\ InFlight(k) > 0 /\ InFlight(k)' = InFlight(k) - 1
      BY <1>1, <1>4, <1>7, <2>3
    <3>2. Consistent(k, Failed(k, entries[k]), Plus(failed[k]), InFlight(k) - 1)
      BY <2>1, <2>2, <3>1, FailedConsistent
    <3> QED BY <3>1, <3>2
  <2>4. CASE k \notin {i, a}
    BY <1>1, <1>4, <1>7, <2>1, <2>4
  <2> QED BY <2>3, <2>4
<1> QED BY <1>1, <1>4, <1>6, <1>8, <1>9 DEF Inv, TypeOK, KeysConsistent, Entries, Attempts

LEMMA RegisterSuccessKeepsInv ==
    ASSUME Inv, NEW p \in Proc, RegisterSuccess(p)
    PROVE  Inv'
<1> DEFINE i == attempt[p].id
           a == attempt[p].ip
<1>1. /\ attempt[p] # None /\ attempt' = [attempt EXCEPT ![p] = None]
      /\ entries' = [entries EXCEPT ![i] = None, ![a] = None]
      /\ failed' = [failed EXCEPT ![i] = Nothing, ![a] = Nothing]
  BY DEF RegisterSuccess
<1>2. entries \in Entries /\ Attempts /\ failed \in [Key -> Tally]
  BY InvMeans
<1>3. i \in Key /\ a \in Key /\ i # a
  BY <1>1, <1>2, AttemptKeys
<1>4. /\ Attempts'
      /\ \A k \in Key :
           /\ InFlight(k)' \in Nat /\ InFlight(k)' <= Others
           /\ IF k \in {i, a} THEN InFlight(k) > 0 /\ InFlight(k)' = InFlight(k) - 1
              ELSE InFlight(k)' = InFlight(k)
  BY <1>1, <1>2, InFlightEnds
<1> HIDE DEF i, a
<1>5. Nothing \in Tally /\ \A b \in 0 .. Horizon : Nothing[b] = 0
  BY DEF Nothing, Tally
<1>6. entries' \in Entries /\ failed' \in [Key -> Tally]
  BY <1>1, <1>2, <1>5 DEF Entries
<1>7. \A k \in Key : IF k \in {i, a} THEN entries'[k] = None /\ failed'[k] = Nothing
                     ELSE entries'[k] = entries[k] /\ failed'[k] = failed[k]
  BY <1>1, <1>2, <1>3 DEF Entries
<1>8. ASSUME NEW k \in Key
      PROVE  Consistent(k, entries'[k], failed'[k], InFlight(k)')
  <2>1. CASE k \in {i, a}
    <3>1. entries'[k] = None /\ failed'[k] = Nothing
      BY <1>7, <2>1
    <3>2. InFlight(k)' \in Nat /\ InFlight(k)' <= Others
      BY <1>4
    <3> DEFINE n == InFlight(k)'
    <3>3. n \in Nat /\ n <= Others
      BY <3>2
    <3> HIDE DEF n
    <3>4. Consistent(k, None, Nothing, n)
      BY <1>5, <3>3, NothingConsistent
    <3> QED BY <3>1, <3>4 DEF n
  <2>2. CASE k \notin {i, a}
    BY <1>4, <1>7, <2>2, KeyFacts
  <2> QED BY <2>1, <2>2
<1> QED BY <1>4, <1>6, <1>8 DEF Inv, TypeOK, KeysConsistent, Entries, Attempts

LEMMA AbandonKeepsInv ==
    ASSUME Inv, NEW p \in Proc, Abandon(p)
    PROVE  Inv'
<1>1. /\ attempt[p] # None /\ attempt' = [attempt EXCEPT ![p] = None]
      /\ UNCHANGED <<entries, failed>>
  BY DEF Abandon
<1>2. entries \in Entries /\ Attempts /\ failed \in [Key -> Tally]
  BY InvMeans
<1>3. /\ Attempts'
      /\ \A k \in Key :
           /\ InFlight(k)' \in Nat /\ InFlight(k)' <= Others
           /\ IF k \in {attempt[p].id, attempt[p].ip}
              THEN InFlight(k) > 0 /\ InFlight(k)' = InFlight(k) - 1
              ELSE InFlight(k)' = InFlight(k)
  BY <1>1, <1>2, InFlightEnds
<1>4. ASSUME NEW k \in Key
      PROVE  Consistent(k, entries[k], failed[k], InFlight(k)')
  <2>1. /\ entries[k] \in Entry \cup {None} /\ failed[k] \in Tally /\ InFlight(k) \in Nat
        /\ Consistent(k, entries[k], failed[k], InFlight(k))
    BY KeyFacts
  <2> DEFINE m == InFlight(k)'
  <2>2. m \in Nat /\ m <= InFlight(k)
    BY <1>3, <2>1
  <2> HIDE DEF m
  <2>3. Consistent(k, entries[k], failed[k], m)
    BY <2>1, <2>2, Fewer
  <2> QED BY <2>3 DEF m
<1> QED BY <1>1, <1>2, <1>3, <1>4 DEF Inv, TypeOK, KeysConsistent, Entries, Attempts

LEMMA TickKeepsInv ==
    ASSUME Inv, Tick
    PROVE  Inv'
<1>1. /\ entries' = [k \in Key |-> Later(entries[k])]
      /\ failed' = [k \in Key |-> Older(failed[k])]
      /\ attempt' = attempt
  BY DEF Tick, Later
<1>2. Attempts' /\ \A k \in Key : InFlight(k)' = InFlight(k)
  BY <1>1, InvMeans DEF Attempts, InFlight, Working
<1>3. ASSUME NEW k \in Key
      PROVE  /\ Later(entries[k]) \in Entry \cup {None} /\ Older(failed[k]) \in Tally
             /\ Consistent(k, Later(entries[k]), Older(failed[k]), InFlight(k))
  <2>1. /\ entries[k] \in Entry \cup {None} /\ failed[k] \in Tally /\ InFlight(k) \in Nat
        /\ Consistent(k, entries[k], failed[k], InFlight(k))
    BY KeyFacts
  <2> QED BY <2>1, LaterType, LaterConsistent, Tallies
<1> QED BY <1>1, <1>2, <1>3 DEF Inv, TypeOK, KeysConsistent, Entries, Attempts

LEMMA NextKeepsInv ==
    ASSUME Inv, [Next]_vars
    PROVE  Inv'
<1>1. ASSUME NEW p \in Proc, NEW i \in Identifier, NEW a \in Ip, Refuse(p, i, a)
      PROVE  Inv'
  BY <1>1, RefuseKeepsInv
<1>2. ASSUME NEW p \in Proc, NEW i \in Identifier, NEW a \in Ip, Admit(p, i, a)
      PROVE  Inv'
  BY <1>2, AdmitKeepsInv
<1>3. ASSUME NEW p \in Proc, RegisterFailure(p)
      PROVE  Inv'
  BY <1>3, RegisterFailureKeepsInv
<1>4. ASSUME NEW p \in Proc, RegisterSuccess(p)
      PROVE  Inv'
  BY <1>4, RegisterSuccessKeepsInv
<1>5. ASSUME NEW p \in Proc, Abandon(p)
      PROVE  Inv'
  BY <1>5, AbandonKeepsInv
<1>6. CASE Tick
  BY <1>6, TickKeepsInv
<1>7. CASE UNCHANGED vars
  BY <1>7 DEF vars, Inv, TypeOK, KeysConsistent, InFlight, Working
<1> QED BY <1>1, <1>2, <1>3, <1>4, <1>5, <1>6, <1>7 DEF Next

THEOREM InvHolds == Spec => []Inv
<1>1. Init => Inv
  BY InitInv
<1>2. Inv /\ [Next]_vars => Inv'
  BY NextKeepsInv
<1> QED BY <1>1, <1>2, PTL DEF Spec

-----------------------------------------------------------------------------
(* The results.                                                             *)

\* An entry is a list and a block, an attempt has an identifier and an address.
THEOREM TypesHold == Spec => []TypeOK
<1>1. Inv => TypeOK
  BY DEF Inv
<1> QED BY <1>1, InvHolds, PTL

\* Whatever the limits, and however many attempts overlap: who is locked out has
\* failed that often within one window, and not logged in since.
THEOREM BlockHasItsCause == Spec => []BlockedForCause
<1>1. Inv => BlockedForCause
  BY DEF Inv, KeysConsistent, Consistent, BlockedForCause
<1> QED BY <1>1, InvHolds, PTL

\* Purges, ends of blocks and the other key of an attempt forget no failure but
\* those of attempts that overlapped the one that blocked.
THEOREM OnlyOverlapIsForgotten == Spec => []NothingForgotten
<1>1. Inv => NothingForgotten
  BY DEF Inv, KeysConsistent, Consistent, NothingForgotten
<1> QED BY <1>1, InvHolds, PTL

\* The limit of the sliding window, with what concurrency can add to it.
THEOREM WindowHasItsLimit == Spec => []AtMostLimit
<1>1. ASSUME Inv
      PROVE  AtMostLimit
  <2>1. ASSUME NEW k \in Key
        PROVE  failed[k][WindowTime] <= Limit(k) + 2 * Others
    <3> DEFINE c == Failures(entries[k])[WindowTime]
    <3>1. /\ entries[k] \in Entry \cup {None} /\ failed[k] \in Tally /\ InFlight(k) \in Nat
          /\ Consistent(k, entries[k], failed[k], InFlight(k))
      BY <1>1, KeyFacts
    <3>2. failed[k][WindowTime] <= c + Others /\ c + InFlight(k) <= Limit(k) + Others
      BY <3>1, ConsistentMeans
    <3>3. c \in Nat /\ failed[k][WindowTime] \in Nat
      BY <3>1, EntryTypes, Tallies, Constants
    <3>4. Limit(k) \in Nat /\ Others \in Nat
      BY Constants
    <3> HIDE DEF c
    <3> QED BY <3>1, <3>2, <3>3, <3>4
  <2> QED BY <2>1 DEF AtMostLimit
<1> QED BY <1>1, InvHolds, PTL

=============================================================================
