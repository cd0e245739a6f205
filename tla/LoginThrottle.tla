---------------------------- MODULE LoginThrottle ----------------------------
(***************************************************************************)
(* LoginThrottleService and the attempts to log in that use it: check is   *)
(* called before the user is looked up, registerFailure or registerSuccess *)
(* after the password was compared, and other attempts run in between.     *)
(* A key of the map is an identifier or an address.                        *)
(*                                                                         *)
(* The service keeps a list of the times of a key's failures, and only     *)
(* ever asks how many of them are recent.  The list is kept here as those  *)
(* answers: a tally t says that t[b] failures are younger than b ticks.    *)
(***************************************************************************)
EXTENDS Integers, FiniteSets

CONSTANTS
    Identifier, Ip,
    Proc,       \* attempts the server works on at once
    MaxPerIdentifier, MaxPerIp,
    WindowTime, \* WINDOW_MS, in ticks
    BlockTime,  \* BLOCK_MS
    MaxEntries, \* MAX_ENTRIES
    None

Key == Identifier \cup Ip

Horizon == WindowTime + BlockTime
Tally == [0 .. Horizon -> Nat]
Nothing == [b \in 0 .. Horizon |-> 0]

Entry == [failures: Tally,
          left: (0 .. BlockTime) \cup {None}] \* until blockedUntil

ASSUME LoginThrottleAssumption ==
    /\ None \notin Int /\ None \notin Entry /\ None \notin [id: Identifier, ip: Ip]
    /\ Identifier \cap Ip = {}
    /\ IsFiniteSet(Proc) /\ Proc # {}
    /\ MaxPerIdentifier \in Nat \ {0} /\ MaxPerIp \in Nat \ {0}
    /\ WindowTime \in Nat \ {0} /\ BlockTime \in Nat
    /\ BlockTime >= WindowTime  \* they are equal in the code
    /\ MaxEntries \in Nat

VARIABLES
    entries,  \* entries[k]: the entry of key k, or None
    attempt,  \* attempt[p]: the attempt p is working on, or None
    failed    \* history: the tally of k's failures since its last success

vars == <<entries, attempt, failed>>

TypeOK ==
    /\ entries \in [Key -> Entry \cup {None}]
    /\ attempt \in [Proc -> [id: Identifier, ip: Ip] \cup {None}]
    /\ failed \in [Key -> Tally]

Init ==
    /\ entries = [k \in Key |-> None]
    /\ attempt = [p \in Proc |-> None]
    /\ failed = [k \in Key |-> Nothing]

Limit(k) == IF k \in Ip THEN MaxPerIp ELSE MaxPerIdentifier

\* A list with one more failure, now; without those out of the window; later.
Plus(t) == [b \in 0 .. Horizon |-> IF b = 0 THEN 0 ELSE t[b] + 1]
Recent(t) == [b \in 0 .. Horizon |-> IF b < WindowTime THEN t[b] ELSE t[WindowTime]]
Older(t) == [b \in 0 .. Horizon |-> IF b = 0 THEN 0 ELSE t[b - 1]]

Failures(e) == IF e = None THEN Nothing ELSE e.failures
BlockLeft(e) == IF e = None THEN None ELSE e.left
Blocked(e) == BlockLeft(e) # None /\ BlockLeft(e) > 0

-----------------------------------------------------------------------------
\* Mutant: an entry is dropped although its failures still count.
PurgedEarly(E) == [k \in Key |-> IF Blocked(E[k]) THEN E[k] ELSE None]

\* lazyPurge: once there are many entries, what neither blocks nor counts goes.
Purged(E) ==
    IF Cardinality({k \in Key : E[k] # None}) <= MaxEntries THEN E
    ELSE [k \in Key |->
            IF ~Blocked(E[k]) /\ Failures(E[k])[WindowTime] = 0 THEN None ELSE E[k]]

\* check, for a key that is not blocked: a block that is over starts afresh.
Restarted(E, k) ==
    IF BlockLeft(E[k]) = 0
    THEN [E EXCEPT ![k] = [failures |-> Nothing, left |-> None]] ELSE E

\* Mutant: failures older than the window count too.
AddFailureForever(E, k) ==
    LET t == Plus(Failures(E[k]))
    IN  [E EXCEPT ![k] = [failures |-> t,
            left |-> IF t[Horizon] >= Limit(k) THEN BlockTime ELSE BlockLeft(E[k])]]

\* Mutant: the block comes one failure late.
AddFailureLate(E, k) ==
    LET t == Plus(Recent(Failures(E[k])))
    IN  [E EXCEPT ![k] = [failures |-> t,
            left |-> IF t[Horizon] > Limit(k) THEN BlockTime ELSE BlockLeft(E[k])]]

\* addFailure: what is left of the list is counted, however old.
AddFailure(E, k) ==
    LET t == Plus(Recent(Failures(E[k])))
    IN  [E EXCEPT ![k] = [failures |-> t,
            left |-> IF t[Horizon] >= Limit(k) THEN BlockTime ELSE BlockLeft(E[k])]]

\* Mutant: an attempt refused because of the identifier prolongs its block.
RefusedCounting(E, i, a) == IF Blocked(E[i]) THEN AddFailure(E, i) ELSE Restarted(E, i)

\* What a refused check leaves: it looks at the identifier first.
Refused(E, i, a) == IF Blocked(E[i]) THEN E ELSE Restarted(E, i)

\* check throws 429.
Refuse(p, i, a) ==
    /\ attempt[p] = None
    /\ Blocked(Purged(entries)[i]) \/ Blocked(Purged(entries)[a])
    /\ entries' = Refused(Purged(entries), i, a)
    /\ UNCHANGED <<attempt, failed>>

\* check returns; the user is looked up and the password compared.
Admit(p, i, a) ==
    /\ attempt[p] = None
    /\ ~Blocked(Purged(entries)[i]) /\ ~Blocked(Purged(entries)[a])
    /\ entries' = Restarted(Restarted(Purged(entries), i), a)
    /\ attempt' = [attempt EXCEPT ![p] = [id |-> i, ip |-> a]]
    /\ UNCHANGED failed

\* registerFailure: no such user, or not the password.
RegisterFailure(p) ==
    /\ attempt[p] # None
    /\ entries' = AddFailure(AddFailure(entries, attempt[p].id), attempt[p].ip)
    /\ failed' = [k \in Key |->
                    IF k \in {attempt[p].id, attempt[p].ip} THEN Plus(failed[k]) ELSE failed[k]]
    /\ attempt' = [attempt EXCEPT ![p] = None]

\* registerSuccess.
RegisterSuccess(p) ==
    /\ attempt[p] # None
    /\ entries' = [entries EXCEPT ![attempt[p].id] = None, ![attempt[p].ip] = None]
    /\ failed' = [failed EXCEPT ![attempt[p].id] = Nothing, ![attempt[p].ip] = Nothing]
    /\ attempt' = [attempt EXCEPT ![p] = None]

\* The lookup or the comparison throws.
Abandon(p) ==
    /\ attempt[p] # None
    /\ attempt' = [attempt EXCEPT ![p] = None]
    /\ UNCHANGED <<entries, failed>>

Tick ==
    /\ entries' = [k \in Key |->
         IF entries[k] = None THEN None
         ELSE [failures |-> Older(entries[k].failures),
               left |-> IF Blocked(entries[k]) THEN entries[k].left - 1 ELSE entries[k].left]]
    /\ failed' = [k \in Key |-> Older(failed[k])]
    /\ UNCHANGED attempt

Next ==
    \/ \E p \in Proc :
        \/ \E i \in Identifier, a \in Ip : Refuse(p, i, a) \/ Admit(p, i, a)
        \/ RegisterFailure(p)
        \/ RegisterSuccess(p)
        \/ Abandon(p)
    \/ Tick

Spec == Init /\ [][Next]_vars

\* Time passes; nothing is asked of the attempts.
FairSpec == Spec /\ WF_vars(Tick)

-----------------------------------------------------------------------------
(* Correctness *)

\* A key is blocked only after Limit(k) failures within one window, none of
\* them before its last success: neither failures that are older than the window
\* nor refused attempts count, however the attempts overlap.
BlockedForCause ==
    \A k \in Key : Blocked(entries[k]) =>
        failed[k][WindowTime + (BlockTime - entries[k].left)] >= Limit(k)

\* Attempts that may pass check() before an earlier one is counted.
Others == Cardinality(Proc) - 1

\* A failure within the window is forgotten only if its attempt overlapped others,
\* and outlasted the block they caused: the purge, the end of a block and the
\* other key of the attempt take nothing away.
NothingForgotten ==
    \A k \in Key :
        failed[k][WindowTime] <= Failures(entries[k])[WindowTime] + Others

\* At most Limit(k) failures in any window since the last success ("Max 5 fallos
\* por identifier (email/username) en ventana deslizante de 15 min"), and two more
\* for each further attempt that may be under way: one that passed check() before
\* the failure that blocks, and one whose failure was forgotten.
AtMostLimit == \A k \in Key : failed[k][WindowTime] <= Limit(k) + 2 * Others

\* Whoever is locked out is let in again, however often he tries meanwhile.
LockoutEnds == \A k \in Key : Blocked(entries[k]) ~> ~Blocked(entries[k])
=============================================================================
