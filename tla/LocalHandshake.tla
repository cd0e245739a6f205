--------------------------- MODULE LocalHandshake ---------------------------
(***************************************************************************)
(* LocalHandshakeService: a web tab gets a nonce, hands it to the desktop  *)
(* app of its machine, the app redeems it, and an evaluation that consumes *)
(* the nonce tells whether tab and app are the same user's on the same     *)
(* machine and the app is connected.  Every method is synchronous.         *)
(*                                                                         *)
(* A user has one electron session, whose id survives logins (see          *)
(* ElectronSessions), so redeemedSid and the sid of a presence say no more *)
(* than the user does.  A user may have the app on several machines, and a *)
(* presence comes and goes on its own: neither a logout nor a login on     *)
(* another machine takes it away in the same step, if at all.              *)
(***************************************************************************)
EXTENDS Integers, FiniteSets

CONSTANTS
    User, Device, Nonce,
    TTL,         \* HANDSHAKE_TTL_MS, in ticks
    MaxPerUser,  \* MAX_PER_USER
    SweepAt,     \* MAX_ENTRIES / 2
    None, Gone

Entry == [userId: User,
          number: Nat,                   \* Map keeps the order of insertion
          tab: Device,                   \* the machine of the tab: nobody stores it
          left: -1 .. TTL,               \* until expiresAt, -1 once it is past
          redeemedBy: User \cup {None}]  \* redeemedUserId

ASSUME LocalHandshakeAssumption ==
    /\ None \notin User \cup Device \cup Nonce \cup Entry
    /\ Gone \notin Entry \cup {None}
    /\ TTL \in Nat /\ MaxPerUser \in Nat \ {0} /\ SweepAt \in Nat

VARIABLES
    entries,  \* the entry of each nonce; None before it is issued, Gone after it left
    issues,   \* the nonces issued so far
    app,      \* app[d]: the user the app of machine d is logged in as
    present   \* present[d]: the user of the presence of machine d

handshake == <<entries, issues>>
apps == <<app, present>>

LocalHandshakeTypeOK ==
    /\ entries \in [Nonce -> Entry \cup {None, Gone}]
    /\ issues \in Nat
    /\ app \in [Device -> User \cup {None}]
    /\ present \in [Device -> User \cup {None}]

LocalHandshakeInit ==
    /\ entries = [n \in Nonce |-> None]
    /\ issues = 0
    /\ app = [d \in Device |-> None]
    /\ present = [d \in Device |-> None]

\* The nonces in the map.
Keys == {n \in Nonce : entries[n] \notin {None, Gone}}

Past(n) == entries[n].left < 0

\* The entries of u among K, and those of them that are younger than n.
Mine(K, u) == {n \in K : entries[n].userId = u}
Younger(K, u, n) == {m \in Mine(K, u) : entries[m].number > entries[n].number}

-----------------------------------------------------------------------------
\* sweep: what has expired, once there are many entries.
Swept == IF Cardinality(Keys) < SweepAt THEN {} ELSE {n \in Keys : Past(n)}

\* Mutant: one nonce more per user.
OldestTooFew(K, u) ==
    {n \in Mine(K, u) : Cardinality(Younger(K, u, n)) >= MaxPerUser}

\* Mutant: the oldest of all, whoever they are.
OldestOfAll(K, u) ==
    {n \in K : Cardinality({m \in K : entries[m].number > entries[n].number}) >= MaxPerUser - 1}

\* dropOldest: the entries of u in K but the last MaxPerUser - 1.
Oldest(K, u) ==
    {n \in Mine(K, u) : Cardinality(Younger(K, u, n)) >= MaxPerUser - 1}

\* issue, for a tab of u on machine d.
Issue(u, d, n) ==
    LET kept == Keys \ Swept
        new == [userId |-> u, number |-> issues + 1, tab |-> d, left |-> TTL,
                redeemedBy |-> None]
    IN  /\ entries[n] = None
        /\ entries' = [m \in Nonce |->
                CASE m = n -> new
                  [] m # n /\ m \in Swept \cup Oldest(kept, u) -> Gone
                  [] OTHER -> entries[m]]
        /\ issues' = issues + 1
        /\ UNCHANGED apps

\* redeem, by the app of the machine whose tab has the nonce.
Redeem(n) ==
    /\ n \in Keys /\ ~Past(n) /\ entries[n].redeemedBy = None
    /\ app[entries[n].tab] # None
    /\ entries' = [entries EXCEPT ![n].redeemedBy = app[entries[n].tab]]
    /\ UNCHANGED <<issues, apps>>

\* listByUser(u) is not empty.
Live(u) == \E d \in Device : present[d] = u

\* evaluate returns null: none of its four failures applies.
Passes(u, n) ==
    /\ n \in Keys /\ ~Past(n) /\ entries[n].userId = u
    /\ entries[n].redeemedBy = u
    /\ Live(u)

\* Mutant: a nonce is consumed when it fails, and kept when it passes.
EvaluateKeeping(u, n) ==
    /\ entries[n] # None
    /\ entries' = IF Passes(u, n) THEN entries ELSE [entries EXCEPT ![n] = Gone]
    /\ UNCHANGED issues

\* evaluate consumes the nonce, whatever the outcome.
Evaluate(u, n) ==
    /\ entries[n] # None
    /\ entries' = [entries EXCEPT ![n] = Gone]
    /\ UNCHANGED issues

\* POST handshake/check and handshake/verify.
Check(u, n) == Evaluate(u, n) /\ UNCHANGED apps

-----------------------------------------------------------------------------
(* The apps and their presences: what this module needs of DevicePresence    *)
(* and ElectronSessions.                                                     *)

\* login touches the session; what it disconnects elsewhere, Offline does.
LoginAt(u, d) ==
    /\ app[d] = None
    /\ app' = [app EXCEPT ![d] = u]
    /\ UNCHANGED <<present, handshake>>

\* logout disconnects nothing: the presence stays until the socket closes.
AppLogout(d) ==
    /\ app[d] # None
    /\ app' = [app EXCEPT ![d] = None]
    /\ UNCHANGED <<present, handshake>>

\* An app that connects takes the presence of its machine.
Online(d) ==
    /\ app[d] # None
    /\ present' = [present EXCEPT ![d] = app[d]]
    /\ UNCHANGED <<app, handshake>>

\* The socket closes, by itself or by a login, or another takes its presence.
Offline(d) ==
    /\ present[d] # None
    /\ present' = [present EXCEPT ![d] = None]
    /\ UNCHANGED <<app, handshake>>

\* The process restarts: its maps are empty.
Forget ==
    /\ entries' = [n \in Nonce |-> IF entries[n] = None THEN None ELSE Gone]
    /\ present' = [d \in Device |-> None]
    /\ UNCHANGED <<issues, app>>

Tick ==
    /\ entries' = [n \in Nonce |->
            IF n \notin Keys \/ Past(n) THEN entries[n]
            ELSE [entries[n] EXCEPT !.left = @ - 1]]
    /\ UNCHANGED <<issues, apps>>

AppSteps ==
    \/ \E u \in User, d \in Device : LoginAt(u, d)
    \/ \E d \in Device : AppLogout(d) \/ Online(d) \/ Offline(d)

HandshakeSteps ==
    \/ \E u \in User, n \in Nonce, d \in Device : Issue(u, d, n)
    \/ \E n \in Nonce : Redeem(n)
    \/ \E u \in User, n \in Nonce : Check(u, n)
    \/ Tick

LocalHandshakeNext == HandshakeSteps \/ AppSteps \/ Forget
LocalHandshakeSpec == LocalHandshakeInit /\ [][LocalHandshakeNext]_<<handshake, apps>>

-----------------------------------------------------------------------------
(* Properties.                                                              *)

\* What the header of the service promises of an evaluation that passes: on the
\* machine of the tab runs the app of the tab's user, and its socket is connected.
VerifiedIsLocal ==
    \A u \in User, n \in Nonce : Passes(u, n) => present[entries[n].tab] = u

\* A user never has more than MaxPerUser nonces in the map.
FewPerUser == \A u \in User : Cardinality(Mine(Keys, u)) <= MaxPerUser

\* A nonce leaves the map only when it is evaluated, expired, lost with the whole
\* map, or displaced by a new one of its own user, who has enough younger ones.
DisplacedByOwn ==
    [][\A n \in Keys \ Keys' :
        \/ Past(n) \/ Keys' = {} \/ Keys' = Keys \ {n}
        \/ /\ \E m \in Keys' \ Keys : entries'[m].userId = entries[n].userId
           /\ Cardinality(Younger(Keys, entries[n].userId, n)) >= MaxPerUser - 1
      ]_<<handshake, apps>>
=============================================================================
