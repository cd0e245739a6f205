-------------------------- MODULE ElectronSessions --------------------------
(***************************************************************************)
(* The Electron session of one user: the single row of auth_sessions for   *)
(* (userId, 'electron') and the handlers login, refresh and logout of      *)
(* AuthService that read it, change it in memory and save it back.         *)
(*                                                                         *)
(* A handler is a sequence of steps, one per await: between two of them    *)
(* any other handler may run.  The rows of different users never meet      *)
(* (every query names the user, or the sid of a verified token), and the   *)
(* unique index gives a user one row whose id, the sid, is kept by every   *)
(* later login, so one row stands for all.                                 *)
(*                                                                         *)
(* repo.save(entity) is two database calls.  It SELECTs the row by id,     *)
(* compares it with the entity in memory, then UPDATEs the columns that    *)
(* differ.  The entity may be older than the row: then the columns that    *)
(* other requests changed in between differ too, and are written back.     *)
(*                                                                         *)
(* A token is its serial number in the order of signing; two of one second *)
(* are the same token (see Sign).  A hash is the token it was computed     *)
(* from (argon2.verify is equality).  The clock is discrete; a tick is     *)
(* many seconds, and the windows of the code are numbers of ticks.         *)
(***************************************************************************)
EXTENDS Naturals, Sequences

CONSTANTS
    Request,     \* slots for requests in flight: the handlers that may overlap
    Device,      \* the deviceIds that log in
    None,        \* SQL NULL, and an absent argument
    Unset,       \* a property that an entity made by repo.create() lacks
    Grace,       \* GRACE_MS
    PrevGrace,   \* PREV_GRACE_MS
    RefreshTtl,  \* JWT_REFRESH_TTL
    MaxTokens,   \* bound: refresh tokens signed
    MaxTime      \* bound: ticks of the clock

VARIABLES
    row,        \* the row of auth_sessions, or None before the first login
    issued,     \* issued[t]: when token t was signed
    stored,     \* the tokens the row has held as refreshTokenHash (history)
    delivered,  \* the tokens whose response reached a client
    spent,      \* the tokens whose refresh a client has the answer to (history)
    now,        \* Date.now()
    proc        \* proc[p]: the handler that runs in slot p

vars == <<row, issued, stored, delivered, spent, now, proc>>

-----------------------------------------------------------------------------
(* Data.                                                                    *)

Token == 1 .. Len(issued)
Column == {"deviceId", "refreshTokenHash", "prevRefreshTokenHash",
           "prevRotatedAt", "lastUsedAt", "revokedAt", "isActive"}

\* A row, or an entity in memory; the label column decides nothing.
Session(absent) ==
    [deviceId: Device,
     refreshTokenHash: Nat \cup {None},
     prevRefreshTokenHash: Nat \cup {None} \cup absent,
     prevRotatedAt: Nat \cup {None} \cup absent,
     lastUsedAt: Nat,
     revokedAt: Nat \cup {None},
     isActive: BOOLEAN]

Row == Session({})
Entity == Session({Unset})

ASSUME ConstantsAssumption ==
    /\ {Grace, PrevGrace, RefreshTtl, MaxTokens, MaxTime} \subseteq Nat
    /\ None \notin Nat \cup Device \cup Entity
    /\ Unset \notin Nat \cup {None}

\* Where a handler stands: the database call it waits for, or the code after it.
Stage == {"idle", "findPrev", "select", "update", "insert", "kick", "upsert",
          "sign", "load", "match", "user", "logout", "done"}
Outcome == {"ok", "SESSION_REVOKED", "DEVICE_MISMATCH", "REFRESH_STALE",
            "INVALID_REFRESH", "USER_NOT_FOUND", "ERROR"}

Handler ==
    [stage: Stage,
     device: Device \cup {None},   \* deviceId of the request body
     token: Nat \cup {None},       \* the refresh token presented
     entity: Entity \cup {None},   \* the session loaded, as changed since
     dirty: SUBSET Column,         \* columns the pending UPDATE writes
     after: {"kick", "sign", "done"},  \* what follows the save
     outcome: Outcome,             \* the answer, once stage is "done"
     fresh: Nat \cup {None}]       \* the refresh token in the answer

Idle == [stage |-> "idle", device |-> None, token |-> None, entity |-> None,
         dirty |-> {}, after |-> "done", outcome |-> "ok", fresh |-> None]

TypeOK ==
    /\ row \in Row \cup {None}
    /\ issued \in Seq(Nat)
    /\ stored \subseteq Nat
    /\ delivered \subseteq Nat
    /\ spent \subseteq Nat
    /\ now \in Nat
    /\ proc \in [Request -> Handler]

Init ==
    /\ row = None
    /\ issued = <<>>
    /\ stored = {}
    /\ delivered = {}
    /\ spent = {}
    /\ now = 0
    /\ proc = [p \in Request |-> Idle]

-----------------------------------------------------------------------------
(* Helpers.                                                                 *)

\* The where clause { isActive: true, revokedAt: IsNull() }.
Live(s) == s # None /\ s.isActive /\ s.revokedAt = None

\* Slot p continues as h.
Become(p, h) == proc' = [proc EXCEPT ![p] = h]

\* The handler answers: the entity is garbage, the outcome is kept.
Answer(h, outcome) ==
    [h EXCEPT !.stage = "done", !.outcome = outcome, !.entity = None, !.dirty = {}]

\* Mutant: a revocation that leaves the hash.
RevokedKeepingHash(s) == [s EXCEPT !.isActive = FALSE, !.revokedAt = now]

\* The three assignments every revocation makes.
RevokedEntity(s) ==
    [s EXCEPT !.isActive = FALSE, !.revokedAt = now, !.refreshTokenHash = None]

\* repo.save(e) is called; k says where the handler goes on once it resolves.
Saving(h, e, k) == [h EXCEPT !.stage = "select", !.entity = e, !.after = k]

\* The columns an UPDATE has to write to make row r equal to entity e.
Differs(r, e) ==
    {c \in Column :
        \/ c = "deviceId" /\ e.deviceId # r.deviceId
        \/ c = "refreshTokenHash" /\ e.refreshTokenHash # r.refreshTokenHash
        \/ /\ c = "prevRefreshTokenHash"
           /\ e.prevRefreshTokenHash \notin {r.prevRefreshTokenHash, Unset}
        \/ c = "prevRotatedAt" /\ e.prevRotatedAt \notin {r.prevRotatedAt, Unset}
        \/ c = "lastUsedAt" /\ e.lastUsedAt # r.lastUsedAt
        \/ c = "revokedAt" /\ e.revokedAt # r.revokedAt
        \/ c = "isActive" /\ e.isActive # r.isActive}

\* UPDATE auth_sessions SET the columns cs of entity e.
Written(r, e, cs) ==
    LET Col(c, new, old) == IF c \in cs THEN new ELSE old IN
    [deviceId |-> Col("deviceId", e.deviceId, r.deviceId),
     refreshTokenHash |->
        Col("refreshTokenHash", e.refreshTokenHash, r.refreshTokenHash),
     prevRefreshTokenHash |->
        Col("prevRefreshTokenHash", e.prevRefreshTokenHash, r.prevRefreshTokenHash),
     prevRotatedAt |-> Col("prevRotatedAt", e.prevRotatedAt, r.prevRotatedAt),
     lastUsedAt |-> Col("lastUsedAt", e.lastUsedAt, r.lastUsedAt),
     revokedAt |-> Col("revokedAt", e.revokedAt, r.revokedAt),
     isActive |-> Col("isActive", e.isActive, r.isActive)]

\* INSERT: what the entity lacks takes the column's default, NULL.
Inserted(e) ==
    [e EXCEPT !.prevRefreshTokenHash = None, !.prevRotatedAt = None]

\* jwt.signAsync of a refresh token t.  The payload is { sub, sid } and the second
\* of signing, so t is a new token, or the last one signed in the same second.
Sign(t) ==
    \/ /\ t = Len(issued) + 1
       /\ t <= MaxTokens
       /\ issued' = Append(issued, now)
    \/ /\ t \in Token
       /\ t = Len(issued)
       /\ issued[t] = now
       /\ UNCHANGED issued

-----------------------------------------------------------------------------
(* repo.save(entity).                                                       *)

\* A hash just computed has a salt of its own: it differs from any stored one.
Salted(h) == IF h.fresh = None THEN {} ELSE {"refreshTokenHash"}

SaveSelect(p) ==
    LET h == proc[p] IN
    /\ h.stage = "select"
    /\ Become(p, [h EXCEPT !.stage = "update",
                           !.dirty = Differs(row, h.entity) \cup Salted(h)])
    /\ UNCHANGED <<row, issued, stored, delivered, spent, now>>

\* The handler that goes on after a save keeps its entity only to save it again.
Resumed(h) ==
    [h EXCEPT !.stage = h.after, !.dirty = {},
              !.entity = IF h.after = "sign" THEN @ ELSE None]

SaveUpdate(p) ==
    LET h == proc[p] IN
    /\ h.stage = "update"
    /\ row' = Written(row, h.entity, h.dirty)
    /\ stored' = stored \cup ({row'.refreshTokenHash} \ {None})
    /\ Become(p, Resumed(h))
    /\ UNCHANGED <<issued, delivered, spent, now>>

\* An entity without id is inserted; the unique index refuses a second row of
\* the user, and the request fails with an error nobody catches.
SaveInsert(p) ==
    LET h == proc[p] IN
    /\ h.stage = "insert"
    /\ \/ /\ row = None
          /\ row' = Inserted(h.entity)
          /\ Become(p, Resumed(h))
       \/ /\ row # None
          /\ Become(p, Answer(h, "ERROR"))
          /\ UNCHANGED row
    /\ UNCHANGED <<issued, stored, delivered, spent, now>>

-----------------------------------------------------------------------------
(* login() of a client that sends deviceId and label.                       *)

\* Credentials accepted: the throttle and the password check touch no session.
LoginStart(p, d) ==
    /\ proc[p].stage = "idle"
    /\ Become(p, [Idle EXCEPT !.stage = "findPrev", !.device = d])
    /\ UNCHANGED <<row, issued, stored, delivered, spent, now>>

LoginFindPrev(p) ==
    LET h == proc[p] IN
    /\ h.stage = "findPrev"
    /\ \/ /\ Live(row)
          /\ Become(p, Saving(h, RevokedEntity(row), "kick"))
       \/ /\ ~Live(row)
          /\ Become(p, [h EXCEPT !.stage = "upsert"])
    /\ UNCHANGED <<row, issued, stored, delivered, spent, now>>

\* emitToSid and disconnectSid: no session state, the sockets are the registry's.
LoginKick(p) ==
    LET h == proc[p] IN
    /\ h.stage = "kick"
    /\ Become(p, [h EXCEPT !.stage = "upsert"])
    /\ UNCHANGED <<row, issued, stored, delivered, spent, now>>

Activated(s, d) ==
    [s EXCEPT !.deviceId = d, !.isActive = TRUE, !.revokedAt = None,
              !.lastUsedAt = now]

\* repo.create({userId, client}), then the same assignments.
Created(d) ==
    [deviceId |-> d, refreshTokenHash |-> None, prevRefreshTokenHash |-> Unset,
     prevRotatedAt |-> Unset, lastUsedAt |-> now, revokedAt |-> None,
     isActive |-> TRUE]

LoginUpsert(p) ==
    LET h == proc[p] IN
    /\ h.stage = "upsert"
    /\ \/ /\ row # None
          /\ Become(p, Saving(h, Activated(row, h.device), "sign"))
       \/ /\ row = None
          /\ Become(p, [h EXCEPT !.stage = "insert", !.after = "sign",
                                 !.entity = Created(h.device)])
    /\ UNCHANGED <<row, issued, stored, delivered, spent, now>>

\* Mutant: the answer goes out and the last save is forgotten.
LoginSignUnsaved(p) ==
    LET h == proc[p] IN
    /\ h.stage = "sign"
    /\ \E t \in 1 .. MaxTokens :
          /\ Sign(t)
          /\ Become(p, Answer([h EXCEPT !.fresh = t], "ok"))
    /\ UNCHANGED <<row, stored, delivered, spent, now>>

LoginSign(p) ==
    LET h == proc[p] IN
    /\ h.stage = "sign"
    /\ \E t \in 1 .. MaxTokens :
          /\ Sign(t)
          /\ Become(p, Saving([h EXCEPT !.fresh = t, !.outcome = "ok"],
                              [h.entity EXCEPT !.refreshTokenHash = t,
                                               !.lastUsedAt = now],
                              "done"))
    /\ UNCHANGED <<row, stored, delivered, spent, now>>

-----------------------------------------------------------------------------
(* refresh() of a token that carries a sid.                                 *)

\* verifyAsync: a client presents a token it holds, before the token expires;
\* the body may name a device, or none.
RefreshStart(p, t, d) ==
    /\ proc[p].stage = "idle"
    /\ t \in delivered
    /\ now - issued[t] < RefreshTtl
    /\ Become(p, [Idle EXCEPT !.stage = "load", !.token = t, !.device = d])
    /\ UNCHANGED <<row, issued, stored, delivered, spent, now>>

\* Mutant: the session is looked up by id alone, and touched as a login does.
RefreshLoadReviving(p) ==
    LET h == proc[p] IN
    /\ h.stage = "load"
    /\ row # None
    /\ Become(p, [h EXCEPT !.stage = "match", !.entity = Activated(row, row.deviceId)])
    /\ UNCHANGED <<row, issued, stored, delivered, spent, now>>

\* findOne({ id: sid, isActive: true }), the revocation and device checks.
RefreshLoad(p) ==
    LET h == proc[p] IN
    /\ h.stage = "load"
    /\ \/ /\ ~Live(row)
          /\ Become(p, Answer(h, "SESSION_REVOKED"))
       \/ /\ Live(row)
          /\ h.device \notin {None, row.deviceId}
          /\ Become(p, Saving([h EXCEPT !.outcome = "DEVICE_MISMATCH"],
                              RevokedEntity(row), "done"))
       \/ /\ Live(row)
          /\ h.device \in {None, row.deviceId}
          /\ Become(p, [h EXCEPT !.stage = "match", !.entity = row])
    /\ UNCHANGED <<row, issued, stored, delivered, spent, now>>

MatchesCurrent(s, t) == s.refreshTokenHash = t

MatchesPrev(s, t) ==
    /\ s.prevRefreshTokenHash = t
    /\ s.prevRotatedAt # None
    /\ now - s.prevRotatedAt < PrevGrace

RecentlyUsed(s) == now - s.lastUsedAt < Grace

\* After the two argon2.verify, on the session as it was loaded.
RefreshMatch(p) ==
    LET h == proc[p]
        Accepted == MatchesCurrent(h.entity, h.token) \/ MatchesPrev(h.entity, h.token)
    IN
    /\ h.stage = "match"
    /\ \/ /\ Accepted
          /\ Become(p, [h EXCEPT !.stage = "user"])
       \/ /\ ~Accepted
          /\ RecentlyUsed(h.entity)
          /\ Become(p, Answer(h, "REFRESH_STALE"))
       \/ /\ ~Accepted
          /\ ~RecentlyUsed(h.entity)
          /\ Become(p, Saving([h EXCEPT !.outcome = "INVALID_REFRESH"],
                              [RevokedEntity(h.entity) EXCEPT
                                    !.prevRefreshTokenHash = None,
                                    !.prevRotatedAt = None],
                              "done"))
    /\ UNCHANGED <<row, issued, stored, delivered, spent, now>>

\* Mutant: the previous hash is only set when there is none.
RotatedKeepingPrev(s, t) ==
    [s EXCEPT !.prevRefreshTokenHash = IF @ = None THEN s.refreshTokenHash ELSE @,
              !.prevRotatedAt = now, !.refreshTokenHash = t, !.lastUsedAt = now]

\* The assignments of a rotation to token t.
Rotated(s, t) ==
    [s EXCEPT !.prevRefreshTokenHash = s.refreshTokenHash, !.prevRotatedAt = now,
              !.refreshTokenHash = t, !.lastUsedAt = now]

\* The user is looked up, then the new pair is signed, hashed and assigned.
RefreshRotate(p) ==
    LET h == proc[p] IN
    /\ h.stage = "user"
    /\ \E t \in 1 .. MaxTokens :
          /\ Sign(t)
          /\ Become(p, Saving([h EXCEPT !.fresh = t, !.outcome = "ok"],
                              Rotated(h.entity, t), "done"))
    /\ UNCHANGED <<row, stored, delivered, spent, now>>

\* The user was deactivated or deleted, which other services decide.
RefreshNoUser(p) ==
    LET h == proc[p] IN
    /\ h.stage = "user"
    /\ Become(p, Answer(h, "USER_NOT_FOUND"))
    /\ UNCHANGED <<row, issued, stored, delivered, spent, now>>

-----------------------------------------------------------------------------
(* logout() with the sid of an access token that JwtStrategy.validate let   *)
(* through.                                                                 *)

LogoutStart(p) ==
    /\ proc[p].stage = "idle"
    /\ delivered # {}
    /\ Live(row)
    /\ Become(p, [Idle EXCEPT !.stage = "logout"])
    /\ UNCHANGED <<row, issued, stored, delivered, spent, now>>

LogoutLoad(p) ==
    LET h == proc[p] IN
    /\ h.stage = "logout"
    /\ \/ /\ Live(row)
          /\ Become(p, Saving(h, RevokedEntity(row), "done"))
       \/ /\ ~Live(row)
          /\ Become(p, Answer(h, "ok"))
    /\ UNCHANGED <<row, issued, stored, delivered, spent, now>>

-----------------------------------------------------------------------------
(* The response, a crash of the server, the clock.                          *)

\* The answer of h carries tokens.
Granted(h) == h.outcome = "ok" /\ h.fresh # None

Reply(p) ==
    LET h == proc[p] IN
    /\ h.stage = "done"
    /\ delivered' = delivered \cup (IF Granted(h) THEN {h.fresh} ELSE {})
    /\ spent' = spent \cup (IF Granted(h) THEN {h.token} \ {None} ELSE {})
    /\ Become(p, Idle)
    /\ UNCHANGED <<row, issued, stored, now>>

\* The connection is gone: the answer reaches nobody.
LoseReply(p) ==
    /\ proc[p].stage = "done"
    /\ Become(p, Idle)
    /\ UNCHANGED <<row, issued, stored, delivered, spent, now>>

\* The process dies; a statement is atomic, a handler is not.
Crash ==
    /\ \E p \in Request : proc[p].stage \notin {"idle", "done"}
    /\ proc' = [p \in Request |-> Idle]
    /\ UNCHANGED <<row, issued, stored, delivered, spent, now>>

Tick ==
    /\ now < MaxTime
    /\ now' = now + 1
    /\ UNCHANGED <<row, issued, stored, delivered, spent, proc>>

Save(p) == SaveSelect(p) \/ SaveUpdate(p) \/ SaveInsert(p)
Login(p) ==
    \/ \E d \in Device : LoginStart(p, d)
    \/ LoginFindPrev(p) \/ LoginKick(p) \/ LoginUpsert(p) \/ LoginSign(p)
Refresh(p) ==
    \/ \E t \in delivered, d \in Device \cup {None} : RefreshStart(p, t, d)
    \/ RefreshLoad(p) \/ RefreshMatch(p) \/ RefreshRotate(p) \/ RefreshNoUser(p)
Logout(p) == LogoutStart(p) \/ LogoutLoad(p)

Next ==
    \/ \E p \in Request : Save(p) \/ Login(p) \/ Refresh(p) \/ Logout(p)
    \/ \E p \in Request : Reply(p) \/ LoseReply(p)
    \/ Crash
    \/ Tick

Spec == Init /\ [][Next]_vars

-----------------------------------------------------------------------------
(* Properties.                                                              *)

\* A token is handed out only after the row held it: whatever overlaps, fails
\* or crashes, no client ever holds a refresh token the database never knew
\* (the save of login and of refresh is awaited before the return).
DeliveredWasStored == delivered \subseteq stored

\* The next properties are about requests that do not overlap (one slot).

\* A session that is not active carries its revocation date and no current
\* token, and an active one carries no revocation date, whichever of the four
\* revocations ended it and wherever a crash cut a login in two.
RevocationIsComplete ==
    row # None =>
        IF row.isActive THEN row.revokedAt = None
        ELSE row.revokedAt # None /\ row.refreshTokenHash = None

\* The tokens refresh() would match against the row.
Matchable == {row.refreshTokenHash, row.prevRefreshTokenHash} \ {None}

\* No client holds a token newer than the current one, and the previous is not
\* newer either: neither a lost answer nor a retry with the previous token moves
\* the session back.
CurrentIsNewest ==
    row # None /\ row.refreshTokenHash # None =>
        \A t \in delivered \cup ({row.prevRefreshTokenHash} \ {None}) :
            t <= row.refreshTokenHash

\* Once a client has the answer to a refresh of token u, no token older than u
\* is accepted again: not through the previous-token window, not after a
\* logout, a new login or a crash.
SpentStaysSpent ==
    row # None => \A u \in spent, t \in Matchable : u <= t

\* Slot p runs a login.
LoggingIn(p) == proc[p].device # None /\ proc[p].token = None

\* A revoked session comes back only by a login: the end of a refresh or of a
\* logout never makes it active again.
OnlyLoginReactivates ==
    [][row # None /\ ~row.isActive /\ row'.isActive
            => \E p \in Request : LoggingIn(p)]_vars

\* The two hash columns of the row as the links of TokenChain.
Hash(c) == IF row = None THEN None ELSE row[c]

Chain == INSTANCE TokenChain
    WITH Token <- 1 .. MaxTokens,
         current <- Hash("refreshTokenHash"),
         previous <- Hash("prevRefreshTokenHash"),
         used <- stored

\* The row implements the chain: through four revocations, a login of several
\* statements, lost answers and crashes, no token older than one that has been
\* current becomes current again, and what is accepted besides the current one is
\* the token that the last rotation replaced, even when a logout and a login came
\* after it.
FollowsChain == Chain!Spec
=============================================================================
