----------------------- MODULE ElectronSessionsProofs -----------------------
(* Theorems about ElectronSessions, for every value of its constants.        *)
EXTENDS ElectronSessions, TLAPS

-----------------------------------------------------------------------------
(* Type correctness.  The type of a handler depends on where it stands: what *)
(* it has loaded, and that the row r it saves exists.                        *)

HandlerOK(h, r) ==
    /\ h.stage \in {"findPrev", "kick", "upsert", "insert"} => h.device \in Device
    /\ h.stage \in {"load", "match", "user"} => h.token \in Nat
    /\ h.stage \in {"match", "user"} => h.entity \in Row
    /\ h.stage \in {"select", "update", "insert", "sign"} => h.entity \in Entity
    /\ h.stage \in {"select", "update", "sign", "match", "user"} => r # None
    /\ h.stage = "update" =>
          /\ "prevRefreshTokenHash" \in h.dirty => h.entity.prevRefreshTokenHash # Unset
          /\ "prevRotatedAt" \in h.dirty => h.entity.prevRotatedAt # Unset
    /\ h.stage \in {"select", "update"} /\ h.after = "kick" => h.device \in Device
    /\ h.stage = "insert" => h.after = "sign"

TypeInv ==
    /\ TypeOK
    /\ \A p \in Request : HandlerOK(proc[p], row)

LEMMA RowFacts ==
    /\ None \notin Row
    /\ None \notin Entity
    /\ Row \subseteq Entity
<1> QED BY ConstantsAssumption DEF Row, Entity, Session

(* What a revocation, an activation and a rotation make is an entity.        *)
LEMMA EntityTyped ==
    ASSUME now \in Nat, NEW e \in Entity
    PROVE  /\ RevokedEntity(e) \in Entity
           /\ [RevokedEntity(e) EXCEPT !.prevRefreshTokenHash = None,
                                       !.prevRotatedAt = None] \in Entity
           /\ \A d \in Device : Activated(e, d) \in Entity
           /\ \A t \in Nat : Rotated(e, t) \in Entity
<1> QED BY DEF RevokedEntity, Activated, Rotated, Entity, Session

(* Replacing one handler keeps the type of all when the new one is typed.    *)
LEMMA BecomeTyped ==
    ASSUME TypeInv, NEW p \in Request, NEW h \in Handler, Become(p, h),
           row # None => row' # None, HandlerOK(h, row')
    PROVE  /\ proc' \in [Request -> Handler]
           /\ \A q \in Request : HandlerOK(proc'[q], row')
<1>1. proc' = [proc EXCEPT ![p] = h]
  BY DEF Become
<1>2. proc' \in [Request -> Handler]
  BY <1>1 DEF TypeInv, TypeOK
<1>3. ASSUME NEW q \in Request PROVE HandlerOK(proc'[q], row')
  <2>1. CASE q = p
    BY <1>1, <2>1 DEF TypeInv, TypeOK
  <2>2. CASE q # p
    <3>1. proc'[q] = proc[q] /\ HandlerOK(proc[q], row)
      BY <1>1, <2>2 DEF TypeInv, TypeOK
    <3> QED BY <3>1 DEF HandlerOK
  <2> QED BY <2>1, <2>2
<1> QED BY <1>2, <1>3

(* The steps that change nothing but the handler.                            *)
LEMMA StepTyped ==
    ASSUME TypeInv, NEW p \in Request, NEW h \in Handler, Become(p, h),
           HandlerOK(h, row), UNCHANGED <<row, issued, stored, delivered, spent, now>>
    PROVE  TypeInv'
<1> QED BY BecomeTyped DEF TypeInv, TypeOK

LEMMA AnswerTyped ==
    ASSUME NEW h \in Handler, NEW o \in Outcome
    PROVE  /\ Answer(h, o) \in Handler
           /\ HandlerOK(Answer(h, o), row)
<1> QED BY DEF Answer, Handler, Stage, HandlerOK

LEMMA SavingTyped ==
    ASSUME NEW h \in Handler, NEW e \in Entity, NEW k \in {"kick", "sign", "done"},
           k = "kick" => h.device \in Device, row # None
    PROVE  /\ Saving(h, e, k) \in Handler
           /\ HandlerOK(Saving(h, e, k), row)
<1> QED BY DEF Saving, Handler, Stage, HandlerOK

LEMMA IdleTyped == Idle \in Handler /\ \A r : HandlerOK(Idle, r)
<1> QED BY DEF Idle, Handler, Stage, Outcome, HandlerOK

-----------------------------------------------------------------------------

LEMMA TypeSave ==
    ASSUME TypeInv, NEW p \in Request, Save(p)
    PROVE  TypeInv'
<1> DEFINE h == proc[p]
<1>0. h \in Handler /\ HandlerOK(h, row)
  BY DEF TypeInv, TypeOK
<1>1. CASE SaveSelect(p)
  <2> DEFINE ds == Differs(row, h.entity) \cup Salted(h)
             g == [h EXCEPT !.stage = "update", !.dirty = ds]
  <2>1. h.stage = "select" /\ Become(p, g)
    BY <1>1 DEF SaveSelect
  <2>2. ds \subseteq Column
    BY DEF Differs, Salted, Column
  <2>3. g \in Handler
    BY <1>0, <2>2 DEF Handler, Stage
  <2>4. /\ "prevRefreshTokenHash" \in ds => h.entity.prevRefreshTokenHash # Unset
        /\ "prevRotatedAt" \in ds => h.entity.prevRotatedAt # Unset
    BY DEF Differs, Salted
  <2>5. HandlerOK(g, row)
    BY <1>0, <2>1, <2>2, <2>4 DEF HandlerOK, Handler
  <2> HIDE DEF g
  <2> QED BY <1>1, <2>1, <2>3, <2>5, StepTyped DEF SaveSelect
<1>2. CASE SaveUpdate(p)
  <2>1. /\ h.stage = "update" /\ Become(p, Resumed(h))
        /\ row' = Written(row, h.entity, h.dirty)
        /\ UNCHANGED <<issued, delivered, spent, now>>
        /\ stored' = stored \cup ({row'.refreshTokenHash} \ {None})
    BY <1>2 DEF SaveUpdate
  <2>2. row \in Row /\ h.entity \in Entity
    BY <1>0, <2>1 DEF HandlerOK, TypeInv, TypeOK
  <2>3. row' \in Row
    BY <1>0, <2>1, <2>2 DEF Written, HandlerOK, Row, Entity, Session
  <2>4. stored' \subseteq Nat
    BY <2>1, <2>3 DEF Row, Session, TypeInv, TypeOK
  <2>5. Resumed(h) \in Handler
    BY <1>0 DEF Resumed, Handler, Stage
  <2>6. HandlerOK(Resumed(h), row')
    BY <1>0, <2>1, <2>2, <2>3, RowFacts DEF Resumed, HandlerOK, Handler
  <2>7. /\ proc' \in [Request -> Handler]
        /\ \A q \in Request : HandlerOK(proc'[q], row')
    BY <2>1, <2>3, <2>5, <2>6, BecomeTyped, RowFacts
  <2> QED BY <2>1, <2>3, <2>4, <2>7 DEF TypeInv, TypeOK
<1>3. CASE SaveInsert(p)
  <2>1. h.stage = "insert" /\ UNCHANGED <<issued, stored, delivered, spent, now>>
    BY <1>3 DEF SaveInsert
  <2>2. CASE /\ row' = Inserted(h.entity)
             /\ Become(p, Resumed(h))
    <3>1. h.entity \in Entity /\ h.after = "sign"
      BY <1>0, <2>1 DEF HandlerOK
    <3>2. row' \in Row
      BY <2>2, <3>1 DEF Inserted, Row, Entity, Session
    <3>3. Resumed(h) \in Handler
      BY <1>0 DEF Resumed, Handler, Stage
    <3>4. HandlerOK(Resumed(h), row')
      BY <1>0, <3>1, <3>2, RowFacts DEF Resumed, HandlerOK, Handler
    <3>5. /\ proc' \in [Request -> Handler]
          /\ \A q \in Request : HandlerOK(proc'[q], row')
      BY <2>2, <3>2, <3>3, <3>4, BecomeTyped, RowFacts
    <3> QED BY <2>1, <3>2, <3>5 DEF TypeInv, TypeOK
  <2>3. CASE Become(p, Answer(h, "ERROR")) /\ UNCHANGED row
    <3>1. Answer(h, "ERROR") \in Handler /\ HandlerOK(Answer(h, "ERROR"), row)
      BY <1>0, AnswerTyped DEF Outcome
    <3> QED BY <2>1, <2>3, <3>1, StepTyped
  <2> QED BY <1>3, <2>2, <2>3 DEF SaveInsert
<1> QED BY <1>1, <1>2, <1>3 DEF Save

LEMMA TypeLogin ==
    ASSUME TypeInv, NEW p \in Request, Login(p)
    PROVE  TypeInv'
<1> DEFINE h == proc[p]
<1>0. h \in Handler /\ HandlerOK(h, row) /\ now \in Nat
  BY DEF TypeInv, TypeOK
<1>1. ASSUME NEW d \in Device, LoginStart(p, d) PROVE TypeInv'
  <2> DEFINE g == [Idle EXCEPT !.stage = "findPrev", !.device = d]
  <2>1. g \in Handler /\ HandlerOK(g, row)
    BY DEF Idle, Handler, Stage, Outcome, HandlerOK
  <2>2. Become(p, g) /\ UNCHANGED <<row, issued, stored, delivered, spent, now>>
    BY <1>1 DEF LoginStart
  <2> HIDE DEF g
  <2> QED BY <2>1, <2>2, StepTyped
<1>2. CASE LoginFindPrev(p)
  <2>1. h.stage = "findPrev" /\ UNCHANGED <<row, issued, stored, delivered, spent, now>>
    BY <1>2 DEF LoginFindPrev
  <2>2. CASE Live(row) /\ Become(p, Saving(h, RevokedEntity(row), "kick"))
    <3>1. row \in Entity /\ row # None
      BY <2>2, RowFacts DEF Live, TypeInv, TypeOK
    <3>2. h.device \in Device
      BY <1>0, <2>1 DEF HandlerOK
    <3> QED BY <1>0, <2>1, <2>2, <3>1, <3>2, EntityTyped, SavingTyped, StepTyped
  <2>3. CASE Become(p, [h EXCEPT !.stage = "upsert"])
    <3> DEFINE g == [h EXCEPT !.stage = "upsert"]
    <3>1. g \in Handler /\ HandlerOK(g, row)
      BY <1>0, <2>1 DEF Handler, Stage, HandlerOK
    <3> HIDE DEF g
    <3> QED BY <2>1, <2>3, <3>1, StepTyped DEF g
  <2> QED BY <1>2, <2>2, <2>3 DEF LoginFindPrev
<1>3. CASE LoginKick(p)
  <2> DEFINE g == [h EXCEPT !.stage = "upsert"]
  <2>1. Become(p, g) /\ UNCHANGED <<row, issued, stored, delivered, spent, now>>
    BY <1>3 DEF LoginKick
  <2>2. g \in Handler /\ HandlerOK(g, row)
    BY <1>0, <1>3 DEF LoginKick, Handler, Stage, HandlerOK
  <2> HIDE DEF g
  <2> QED BY <2>1, <2>2, StepTyped
<1>4. CASE LoginUpsert(p)
  <2>1. h.stage = "upsert" /\ UNCHANGED <<row, issued, stored, delivered, spent, now>>
    BY <1>4 DEF LoginUpsert
  <2>2. h.device \in Device
    BY <1>0, <2>1 DEF HandlerOK
  <2>3. CASE row # None /\ Become(p, Saving(h, Activated(row, h.device), "sign"))
    <3>1. row \in Entity
      BY <2>3, RowFacts DEF TypeInv, TypeOK
    <3> QED BY <1>0, <2>1, <2>2, <2>3, <3>1, EntityTyped, SavingTyped, StepTyped
  <2>4. CASE Become(p, [h EXCEPT !.stage = "insert", !.after = "sign",
                                 !.entity = Created(h.device)])
    <3> DEFINE g == [h EXCEPT !.stage = "insert", !.after = "sign",
                              !.entity = Created(h.device)]
    <3>1. Created(h.device) \in Entity
      BY <1>0, <2>2 DEF Created, Entity, Session
    <3>2. g \in Handler /\ HandlerOK(g, row)
      BY <1>0, <2>2, <3>1 DEF Handler, Stage, HandlerOK
    <3> HIDE DEF g
    <3> QED BY <2>1, <2>4, <3>2, StepTyped DEF g
  <2> QED BY <1>4, <2>3, <2>4 DEF LoginUpsert
<1>5. CASE LoginSign(p)
  <2>0. PICK t \in 1 .. MaxTokens :
            /\ Sign(t)
            /\ Become(p, Saving([h EXCEPT !.fresh = t, !.outcome = "ok"],
                                [h.entity EXCEPT !.refreshTokenHash = t,
                                                 !.lastUsedAt = now],
                                "done"))
    BY <1>5 DEF LoginSign
  <2> DEFINE g == [h EXCEPT !.fresh = t, !.outcome = "ok"]
             e == [h.entity EXCEPT !.refreshTokenHash = t, !.lastUsedAt = now]
  <2>1. /\ h.stage = "sign" /\ Become(p, Saving(g, e, "done"))
        /\ UNCHANGED <<row, stored, delivered, spent, now>>
    BY <1>5, <2>0 DEF LoginSign
  <2>2. t \in Nat
    BY ConstantsAssumption
  <2>3. g \in Handler
    BY <1>0, <2>2 DEF Handler, Outcome
  <2>4. h.entity \in Entity /\ row # None
    BY <1>0, <2>1 DEF HandlerOK
  <2>5. e \in Entity
    BY <1>0, <2>2, <2>4 DEF Entity, Session
  <2>6. issued' \in Seq(Nat)
    BY <1>0, <2>0 DEF Sign, TypeInv, TypeOK
  <2> HIDE DEF g, e
  <2>7. Saving(g, e, "done") \in Handler /\ HandlerOK(Saving(g, e, "done"), row')
    BY <2>1, <2>3, <2>4, <2>5, SavingTyped
  <2>8. /\ proc' \in [Request -> Handler]
        /\ \A q \in Request : HandlerOK(proc'[q], row')
    BY <2>1, <2>4, <2>7, BecomeTyped
  <2> QED BY <2>1, <2>6, <2>8 DEF TypeInv, TypeOK
<1> QED BY <1>1, <1>2, <1>3, <1>4, <1>5 DEF Login

LEMMA TypeRefresh ==
    ASSUME TypeInv, NEW p \in Request, Refresh(p)
    PROVE  TypeInv'
<1> DEFINE h == proc[p]
<1>0. h \in Handler /\ HandlerOK(h, row) /\ now \in Nat
  BY DEF TypeInv, TypeOK
<1>1. ASSUME NEW t \in delivered, NEW d \in Device \cup {None}, RefreshStart(p, t, d)
      PROVE  TypeInv'
  <2> DEFINE g == [Idle EXCEPT !.stage = "load", !.token = t, !.device = d]
  <2>1. t \in Nat
    BY DEF TypeInv, TypeOK
  <2>2. g \in Handler /\ HandlerOK(g, row)
    BY <2>1 DEF Idle, Handler, Stage, Outcome, HandlerOK
  <2>3. Become(p, g) /\ UNCHANGED <<row, issued, stored, delivered, spent, now>>
    BY <1>1 DEF RefreshStart
  <2> HIDE DEF g
  <2> QED BY <2>2, <2>3, StepTyped
<1>2. CASE RefreshLoad(p)
  <2>1. h.stage = "load" /\ UNCHANGED <<row, issued, stored, delivered, spent, now>>
    BY <1>2 DEF RefreshLoad
  <2>2. CASE Become(p, Answer(h, "SESSION_REVOKED"))
    BY <1>0, <2>1, <2>2, AnswerTyped, StepTyped DEF Outcome
  <2>3. CASE /\ Live(row)
             /\ Become(p, Saving([h EXCEPT !.outcome = "DEVICE_MISMATCH"],
                                 RevokedEntity(row), "done"))
    <3> DEFINE g == [h EXCEPT !.outcome = "DEVICE_MISMATCH"]
    <3>1. g \in Handler
      BY <1>0 DEF Handler, Outcome
    <3>2. row \in Entity /\ row # None
      BY <2>3, RowFacts DEF Live, TypeInv, TypeOK
    <3> HIDE DEF g
    <3>3. /\ Saving(g, RevokedEntity(row), "done") \in Handler
          /\ HandlerOK(Saving(g, RevokedEntity(row), "done"), row)
      BY <1>0, <3>1, <3>2, EntityTyped, SavingTyped
    <3> QED BY <2>1, <2>3, <3>3, StepTyped DEF g
  <2>4. CASE Live(row) /\ Become(p, [h EXCEPT !.stage = "match", !.entity = row])
    <3> DEFINE g == [h EXCEPT !.stage = "match", !.entity = row]
    <3>1. row \in Row /\ row \in Entity /\ row # None
      BY <2>4, RowFacts DEF Live, TypeInv, TypeOK
    <3>2. g \in Handler /\ HandlerOK(g, row)
      BY <1>0, <2>1, <3>1 DEF Handler, Stage, HandlerOK
    <3> HIDE DEF g
    <3> QED BY <2>1, <2>4, <3>2, StepTyped DEF g
  <2> QED BY <1>2, <2>2, <2>3, <2>4 DEF RefreshLoad
<1>3. CASE RefreshMatch(p)
  <2>1. /\ h.stage = "match" /\ UNCHANGED <<row, issued, stored, delivered, spent, now>>
        /\ \/ Become(p, [h EXCEPT !.stage = "user"])
           \/ Become(p, Answer(h, "REFRESH_STALE"))
           \/ Become(p, Saving([h EXCEPT !.outcome = "INVALID_REFRESH"],
                               [RevokedEntity(h.entity) EXCEPT
                                    !.prevRefreshTokenHash = None,
                                    !.prevRotatedAt = None],
                               "done"))
    BY <1>3 DEF RefreshMatch
  <2>2. h.entity \in Row /\ h.entity \in Entity /\ h.token \in Nat /\ row # None
    BY <1>0, <2>1, RowFacts DEF HandlerOK
  <2>3. CASE Become(p, [h EXCEPT !.stage = "user"])
    <3> DEFINE g == [h EXCEPT !.stage = "user"]
    <3>1. g \in Handler /\ HandlerOK(g, row)
      BY <1>0, <2>2 DEF Handler, Stage, HandlerOK
    <3> HIDE DEF g
    <3> QED BY <2>1, <2>3, <3>1, StepTyped DEF g
  <2>4. CASE Become(p, Answer(h, "REFRESH_STALE"))
    BY <1>0, <2>1, <2>4, AnswerTyped, StepTyped DEF Outcome
  <2>5. CASE Become(p, Saving([h EXCEPT !.outcome = "INVALID_REFRESH"],
                              [RevokedEntity(h.entity) EXCEPT
                                    !.prevRefreshTokenHash = None,
                                    !.prevRotatedAt = None],
                              "done"))
    <3> DEFINE g == [h EXCEPT !.outcome = "INVALID_REFRESH"]
               e == [RevokedEntity(h.entity) EXCEPT !.prevRefreshTokenHash = None,
                                                    !.prevRotatedAt = None]
    <3>1. g \in Handler
      BY <1>0 DEF Handler, Outcome
    <3>2. e \in Entity
      BY <1>0, <2>2, EntityTyped
    <3> HIDE DEF g, e
    <3>3. Saving(g, e, "done") \in Handler /\ HandlerOK(Saving(g, e, "done"), row)
      BY <2>2, <3>1, <3>2, SavingTyped
    <3> QED BY <2>1, <2>5, <3>3, StepTyped DEF g, e
  <2> QED BY <2>1, <2>3, <2>4, <2>5
<1>4. CASE RefreshRotate(p)
  <2>0. PICK t \in 1 .. MaxTokens :
            /\ Sign(t)
            /\ Become(p, Saving([h EXCEPT !.fresh = t, !.outcome = "ok"],
                                Rotated(h.entity, t), "done"))
    BY <1>4 DEF RefreshRotate
  <2> DEFINE g == [h EXCEPT !.fresh = t, !.outcome = "ok"]
             e == Rotated(h.entity, t)
  <2>1. /\ h.stage = "user" /\ Become(p, Saving(g, e, "done"))
        /\ UNCHANGED <<row, stored, delivered, spent, now>>
    BY <1>4, <2>0 DEF RefreshRotate
  <2>2. t \in Nat
    BY ConstantsAssumption
  <2>3. g \in Handler
    BY <1>0, <2>2 DEF Handler, Outcome
  <2>4. h.entity \in Entity /\ row # None
    BY <1>0, <2>1, RowFacts DEF HandlerOK
  <2>5. e \in Entity
    BY <1>0, <2>2, <2>4, EntityTyped
  <2>6. issued' \in Seq(Nat)
    BY <1>0, <2>0 DEF Sign, TypeInv, TypeOK
  <2> HIDE DEF g, e
  <2>7. Saving(g, e, "done") \in Handler /\ HandlerOK(Saving(g, e, "done"), row')
    BY <2>1, <2>3, <2>4, <2>5, SavingTyped
  <2>8. /\ proc' \in [Request -> Handler]
        /\ \A q \in Request : HandlerOK(proc'[q], row')
    BY <2>1, <2>4, <2>7, BecomeTyped
  <2> QED BY <2>1, <2>6, <2>8 DEF TypeInv, TypeOK
<1>5. CASE RefreshNoUser(p)
  BY <1>0, <1>5, AnswerTyped, StepTyped DEF RefreshNoUser, Outcome
<1> QED BY <1>1, <1>2, <1>3, <1>4, <1>5 DEF Refresh

LEMMA TypeLogout ==
    ASSUME TypeInv, NEW p \in Request, Logout(p)
    PROVE  TypeInv'
<1> DEFINE h == proc[p]
<1>0. h \in Handler /\ HandlerOK(h, row) /\ now \in Nat
  BY DEF TypeInv, TypeOK
<1>1. CASE LogoutStart(p)
  <2> DEFINE g == [Idle EXCEPT !.stage = "logout"]
  <2>1. g \in Handler /\ HandlerOK(g, row)
    BY DEF Idle, Handler, Stage, Outcome, HandlerOK
  <2>2. Become(p, g) /\ UNCHANGED <<row, issued, stored, delivered, spent, now>>
    BY <1>1 DEF LogoutStart
  <2> HIDE DEF g
  <2> QED BY <2>1, <2>2, StepTyped
<1>2. CASE LogoutLoad(p)
  <2>1. UNCHANGED <<row, issued, stored, delivered, spent, now>>
    BY <1>2 DEF LogoutLoad
  <2>2. CASE Live(row) /\ Become(p, Saving(h, RevokedEntity(row), "done"))
    <3>1. row \in Entity /\ row # None
      BY <2>2, RowFacts DEF Live, TypeInv, TypeOK
    <3> QED BY <1>0, <2>1, <2>2, <3>1, EntityTyped, SavingTyped, StepTyped
  <2>3. CASE Become(p, Answer(h, "ok"))
    BY <1>0, <2>1, <2>3, AnswerTyped, StepTyped DEF Outcome
  <2> QED BY <1>2, <2>2, <2>3 DEF LogoutLoad
<1> QED BY <1>1, <1>2 DEF Logout

LEMMA TypeRest ==
    ASSUME TypeInv,
           \/ \E p \in Request : Reply(p) \/ LoseReply(p)
           \/ Crash
           \/ Tick
           \/ UNCHANGED vars
    PROVE  TypeInv'
<1>1. ASSUME NEW p \in Request, Reply(p) PROVE TypeInv'
  <2>1. Become(p, Idle) /\ UNCHANGED <<row, issued, stored, now>>
    BY <1>1 DEF Reply
  <2>2. proc[p].fresh \in Nat \cup {None} /\ proc[p].token \in Nat \cup {None}
    BY DEF TypeInv, TypeOK, Handler
  <2>3. delivered' \subseteq Nat /\ spent' \subseteq Nat
    BY <1>1, <2>2 DEF Reply, Granted, TypeInv, TypeOK
  <2> QED BY <2>1, <2>3, IdleTyped, BecomeTyped DEF TypeInv, TypeOK
<1>2. ASSUME NEW p \in Request, LoseReply(p) PROVE TypeInv'
  BY <1>2, IdleTyped, StepTyped DEF LoseReply
<1>3. CASE Crash
  BY <1>3, IdleTyped DEF Crash, TypeInv, TypeOK
<1>4. CASE Tick
  BY <1>4 DEF Tick, TypeInv, TypeOK
<1>5. CASE UNCHANGED vars
  BY <1>5 DEF vars, TypeInv, TypeOK
<1> QED BY <1>1, <1>2, <1>3, <1>4, <1>5

LEMMA TypeInit == Init => TypeInv
<1> SUFFICES ASSUME Init PROVE TypeInv
  OBVIOUS
<1>1. TypeOK
  BY IdleTyped DEF Init, TypeOK
<1> QED BY <1>1, IdleTyped DEF Init, TypeInv

LEMMA TypeNext == TypeInv /\ [Next]_vars => TypeInv'
BY TypeSave, TypeLogin, TypeRefresh, TypeLogout, TypeRest DEF Next

LEMMA TypeInvHolds == Spec => []TypeInv
BY TypeInit, TypeNext, PTL DEF Spec

\* Every reachable state is typed, in particular no UPDATE writes a property
\* the entity lacks and no handler saves a session that does not exist.
THEOREM TypeCorrect == Spec => []TypeOK
<1>1. TypeInv => TypeOK
  BY DEF TypeInv
<1> QED BY <1>1, TypeInvHolds, PTL

-----------------------------------------------------------------------------
(* No client holds a token the database never knew.  The argument: a hash    *)
(* just computed differs from any stored one, so the save of a signed token  *)
(* writes its column, whatever other requests wrote in between; and the      *)
(* answer waits for that save.                                               *)

\* The handler saves a token it has signed.
Pending(h) == h.fresh # None /\ h.stage \in {"select", "update"}

TokensOK(h) ==
    /\ h.entity # None => h.entity.refreshTokenHash \in Token \cup {None}
    /\ h.fresh \in Token \cup {None}
    /\ h.fresh # None => h.stage \in {"select", "update", "done"}
    /\ h.stage \in {"select", "update"} /\ h.after # "done" => h.fresh = None
    /\ Pending(h) =>
          /\ h.outcome = "ok"
          /\ h.entity.refreshTokenHash = h.fresh
          /\ h.stage = "update" => "refreshTokenHash" \in h.dirty
    /\ h.stage = "done" /\ h.outcome = "ok" /\ h.fresh # None => h.fresh \in stored

TokenInv ==
    /\ row # None => row.refreshTokenHash \in Token \cup {None}
    /\ \A p \in Request : TokensOK(proc[p])
    /\ DeliveredWasStored

(* A step of one handler that leaves the row alone and signs nothing.        *)
LEMMA TokenQuiet ==
    ASSUME TypeInv, TokenInv, NEW p \in Request, NEW g \in Handler, Become(p, g),
           UNCHANGED <<row, issued, stored, delivered>>, TokensOK(g)
    PROVE  TokenInv'
<1>1. proc' = [proc EXCEPT ![p] = g] /\ proc \in [Request -> Handler]
  BY DEF Become, TypeInv, TypeOK
<1>2. Token' = Token
  BY DEF Token
<1>3. (row # None => row.refreshTokenHash \in Token \cup {None})' /\ DeliveredWasStored'
  BY <1>2 DEF TokenInv, DeliveredWasStored
<1>4. ASSUME NEW q \in Request PROVE TokensOK(proc[q])'
  <2>1. TokensOK(proc'[q])
    BY <1>1 DEF TokenInv
  <2> QED BY <1>2, <2>1 DEF TokensOK, Pending
<1> QED BY <1>3, <1>4 DEF TokenInv

LEMMA TokenSaveSelect ==
    ASSUME TypeInv, TokenInv, NEW p \in Request, SaveSelect(p)
    PROVE  TokenInv'
<1> DEFINE h == proc[p]
           ds == Differs(row, h.entity) \cup Salted(h)
           g == [h EXCEPT !.stage = "update", !.dirty = ds]
<1>1. /\ h.stage = "select" /\ Become(p, g)
      /\ UNCHANGED <<row, issued, stored, delivered, spent, now>>
  BY DEF SaveSelect
<1>2. h \in Handler /\ TokensOK(h)
  BY DEF TypeInv, TypeOK, TokenInv
<1>3. ds \subseteq Column
  BY DEF Differs, Salted, Column
<1>4. /\ g \in Handler /\ g.entity = h.entity /\ g.fresh = h.fresh
      /\ g.stage = "update" /\ g.dirty = ds
      /\ g.after = h.after /\ g.outcome = h.outcome
  BY <1>2, <1>3 DEF Handler, Stage
<1>5. Pending(g) => Pending(h)
  BY <1>1, <1>4 DEF Pending
<1>6. h.fresh # None => "refreshTokenHash" \in ds
  BY DEF Salted
<1> HIDE DEF g, ds
<1>7. TokensOK(g)
  BY <1>1, <1>2, <1>4, <1>5, <1>6 DEF TokensOK, Pending
<1> QED BY <1>1, <1>4, <1>7, TokenQuiet

LEMMA TokenSaveUpdate ==
    ASSUME TypeInv, TokenInv, NEW p \in Request, SaveUpdate(p)
    PROVE  TokenInv'
<1> DEFINE h == proc[p]
           g == Resumed(h)
<1>1. /\ h.stage = "update"
      /\ row' = Written(row, h.entity, h.dirty)
      /\ stored' = stored \cup ({row'.refreshTokenHash} \ {None})
      /\ Become(p, g)
      /\ UNCHANGED <<issued, delivered, spent, now>>
  BY DEF SaveUpdate
<1>2. h \in Handler /\ HandlerOK(h, row) /\ TokensOK(h)
  BY DEF TypeInv, TypeOK, TokenInv
<1>3. Token' = Token /\ proc' = [proc EXCEPT ![p] = g] /\ proc \in [Request -> Handler]
  BY <1>1 DEF Token, Become, TypeInv, TypeOK
<1>4. h.entity # None /\ row # None /\ h.entity \in Entity /\ row \in Row
  BY <1>1, <1>2, RowFacts DEF HandlerOK, TypeInv, TypeOK
<1>5. \/ row'.refreshTokenHash = row.refreshTokenHash
      \/ row'.refreshTokenHash = h.entity.refreshTokenHash
  BY <1>1 DEF Written
<1>6. row'.refreshTokenHash \in Token \cup {None}
  BY <1>2, <1>4, <1>5 DEF TokenInv, TokensOK
<1>7. Pending(h) => row'.refreshTokenHash = h.fresh /\ h.fresh \in stored'
  BY <1>1, <1>2 DEF Written, TokensOK, Pending
<1>8. /\ g.stage = h.after /\ g.fresh = h.fresh /\ g.outcome = h.outcome
      /\ g.entity \in {None, h.entity} /\ g.stage \notin {"select", "update"}
  BY <1>2 DEF Resumed, Handler
<1> HIDE DEF g
<1>9. ASSUME NEW q \in Request PROVE TokensOK(proc[q])'
  <2>1. CASE q = p
    <3>1. proc'[q] = g
      BY <1>3, <2>1
    <3> QED BY <1>1, <1>2, <1>3, <1>7, <1>8, <3>1 DEF TokensOK, Pending
  <2>2. CASE q # p
    <3>1. proc'[q] = proc[q] /\ TokensOK(proc[q])
      BY <1>3, <2>2 DEF TokenInv
    <3>2. stored \subseteq stored'
      BY <1>1
    <3> QED BY <1>3, <3>1, <3>2 DEF TokensOK, Pending
  <2> QED BY <2>1, <2>2
<1> QED BY <1>1, <1>3, <1>6, <1>9 DEF TokenInv, DeliveredWasStored

LEMMA TokenSaveInsert ==
    ASSUME TypeInv, TokenInv, NEW p \in Request, SaveInsert(p)
    PROVE  TokenInv'
<1> DEFINE h == proc[p]
<1>1. h.stage = "insert" /\ UNCHANGED <<issued, stored, delivered, spent, now>>
  BY DEF SaveInsert
<1>2. h \in Handler /\ HandlerOK(h, row) /\ TokensOK(h)
  BY DEF TypeInv, TypeOK, TokenInv
<1>3. h.fresh = None /\ h.after = "sign" /\ h.entity # None /\ h.entity \in Entity
  BY <1>1, <1>2, RowFacts DEF TokensOK, HandlerOK
<1>4. CASE row = None /\ row' = Inserted(h.entity) /\ Become(p, Resumed(h))
  <2> DEFINE g == Resumed(h)
  <2>1. /\ g.stage = "sign" /\ g.fresh = None /\ g.entity = h.entity
    BY <1>2, <1>3 DEF Resumed, Handler
  <2>2. /\ Token' = Token /\ proc' = [proc EXCEPT ![p] = g]
        /\ proc \in [Request -> Handler]
    BY <1>1, <1>4 DEF Token, Become, TypeInv, TypeOK
  <2>3. row'.refreshTokenHash = h.entity.refreshTokenHash
    BY <1>3, <1>4 DEF Inserted, Entity, Session
  <2> HIDE DEF g
  <2>4. ASSUME NEW q \in Request PROVE TokensOK(proc[q])'
    <3>1. CASE q = p
      <4>1. proc'[q] = g
        BY <2>2, <3>1
      <4> QED BY <1>1, <1>2, <2>1, <2>2, <4>1 DEF TokensOK, Pending
    <3>2. CASE q # p
      <4>1. proc'[q] = proc[q] /\ TokensOK(proc[q])
        BY <2>2, <3>2 DEF TokenInv
      <4> QED BY <1>1, <2>2, <4>1 DEF TokensOK, Pending
    <3> QED BY <3>1, <3>2
  <2>5. row'.refreshTokenHash \in Token \cup {None}
    BY <1>2, <1>3, <2>3 DEF TokensOK
  <2> QED BY <1>1, <2>2, <2>4, <2>5 DEF TokenInv, DeliveredWasStored
<1>5. CASE Become(p, Answer(h, "ERROR")) /\ UNCHANGED row
  <2> DEFINE g == Answer(h, "ERROR")
  <2>1. g \in Handler
    BY <1>2, AnswerTyped DEF Outcome
  <2>2. g.stage = "done" /\ g.fresh = None /\ g.entity = None
    BY <1>2, <1>3 DEF Answer, Handler
  <2>3. TokensOK(g)
    BY <1>2, <2>2 DEF TokensOK, Pending
  <2> HIDE DEF g
  <2> QED BY <1>1, <1>5, <2>1, <2>2, <2>3, TokenQuiet DEF Pending, g
<1> QED BY <1>4, <1>5 DEF SaveInsert

(* A signed token is the newest, whether it is new or of the same second.    *)
LEMMA SignedNewest ==
    ASSUME TypeInv, NEW t \in 1 .. MaxTokens, Sign(t)
    PROVE  /\ t \in Nat /\ t # None /\ t = Len(issued') /\ t \in Token'
           /\ Token \subseteq Token'
           /\ \A u \in Token' : u \in Nat /\ u <= t
           /\ Len(issued') <= MaxTokens
<1>1. issued \in Seq(Nat) /\ now \in Nat /\ MaxTokens \in Nat
  BY ConstantsAssumption DEF TypeInv, TypeOK
<1>2. t \in Nat /\ t # None /\ t >= 1 /\ t <= MaxTokens /\ Len(issued) \in Nat
  BY <1>1, ConstantsAssumption
<1>3. t = Len(issued') /\ Len(issued) <= t
  BY <1>1, <1>2 DEF Sign
<1>4. Token' = 1 .. t
  BY <1>3 DEF Token
<1> QED BY <1>2, <1>3, <1>4 DEF Token

LEMMA TokenSign ==
    ASSUME TypeInv, TokenInv, NEW p \in Request, NEW t \in 1 .. MaxTokens, Sign(t),
           NEW g \in Handler, Become(p, g), UNCHANGED <<row, stored, delivered>>,
           g.stage = "select", g.after = "done", g.outcome = "ok", g.fresh = t,
           g.entity.refreshTokenHash = t
    PROVE  TokenInv'
<1>1. proc' = [proc EXCEPT ![p] = g] /\ proc \in [Request -> Handler]
  BY DEF Become, TypeInv, TypeOK
<1>2. t # None /\ t \in Token' /\ Token \subseteq Token'
  BY SignedNewest
<1>3. ASSUME NEW q \in Request PROVE TokensOK(proc[q])'
  <2>1. CASE q = p
    <3>1. proc'[q] = g
      BY <1>1, <2>1
    <3> QED BY <1>2, <3>1 DEF TokensOK, Pending
  <2>2. CASE q # p
    <3>1. proc'[q] = proc[q] /\ TokensOK(proc[q])
      BY <1>1, <2>2 DEF TokenInv
    <3> QED BY <1>2, <3>1 DEF TokensOK, Pending
  <2> QED BY <2>1, <2>2
<1>4. (row # None => row.refreshTokenHash \in Token \cup {None})'
  BY <1>2 DEF TokenInv
<1> QED BY <1>3, <1>4 DEF TokenInv, DeliveredWasStored

(* The steps between two database calls that neither save nor sign: the      *)
(* handler keeps no token but those of the row it has just read.             *)
LEMMA TokenLogin ==
    ASSUME TypeInv, TokenInv, NEW p \in Request, Login(p)
    PROVE  TokenInv'
<1> DEFINE h == proc[p]
<1>0. h \in Handler /\ HandlerOK(h, row) /\ TokensOK(h) /\ now \in Nat
  BY DEF TypeInv, TypeOK, TokenInv
<1>1. ASSUME NEW d \in Device, LoginStart(p, d) PROVE TokenInv'
  <2> DEFINE g == [Idle EXCEPT !.stage = "findPrev", !.device = d]
  <2>1. /\ g \in Handler /\ g.entity = None /\ g.fresh = None /\ g.stage = "findPrev"
    BY DEF Idle, Handler, Stage, Outcome
  <2>2. Become(p, g) /\ UNCHANGED <<row, issued, stored, delivered>>
    BY <1>1 DEF LoginStart
  <2> HIDE DEF g
  <2>3. TokensOK(g)
    BY <2>1 DEF TokensOK, Pending
  <2> QED BY <2>1, <2>2, <2>3, TokenQuiet DEF Pending
<1>2. CASE LoginFindPrev(p)
  <2>1. /\ h.stage = "findPrev" /\ h.fresh = None
        /\ UNCHANGED <<row, issued, stored, delivered>>
    BY <1>0, <1>2 DEF LoginFindPrev, TokensOK
  <2>2. CASE Live(row) /\ Become(p, Saving(h, RevokedEntity(row), "kick"))
    <3> DEFINE g == Saving(h, RevokedEntity(row), "kick")
    <3>1. row \in Entity /\ row # None /\ row \in Row
      BY <2>2, RowFacts DEF Live, TypeInv, TypeOK
    <3>2. g \in Handler
      BY <1>0, <2>1, <3>1, EntityTyped, SavingTyped DEF HandlerOK
    <3>3. g.fresh = None /\ g.stage = "select" /\ g.entity.refreshTokenHash = None
      BY <1>0, <2>1, <3>1 DEF Saving, RevokedEntity, Handler, Row, Session
    <3>4. TokensOK(g)
      BY <3>3 DEF TokensOK, Pending
    <3> HIDE DEF g
    <3> QED BY <2>1, <2>2, <3>2, <3>3, <3>4, TokenQuiet DEF Pending, g
  <2>3. CASE Become(p, [h EXCEPT !.stage = "upsert"])
    <3> DEFINE g == [h EXCEPT !.stage = "upsert"]
    <3>1. /\ g \in Handler /\ g.stage = "upsert"
          /\ g.fresh = None /\ g.entity = h.entity
      BY <1>0, <2>1 DEF Handler, Stage
    <3> HIDE DEF g
    <3>2. TokensOK(g)
      BY <1>0, <3>1 DEF TokensOK, Pending
    <3> QED BY <2>1, <2>3, <3>1, <3>2, TokenQuiet DEF Pending, g
  <2> QED BY <1>2, <2>2, <2>3 DEF LoginFindPrev
<1>3. CASE LoginKick(p)
  <2> DEFINE g == [h EXCEPT !.stage = "upsert"]
  <2>1. /\ h.stage = "kick" /\ h.fresh = None /\ Become(p, g)
        /\ UNCHANGED <<row, issued, stored, delivered>>
    BY <1>0, <1>3 DEF LoginKick, TokensOK
  <2>2. /\ g \in Handler /\ g.stage = "upsert"
        /\ g.fresh = None /\ g.entity = h.entity
    BY <1>0, <2>1 DEF Handler, Stage
  <2> HIDE DEF g
  <2>3. TokensOK(g)
    BY <1>0, <2>2 DEF TokensOK, Pending
  <2> QED BY <2>1, <2>2, <2>3, TokenQuiet DEF Pending
<1>4. CASE LoginUpsert(p)
  <2>1. /\ h.stage = "upsert" /\ h.fresh = None
        /\ UNCHANGED <<row, issued, stored, delivered>>
    BY <1>0, <1>4 DEF LoginUpsert, TokensOK
  <2>2. h.device \in Device
    BY <1>0, <2>1 DEF HandlerOK
  <2>3. CASE row # None /\ Become(p, Saving(h, Activated(row, h.device), "sign"))
    <3> DEFINE g == Saving(h, Activated(row, h.device), "sign")
    <3>1. row \in Entity /\ row \in Row
      BY <2>3, RowFacts DEF TypeInv, TypeOK
    <3>2. g \in Handler
      BY <1>0, <2>2, <2>3, <3>1, EntityTyped, SavingTyped
    <3>3. /\ g.fresh = None /\ g.stage = "select" /\ g.after = "sign"
          /\ g.entity.refreshTokenHash = row.refreshTokenHash
      BY <1>0, <2>1, <3>1 DEF Saving, Activated, Handler, Row, Session
    <3>4. TokensOK(g)
      BY <2>3, <3>3 DEF TokensOK, Pending, TokenInv
    <3> HIDE DEF g
    <3> QED BY <2>1, <2>3, <3>2, <3>3, <3>4, TokenQuiet DEF Pending, g
  <2>4. CASE Become(p, [h EXCEPT !.stage = "insert", !.after = "sign",
                                 !.entity = Created(h.device)])
    <3> DEFINE g == [h EXCEPT !.stage = "insert", !.after = "sign",
                              !.entity = Created(h.device)]
    <3>1. Created(h.device) \in Entity
      BY <1>0, <2>2 DEF Created, Entity, Session
    <3>2. /\ g \in Handler /\ g.fresh = None /\ g.stage = "insert"
          /\ g.entity.refreshTokenHash = None
      BY <1>0, <2>1, <3>1 DEF Handler, Stage, Created
    <3> HIDE DEF g
    <3>3. TokensOK(g)
      BY <3>2 DEF TokensOK, Pending
    <3> QED BY <2>1, <2>4, <3>2, <3>3, TokenQuiet DEF Pending, g
  <2> QED BY <1>4, <2>3, <2>4 DEF LoginUpsert
<1>5. CASE LoginSign(p)
  <2>0. PICK t \in 1 .. MaxTokens :
            /\ Sign(t)
            /\ Become(p, Saving([h EXCEPT !.fresh = t, !.outcome = "ok"],
                                [h.entity EXCEPT !.refreshTokenHash = t,
                                                 !.lastUsedAt = now],
                                "done"))
    BY <1>5 DEF LoginSign
  <2> DEFINE e == [h.entity EXCEPT !.refreshTokenHash = t, !.lastUsedAt = now]
             g == Saving([h EXCEPT !.fresh = t, !.outcome = "ok"], e, "done")
  <2>1. /\ h.stage = "sign" /\ Become(p, g) /\ Sign(t)
        /\ UNCHANGED <<row, stored, delivered>>
    BY <1>5, <2>0 DEF LoginSign
  <2>2. t \in Nat
    BY ConstantsAssumption
  <2>3. h.entity \in Entity
    BY <1>0, <2>1 DEF HandlerOK
  <2>4. e \in Entity /\ e.refreshTokenHash = t
    BY <1>0, <2>2, <2>3 DEF Entity, Session
  <2> HIDE DEF e
  <2>5. /\ g \in Handler /\ g.stage = "select" /\ g.after = "done"
        /\ g.outcome = "ok" /\ g.fresh = t /\ g.entity = e
    BY <1>0, <2>2, <2>4 DEF Saving, Handler, Stage, Outcome
  <2> HIDE DEF g
  <2> QED BY <2>1, <2>4, <2>5, TokenSign
<1> QED BY <1>1, <1>2, <1>3, <1>4, <1>5 DEF Login

LEMMA TokenRefresh ==
    ASSUME TypeInv, TokenInv, NEW p \in Request, Refresh(p)
    PROVE  TokenInv'
<1> DEFINE h == proc[p]
<1>0. h \in Handler /\ HandlerOK(h, row) /\ TokensOK(h) /\ now \in Nat
  BY DEF TypeInv, TypeOK, TokenInv
<1>1. ASSUME NEW o \in Outcome, h.fresh = None, Become(p, Answer(h, o)),
             UNCHANGED <<row, issued, stored, delivered>>
      PROVE  TokenInv'
  <2> DEFINE g == Answer(h, o)
  <2>1. g \in Handler
    BY <1>0, AnswerTyped
  <2>2. g.fresh = None /\ g.entity = None
    BY <1>0, <1>1 DEF Answer, Handler
  <2> HIDE DEF g
  <2>3. TokensOK(g)
    BY <2>1, <2>2 DEF TokensOK, Pending
  <2> QED BY <1>1, <2>1, <2>2, <2>3, TokenQuiet DEF Pending, g
<1>2. ASSUME NEW t \in delivered, NEW d \in Device \cup {None}, RefreshStart(p, t, d)
      PROVE  TokenInv'
  <2> DEFINE g == [Idle EXCEPT !.stage = "load", !.token = t, !.device = d]
  <2>1. t \in Nat
    BY DEF TypeInv, TypeOK
  <2>2. /\ g \in Handler /\ g.entity = None /\ g.fresh = None /\ g.stage = "load"
    BY <2>1 DEF Idle, Handler, Stage, Outcome
  <2>3. Become(p, g) /\ UNCHANGED <<row, issued, stored, delivered>>
    BY <1>2 DEF RefreshStart
  <2> HIDE DEF g
  <2>4. TokensOK(g)
    BY <2>2 DEF TokensOK, Pending
  <2> QED BY <2>2, <2>3, <2>4, TokenQuiet DEF Pending
<1>3. CASE RefreshLoad(p)
  <2>1. /\ h.stage = "load" /\ h.fresh = None
        /\ UNCHANGED <<row, issued, stored, delivered>>
    BY <1>0, <1>3 DEF RefreshLoad, TokensOK
  <2>2. CASE Become(p, Answer(h, "SESSION_REVOKED"))
    BY <1>1, <2>1, <2>2 DEF Outcome
  <2>3. CASE /\ Live(row)
             /\ Become(p, Saving([h EXCEPT !.outcome = "DEVICE_MISMATCH"],
                                 RevokedEntity(row), "done"))
    <3> DEFINE f == [h EXCEPT !.outcome = "DEVICE_MISMATCH"]
               g == Saving(f, RevokedEntity(row), "done")
    <3>1. row \in Entity /\ row # None /\ row \in Row
      BY <2>3, RowFacts DEF Live, TypeInv, TypeOK
    <3>2. f \in Handler /\ f.fresh = None
      BY <1>0, <2>1 DEF Handler, Outcome
    <3> HIDE DEF f
    <3>3. g \in Handler
      BY <1>0, <3>1, <3>2, EntityTyped, SavingTyped
    <3>4. g.fresh = None /\ g.entity.refreshTokenHash = None
      BY <3>1, <3>2 DEF Saving, RevokedEntity, Handler, Row, Session
    <3>5. g.stage = "select" /\ g.after = "done"
      BY <3>2 DEF Saving, Handler
    <3> HIDE DEF g
    <3>6. TokensOK(g)
      BY <3>4, <3>5 DEF TokensOK, Pending
    <3> QED BY <2>1, <2>3, <3>3, <3>4, <3>6, TokenQuiet DEF Pending, f, g
  <2>4. CASE Live(row) /\ Become(p, [h EXCEPT !.stage = "match", !.entity = row])
    <3> DEFINE g == [h EXCEPT !.stage = "match", !.entity = row]
    <3>1. row \in Row /\ row \in Entity /\ row # None
      BY <2>4, RowFacts DEF Live, TypeInv, TypeOK
    <3>2. /\ g \in Handler /\ g.stage = "match" /\ g.fresh = None /\ g.entity = row
      BY <1>0, <2>1, <3>1 DEF Handler, Stage
    <3> HIDE DEF g
    <3>3. TokensOK(g)
      BY <3>1, <3>2 DEF TokensOK, Pending, TokenInv
    <3> QED BY <2>1, <2>4, <3>1, <3>2, <3>3, TokenQuiet DEF Pending, g
  <2> QED BY <1>3, <2>2, <2>3, <2>4 DEF RefreshLoad
<1>4. CASE RefreshMatch(p)
  <2> DEFINE e == [RevokedEntity(h.entity) EXCEPT !.prevRefreshTokenHash = None,
                                                  !.prevRotatedAt = None]
             f == [h EXCEPT !.outcome = "INVALID_REFRESH"]
  <2>1. /\ h.stage = "match" /\ h.fresh = None
        /\ UNCHANGED <<row, issued, stored, delivered>>
        /\ \/ Become(p, [h EXCEPT !.stage = "user"])
           \/ Become(p, Answer(h, "REFRESH_STALE"))
           \/ Become(p, Saving(f, e, "done"))
    BY <1>0, <1>4 DEF RefreshMatch, TokensOK
  <2>2. h.entity \in Row /\ h.entity \in Entity /\ row # None
    BY <1>0, <2>1, RowFacts DEF HandlerOK
  <2>3. CASE Become(p, [h EXCEPT !.stage = "user"])
    <3> DEFINE g == [h EXCEPT !.stage = "user"]
    <3>1. /\ g \in Handler /\ g.stage = "user" /\ g.fresh = None /\ g.entity = h.entity
      BY <1>0, <2>1 DEF Handler, Stage
    <3> HIDE DEF g
    <3>2. TokensOK(g)
      BY <1>0, <3>1 DEF TokensOK, Pending
    <3> QED BY <2>1, <2>3, <3>1, <3>2, TokenQuiet DEF Pending, g
  <2>4. CASE Become(p, Answer(h, "REFRESH_STALE"))
    BY <1>1, <2>1, <2>4 DEF Outcome
  <2>5. CASE Become(p, Saving(f, e, "done"))
    <3> DEFINE g == Saving(f, e, "done")
    <3>1. f \in Handler /\ f.fresh = None
      BY <1>0, <2>1 DEF Handler, Outcome
    <3>2. e \in Entity
      BY <1>0, <2>2, EntityTyped
    <3>3. e.refreshTokenHash = None
      BY <2>2 DEF RevokedEntity, Row, Session
    <3> HIDE DEF e, f
    <3>4. g \in Handler
      BY <2>2, <3>1, <3>2, SavingTyped
    <3>5. /\ g.fresh = None /\ g.entity = e
          /\ g.stage = "select" /\ g.after = "done"
      BY <3>1 DEF Saving, Handler
    <3> HIDE DEF g
    <3>6. TokensOK(g)
      BY <3>3, <3>5 DEF TokensOK, Pending
    <3> QED BY <2>1, <2>5, <3>3, <3>4, <3>5, <3>6, TokenQuiet DEF Pending, g
  <2> QED BY <2>1, <2>3, <2>4, <2>5
<1>5. CASE RefreshRotate(p)
  <2>0. PICK t \in 1 .. MaxTokens :
            /\ Sign(t)
            /\ Become(p, Saving([h EXCEPT !.fresh = t, !.outcome = "ok"],
                                Rotated(h.entity, t), "done"))
    BY <1>5 DEF RefreshRotate
  <2> DEFINE e == Rotated(h.entity, t)
             g == Saving([h EXCEPT !.fresh = t, !.outcome = "ok"], e, "done")
  <2>1. /\ h.stage = "user" /\ Become(p, g) /\ Sign(t)
        /\ UNCHANGED <<row, stored, delivered>>
    BY <1>5, <2>0 DEF RefreshRotate
  <2>2. t \in Nat
    BY ConstantsAssumption
  <2>3. h.entity \in Row /\ h.entity \in Entity
    BY <1>0, <2>1, RowFacts DEF HandlerOK
  <2>4. e \in Entity /\ e.refreshTokenHash = t
    BY <1>0, <2>2, <2>3, EntityTyped DEF Rotated, Row, Session
  <2> HIDE DEF e
  <2>5. /\ g \in Handler /\ g.stage = "select" /\ g.after = "done"
        /\ g.outcome = "ok" /\ g.fresh = t /\ g.entity = e
    BY <1>0, <2>2, <2>4 DEF Saving, Handler, Stage, Outcome
  <2> HIDE DEF g
  <2> QED BY <2>1, <2>4, <2>5, TokenSign
<1>6. CASE RefreshNoUser(p)
  <2>1. /\ h.stage = "user" /\ h.fresh = None /\ Become(p, Answer(h, "USER_NOT_FOUND"))
        /\ UNCHANGED <<row, issued, stored, delivered>>
    BY <1>0, <1>6 DEF RefreshNoUser, TokensOK
  <2> QED BY <1>1, <2>1 DEF Outcome
<1> QED BY <1>2, <1>3, <1>4, <1>5, <1>6 DEF Refresh

LEMMA TokenLogout ==
    ASSUME TypeInv, TokenInv, NEW p \in Request, Logout(p)
    PROVE  TokenInv'
<1> DEFINE h == proc[p]
<1>0. h \in Handler /\ HandlerOK(h, row) /\ TokensOK(h) /\ now \in Nat
  BY DEF TypeInv, TypeOK, TokenInv
<1>1. CASE LogoutStart(p)
  <2> DEFINE g == [Idle EXCEPT !.stage = "logout"]
  <2>1. g \in Handler /\ g.entity = None /\ g.fresh = None /\ g.stage = "logout"
    BY DEF Idle, Handler, Stage, Outcome
  <2>2. Become(p, g) /\ UNCHANGED <<row, issued, stored, delivered>>
    BY <1>1 DEF LogoutStart
  <2> HIDE DEF g
  <2>3. TokensOK(g)
    BY <2>1 DEF TokensOK, Pending
  <2> QED BY <2>1, <2>2, <2>3, TokenQuiet DEF Pending
<1>2. CASE LogoutLoad(p)
  <2>1. /\ h.stage = "logout" /\ h.fresh = None
        /\ UNCHANGED <<row, issued, stored, delivered>>
    BY <1>0, <1>2 DEF LogoutLoad, TokensOK
  <2>2. CASE Live(row) /\ Become(p, Saving(h, RevokedEntity(row), "done"))
    <3> DEFINE g == Saving(h, RevokedEntity(row), "done")
    <3>1. row \in Entity /\ row # None /\ row \in Row
      BY <2>2, RowFacts DEF Live, TypeInv, TypeOK
    <3>2. g \in Handler
      BY <1>0, <3>1, EntityTyped, SavingTyped
    <3>3. /\ g.fresh = None /\ g.entity.refreshTokenHash = None
          /\ g.stage = "select" /\ g.after = "done"
      BY <1>0, <2>1, <3>1 DEF Saving, RevokedEntity, Handler, Row, Session
    <3> HIDE DEF g
    <3>4. TokensOK(g)
      BY <3>3 DEF TokensOK, Pending
    <3> QED BY <2>1, <2>2, <3>2, <3>3, <3>4, TokenQuiet DEF Pending, g
  <2>3. CASE Become(p, Answer(h, "ok"))
    <3> DEFINE g == Answer(h, "ok")
    <3>1. g.fresh = None /\ g.entity = None
      BY <1>0, <2>1 DEF Answer, Handler
    <3>2. g \in Handler
      BY <1>0, AnswerTyped DEF Outcome
    <3> HIDE DEF g
    <3>3. TokensOK(g)
      BY <3>1 DEF TokensOK, Pending
    <3> QED BY <2>1, <2>3, <3>1, <3>2, <3>3, TokenQuiet DEF Pending, g
  <2> QED BY <1>2, <2>2, <2>3 DEF LogoutLoad
<1> QED BY <1>1, <1>2 DEF Logout

LEMMA IdleTokens ==
    ASSUME TypeInv, TokenInv, NEW p \in Request, Become(p, Idle),
           UNCHANGED <<row, issued, stored, delivered>>
    PROVE  TokenInv'
<1>1. Idle.entity = None /\ Idle.fresh = None
  BY DEF Idle
<1>2. TokensOK(Idle)
  BY <1>1 DEF TokensOK, Pending
<1> QED BY <1>1, <1>2, IdleTyped, TokenQuiet DEF Pending

LEMMA TokenRest ==
    ASSUME TypeInv, TokenInv,
           \/ \E p \in Request : Reply(p) \/ LoseReply(p)
           \/ Crash
           \/ Tick
           \/ UNCHANGED vars
    PROVE  TokenInv'
<1>1. ASSUME NEW p \in Request, Reply(p) PROVE TokenInv'
  <2>1. /\ Become(p, Idle) /\ UNCHANGED <<row, issued, stored>>
        /\ proc[p].stage = "done"
        /\ delivered' = delivered \cup
                           (IF Granted(proc[p]) THEN {proc[p].fresh} ELSE {})
    BY <1>1 DEF Reply
  <2>2. DeliveredWasStored'
    BY <2>1 DEF TokenInv, TokensOK, DeliveredWasStored, Granted
  <2>3. proc' = [proc EXCEPT ![p] = Idle] /\ proc \in [Request -> Handler]
    BY <2>1 DEF Become, TypeInv, TypeOK
  <2>4. Idle.entity = None /\ Idle.fresh = None
    BY DEF Idle
  <2>5. Token' = Token
    BY <2>1 DEF Token
  <2>6. ASSUME NEW q \in Request PROVE TokensOK(proc[q])'
    <3>1. proc'[q] = Idle \/ TokensOK(proc'[q])
      BY <2>3 DEF TokenInv
    <3> QED BY <2>1, <2>4, <2>5, <3>1 DEF TokensOK, Pending
  <2> QED BY <2>1, <2>2, <2>5, <2>6 DEF TokenInv
<1>2. ASSUME NEW p \in Request, LoseReply(p) PROVE TokenInv'
  BY <1>2, IdleTokens DEF LoseReply
<1>3. CASE Crash
  <2>1. Idle.entity = None /\ Idle.fresh = None
    BY DEF Idle
  <2>2. proc' = [p \in Request |-> Idle] /\ UNCHANGED <<row, issued, stored, delivered>>
    BY <1>3 DEF Crash
  <2> QED BY <2>1, <2>2 DEF TokenInv, TokensOK, Pending, Token,
                            DeliveredWasStored
<1>4. CASE Tick
  <2>1. UNCHANGED <<row, issued, stored, delivered, proc>>
    BY <1>4 DEF Tick
  <2> QED BY <2>1 DEF TokenInv, TokensOK, Pending, Token, DeliveredWasStored
<1>5. CASE UNCHANGED vars
  <2>1. UNCHANGED <<row, issued, stored, delivered, proc>>
    BY <1>5 DEF vars
  <2> QED BY <2>1 DEF TokenInv, TokensOK, Pending, Token, DeliveredWasStored
<1> QED BY <1>1, <1>2, <1>3, <1>4, <1>5

LEMMA TokenInit == Init => TokenInv
BY DEF Init, Idle, TokenInv, TokensOK, Pending, Token, DeliveredWasStored

LEMMA TokenNext == TypeInv /\ TokenInv /\ [Next]_vars => TokenInv'
BY TokenSaveSelect, TokenSaveUpdate, TokenSaveInsert, TokenLogin, TokenRefresh,
   TokenLogout, TokenRest DEF Next, Save

LEMMA TokenInvHolds == Spec => []TokenInv
<1>1. TypeInv /\ TokenInv /\ [Next]_vars => TokenInv'
  BY TokenNext
<1> QED BY <1>1, TokenInit, TypeInvHolds, PTL DEF Spec

\* Whatever requests overlap, and wherever they crash, a client only ever holds
\* refresh tokens that the session row has held.
THEOREM DeliveredStored == Spec => []DeliveredWasStored
<1>1. TokenInv => DeliveredWasStored
  BY DEF TokenInv
<1> QED BY <1>1, TokenInvHolds, PTL

-----------------------------------------------------------------------------
(* One request at a time.  What a handler has loaded is then the row itself, *)
(* and a save replaces the row by the entity.                                *)

OneAtATime == \A p, q \in Request : p = q

Complete(s) ==
    IF s.isActive THEN s.revokedAt = None
    ELSE s.revokedAt # None /\ s.refreshTokenHash = None

\* The entity of handler h as it relates to the row it comes from.
Faithful(h, r) ==
    /\ h.stage \in {"select", "update", "insert", "sign"} => Complete(h.entity)
    /\ \/ h.stage \in {"insert", "sign"}
       \/ h.stage \in {"select", "update"} /\ h.after = "sign"
       => h.entity.isActive
    /\ h.stage \in {"match", "user"} => h.entity = r /\ Live(r)
    /\ h.stage = "update" => h.dirty = Differs(r, h.entity) \cup Salted(h)
    /\ \/ h.stage \in {"findPrev", "kick", "upsert", "insert", "sign"}
       \/ h.stage \in {"select", "update"} /\ h.after # "done"
       => h.device # None /\ h.token = None
    /\ h.stage \in {"select", "update"} /\ h.entity.isActive /\ ~r.isActive
         => h.device # None /\ h.token = None

SerialInv ==
    /\ RevocationIsComplete
    /\ \A p \in Request : Faithful(proc[p], row)

(* UPDATE of the columns that differ makes the row equal to the entity, but  *)
(* for the properties the entity lacks.                                      *)
LEMMA WrittenDiffers ==
    ASSUME NEW r \in Row, NEW e \in Entity, NEW h
    PROVE  LET w == Written(r, e, Differs(r, e) \cup Salted(h)) IN
           /\ w.refreshTokenHash = e.refreshTokenHash
           /\ w.prevRefreshTokenHash = IF e.prevRefreshTokenHash = Unset
                                       THEN r.prevRefreshTokenHash
                                       ELSE e.prevRefreshTokenHash
           /\ w.revokedAt = e.revokedAt
           /\ w.isActive = e.isActive
           /\ w # None
<1> DEFINE ds == Differs(r, e) \cup Salted(h)
           w == Written(r, e, ds)
<1>1. /\ e.refreshTokenHash # r.refreshTokenHash => "refreshTokenHash" \in ds
      /\ "prevRefreshTokenHash" \in ds
            <=> e.prevRefreshTokenHash \notin {r.prevRefreshTokenHash, Unset}
      /\ "revokedAt" \in ds <=> e.revokedAt # r.revokedAt
      /\ "isActive" \in ds <=> e.isActive # r.isActive
  BY DEF Differs, Salted, Column
<1>2. "prevRotatedAt" \in ds => e.prevRotatedAt # Unset
  BY DEF Differs, Salted
<1> HIDE DEF ds
<1>3. w.refreshTokenHash = e.refreshTokenHash
  BY <1>1 DEF Written
<1>4. w.prevRefreshTokenHash = IF e.prevRefreshTokenHash = Unset
                               THEN r.prevRefreshTokenHash
                               ELSE e.prevRefreshTokenHash
  BY <1>1 DEF Written
<1>5. w.revokedAt = e.revokedAt /\ w.isActive = e.isActive
  BY <1>1 DEF Written
<1>6. w \in Row
  BY <1>1, <1>2 DEF Written, Row, Entity, Session
<1> QED BY <1>3, <1>4, <1>5, <1>6, RowFacts DEF ds

LEMMA SerialSave ==
    ASSUME OneAtATime, TypeInv, SerialInv, NEW p \in Request, Save(p)
    PROVE  /\ SerialInv'
           /\ row # None /\ ~row.isActive /\ row'.isActive => LoggingIn(p)
<1> DEFINE h == proc[p]
<1>0. /\ h \in Handler /\ HandlerOK(h, row) /\ Faithful(h, row)
      /\ \A q \in Request : q = p
      /\ row \in Row \cup {None}
  BY DEF TypeInv, TypeOK, SerialInv, OneAtATime
<1>1. CASE SaveSelect(p)
  <2> DEFINE ds == Differs(row, h.entity) \cup Salted(h)
             g == [h EXCEPT !.stage = "update", !.dirty = ds]
  <2>1. h.stage = "select" /\ Become(p, g) /\ UNCHANGED row
    BY <1>1 DEF SaveSelect
  <2>2. proc'[p] = g
    BY <2>1 DEF Become, TypeInv, TypeOK
  <2>3. /\ g.stage = "update" /\ g.dirty = Differs(row, h.entity) \cup Salted(g)
        /\ g.entity = h.entity /\ g.device = h.device /\ g.token = h.token
        /\ g.after = h.after
    BY <1>0 DEF Handler, Salted
  <2> HIDE DEF g, ds
  <2>4. Faithful(g, row)
    BY <1>0, <2>1, <2>3 DEF Faithful
  <2>5. RevocationIsComplete'
    BY <2>1 DEF SerialInv, RevocationIsComplete
  <2> QED BY <1>0, <2>1, <2>2, <2>4, <2>5 DEF SerialInv
<1>2. CASE SaveUpdate(p)
  <2>1. /\ h.stage = "update" /\ Become(p, Resumed(h))
        /\ row' = Written(row, h.entity, h.dirty)
    BY <1>2 DEF SaveUpdate
  <2>2. proc'[p] = Resumed(h)
    BY <2>1 DEF Become, TypeInv, TypeOK
  <2>3. row \in Row /\ row # None /\ h.entity \in Entity /\ h.entity # None
    BY <1>0, <2>1, RowFacts DEF HandlerOK
  <2>4. /\ row'.refreshTokenHash = h.entity.refreshTokenHash
        /\ row'.revokedAt = h.entity.revokedAt
        /\ row'.isActive = h.entity.isActive
    BY <1>0, <2>1, <2>3, WrittenDiffers DEF Faithful
  <2>5. Complete(h.entity)
    BY <1>0, <2>1 DEF Faithful
  <2>6. RevocationIsComplete'
    BY <2>4, <2>5 DEF RevocationIsComplete, Complete
  <2>7. /\ Resumed(h).stage = h.after
        /\ Resumed(h).entity = IF h.after = "sign" THEN h.entity ELSE None
        /\ Resumed(h).device = h.device /\ Resumed(h).token = h.token
    BY <1>0 DEF Resumed, Handler
  <2>8. h.after = "sign" => h.entity.isActive
    BY <1>0, <2>1 DEF Faithful
  <2>9. Faithful(Resumed(h), row')
    BY <1>0, <2>1, <2>5, <2>7, <2>8 DEF Faithful, Handler
  <2>10. row # None /\ ~row.isActive /\ row'.isActive => LoggingIn(p)
    BY <1>0, <2>1, <2>4 DEF Faithful, LoggingIn
  <2> QED BY <1>0, <2>2, <2>6, <2>9, <2>10 DEF SerialInv
<1>3. CASE SaveInsert(p)
  <2>1. h.stage = "insert"
    BY <1>3 DEF SaveInsert
  <2>2. CASE row = None /\ row' = Inserted(h.entity) /\ Become(p, Resumed(h))
    <3>1. proc'[p] = Resumed(h)
      BY <2>2 DEF Become, TypeInv, TypeOK
    <3>2. h.entity \in Entity /\ h.after = "sign"
      BY <1>0, <2>1 DEF HandlerOK
    <3>3. /\ row'.refreshTokenHash = h.entity.refreshTokenHash
          /\ row'.revokedAt = h.entity.revokedAt
          /\ row'.isActive = h.entity.isActive
      BY <2>2, <3>2 DEF Inserted, Entity, Session
    <3>4. /\ Resumed(h).stage = "sign" /\ Resumed(h).entity = h.entity
          /\ Resumed(h).device = h.device /\ Resumed(h).token = h.token
      BY <1>0, <3>2 DEF Resumed, Handler
    <3>5. Faithful(Resumed(h), row')
      BY <1>0, <2>1, <3>4 DEF Faithful
    <3>6. RevocationIsComplete'
      BY <1>0, <2>1, <3>3 DEF RevocationIsComplete, Faithful, Complete
    <3> QED BY <1>0, <2>2, <3>1, <3>5, <3>6 DEF SerialInv
  <2>3. CASE Become(p, Answer(h, "ERROR")) /\ UNCHANGED row
    <3>1. proc'[p] = Answer(h, "ERROR")
      BY <2>3 DEF Become, TypeInv, TypeOK
    <3>2. Answer(h, "ERROR").stage = "done"
      BY <1>0 DEF Answer, Handler
    <3>3. Faithful(Answer(h, "ERROR"), row)
      BY <3>2 DEF Faithful
    <3> QED BY <1>0, <2>3, <3>1, <3>3 DEF SerialInv, RevocationIsComplete
  <2> QED BY <1>3, <2>2, <2>3 DEF SaveInsert
<1> QED BY <1>1, <1>2, <1>3 DEF Save

LEMMA SerialQuiet ==
    ASSUME OneAtATime, TypeInv, SerialInv, NEW p \in Request, NEW g \in Handler,
           Become(p, g), UNCHANGED row, Faithful(g, row)
    PROVE  SerialInv'
<1>1. proc'[p] = g /\ \A q \in Request : q = p
  BY DEF Become, TypeInv, TypeOK, OneAtATime
<1> QED BY <1>1 DEF SerialInv, RevocationIsComplete

(* A revoked entity is complete, whatever it was before.                     *)
LEMMA RevokedComplete ==
    ASSUME now \in Nat, NEW e \in Entity
    PROVE  /\ Complete(RevokedEntity(e))
           /\ ~RevokedEntity(e).isActive
           /\ Complete([RevokedEntity(e) EXCEPT !.prevRefreshTokenHash = None,
                                                !.prevRotatedAt = None])
           /\ ~[RevokedEntity(e) EXCEPT !.prevRefreshTokenHash = None,
                                        !.prevRotatedAt = None].isActive
<1> QED BY ConstantsAssumption DEF Complete, RevokedEntity, Entity, Session

(* The handler that calls save with a complete entity.                       *)
LEMMA FaithfulSaving ==
    ASSUME NEW h \in Handler, NEW e \in Entity, NEW k \in {"kick", "sign", "done"},
           Complete(e), k = "sign" => e.isActive,
           k # "done" \/ (e.isActive /\ ~row.isActive)
              => h.device # None /\ h.token = None
    PROVE  Faithful(Saving(h, e, k), row)
<1>1. /\ Saving(h, e, k).stage = "select" /\ Saving(h, e, k).entity = e
      /\ Saving(h, e, k).after = k /\ Saving(h, e, k).device = h.device
      /\ Saving(h, e, k).token = h.token
  BY DEF Saving, Handler
<1> QED BY <1>1 DEF Faithful

LEMMA SerialLogin ==
    ASSUME OneAtATime, TypeInv, SerialInv, NEW p \in Request, Login(p)
    PROVE  SerialInv' /\ row' = row
<1> DEFINE h == proc[p]
<1>0. /\ h \in Handler /\ HandlerOK(h, row) /\ Faithful(h, row) /\ now \in Nat
  BY DEF TypeInv, TypeOK, SerialInv
<1>1. ASSUME NEW d \in Device, LoginStart(p, d) PROVE SerialInv' /\ row' = row
  <2> DEFINE g == [Idle EXCEPT !.stage = "findPrev", !.device = d]
  <2>1. /\ g \in Handler /\ g.stage = "findPrev" /\ g.device = d /\ g.token = None
    BY DEF Idle, Handler, Stage, Outcome
  <2>2. d # None
    BY ConstantsAssumption
  <2>3. Become(p, g) /\ UNCHANGED row
    BY <1>1 DEF LoginStart
  <2> HIDE DEF g
  <2>4. Faithful(g, row)
    BY <2>1, <2>2 DEF Faithful
  <2> QED BY <2>1, <2>3, <2>4, SerialQuiet
<1>2. CASE LoginFindPrev(p)
  <2>1. /\ h.stage = "findPrev" /\ UNCHANGED row /\ h.device # None /\ h.token = None
        /\ h.device \in Device
    BY <1>0, <1>2 DEF LoginFindPrev, Faithful, HandlerOK
  <2>2. CASE Live(row) /\ Become(p, Saving(h, RevokedEntity(row), "kick"))
    <3>1. row \in Entity /\ row # None
      BY <2>2, RowFacts DEF Live, TypeInv, TypeOK
    <3>2. Faithful(Saving(h, RevokedEntity(row), "kick"), row)
      BY <1>0, <2>1, <3>1, RevokedComplete, EntityTyped, FaithfulSaving
    <3>3. Saving(h, RevokedEntity(row), "kick") \in Handler
      BY <1>0, <2>1, <3>1, EntityTyped, SavingTyped
    <3> QED BY <2>1, <2>2, <3>2, <3>3, SerialQuiet
  <2>3. CASE Become(p, [h EXCEPT !.stage = "upsert"])
    <3> DEFINE g == [h EXCEPT !.stage = "upsert"]
    <3>1. /\ g \in Handler /\ g.stage = "upsert" /\ g.device = h.device
          /\ g.token = h.token
      BY <1>0, <2>1 DEF Handler, Stage
    <3> HIDE DEF g
    <3>2. Faithful(g, row)
      BY <2>1, <3>1 DEF Faithful
    <3> QED BY <2>1, <2>3, <3>1, <3>2, SerialQuiet DEF g
  <2> QED BY <1>2, <2>2, <2>3 DEF LoginFindPrev
<1>3. CASE LoginKick(p)
  <2> DEFINE g == [h EXCEPT !.stage = "upsert"]
  <2>1. /\ h.stage = "kick" /\ Become(p, g) /\ UNCHANGED row
        /\ h.device # None /\ h.token = None
    BY <1>0, <1>3 DEF LoginKick, Faithful
  <2>2. /\ g \in Handler /\ g.stage = "upsert" /\ g.device = h.device
        /\ g.token = h.token
    BY <1>0, <2>1 DEF Handler, Stage
  <2> HIDE DEF g
  <2>3. Faithful(g, row)
    BY <2>1, <2>2 DEF Faithful
  <2> QED BY <2>1, <2>2, <2>3, SerialQuiet
<1>4. CASE LoginUpsert(p)
  <2>1. /\ h.stage = "upsert" /\ UNCHANGED row /\ h.device \in Device
        /\ h.device # None /\ h.token = None
    BY <1>0, <1>4 DEF LoginUpsert, Faithful, HandlerOK
  <2>2. CASE row # None /\ Become(p, Saving(h, Activated(row, h.device), "sign"))
    <3>1. row \in Entity
      BY <2>2, RowFacts DEF TypeInv, TypeOK
    <3>2. /\ Activated(row, h.device) \in Entity
          /\ Complete(Activated(row, h.device))
          /\ Activated(row, h.device).isActive
      BY <1>0, <2>1, <3>1 DEF Activated, Complete, Entity, Session
    <3>3. Faithful(Saving(h, Activated(row, h.device), "sign"), row)
      BY <1>0, <2>1, <3>2, FaithfulSaving
    <3>4. Saving(h, Activated(row, h.device), "sign") \in Handler
      BY <1>0, <2>1, <2>2, <3>2, SavingTyped
    <3> QED BY <2>1, <2>2, <3>3, <3>4, SerialQuiet
  <2>3. CASE Become(p, [h EXCEPT !.stage = "insert", !.after = "sign",
                                 !.entity = Created(h.device)])
    <3> DEFINE g == [h EXCEPT !.stage = "insert", !.after = "sign",
                              !.entity = Created(h.device)]
    <3>1. /\ Created(h.device) \in Entity
          /\ Complete(Created(h.device)) /\ Created(h.device).isActive
      BY <1>0, <2>1 DEF Created, Complete, Entity, Session
    <3>2. /\ g \in Handler /\ g.stage = "insert" /\ g.entity = Created(h.device)
          /\ g.device = h.device /\ g.token = h.token
      BY <1>0, <2>1, <3>1 DEF Handler, Stage
    <3> HIDE DEF g
    <3>3. Faithful(g, row)
      BY <2>1, <3>1, <3>2 DEF Faithful
    <3> QED BY <2>1, <2>3, <3>2, <3>3, SerialQuiet DEF g
  <2> QED BY <1>4, <2>2, <2>3 DEF LoginUpsert
<1>5. CASE LoginSign(p)
  <2>0. PICK t \in 1 .. MaxTokens :
            /\ Sign(t)
            /\ Become(p, Saving([h EXCEPT !.fresh = t, !.outcome = "ok"],
                                [h.entity EXCEPT !.refreshTokenHash = t,
                                                 !.lastUsedAt = now],
                                "done"))
    BY <1>5 DEF LoginSign
  <2> DEFINE e == [h.entity EXCEPT !.refreshTokenHash = t, !.lastUsedAt = now]
             f == [h EXCEPT !.fresh = t, !.outcome = "ok"]
  <2>1. /\ h.stage = "sign" /\ Become(p, Saving(f, e, "done")) /\ UNCHANGED row
    BY <1>5, <2>0 DEF LoginSign
  <2>2. /\ h.entity \in Entity /\ row # None /\ Complete(h.entity) /\ h.entity.isActive
        /\ h.device # None /\ h.token = None
    BY <1>0, <2>1 DEF HandlerOK, Faithful
  <2>3. t \in Nat
    BY ConstantsAssumption
  <2>4. e \in Entity /\ Complete(e)
    BY <1>0, <2>2, <2>3 DEF Complete, Entity, Session
  <2>5. f \in Handler /\ f.device = h.device /\ f.token = h.token
    BY <1>0, <2>3 DEF Handler, Outcome
  <2> HIDE DEF e, f
  <2>6. Faithful(Saving(f, e, "done"), row)
    BY <2>2, <2>4, <2>5, FaithfulSaving
  <2>7. Saving(f, e, "done") \in Handler
    BY <2>2, <2>4, <2>5, SavingTyped
  <2> QED BY <2>1, <2>6, <2>7, SerialQuiet
<1> QED BY <1>1, <1>2, <1>3, <1>4, <1>5 DEF Login

LEMMA SerialAnswer ==
    ASSUME OneAtATime, TypeInv, SerialInv, NEW p \in Request, NEW o \in Outcome,
           Become(p, Answer(proc[p], o)), UNCHANGED row
    PROVE  SerialInv'
<1>1. proc[p] \in Handler
  BY DEF TypeInv, TypeOK
<1>2. Answer(proc[p], o).stage = "done"
  BY <1>1 DEF Answer, Handler
<1>3. Faithful(Answer(proc[p], o), row)
  BY <1>2 DEF Faithful
<1> QED BY <1>1, <1>3, AnswerTyped, SerialQuiet

LEMMA SerialRefresh ==
    ASSUME OneAtATime, TypeInv, SerialInv, NEW p \in Request, Refresh(p)
    PROVE  SerialInv' /\ row' = row
<1> DEFINE h == proc[p]
<1>0. /\ h \in Handler /\ HandlerOK(h, row) /\ Faithful(h, row) /\ now \in Nat
  BY DEF TypeInv, TypeOK, SerialInv
<1>1. ASSUME NEW t \in delivered, NEW d \in Device \cup {None}, RefreshStart(p, t, d)
      PROVE  SerialInv' /\ row' = row
  <2> DEFINE g == [Idle EXCEPT !.stage = "load", !.token = t, !.device = d]
  <2>1. t \in Nat
    BY DEF TypeInv, TypeOK
  <2>2. g \in Handler /\ g.stage = "load"
    BY <2>1 DEF Idle, Handler, Stage, Outcome
  <2>3. Become(p, g) /\ UNCHANGED row
    BY <1>1 DEF RefreshStart
  <2> HIDE DEF g
  <2>4. Faithful(g, row)
    BY <2>2 DEF Faithful
  <2> QED BY <2>2, <2>3, <2>4, SerialQuiet
<1>2. CASE RefreshLoad(p)
  <2>1. h.stage = "load" /\ UNCHANGED row
    BY <1>2 DEF RefreshLoad
  <2>2. CASE Become(p, Answer(h, "SESSION_REVOKED"))
    BY <2>1, <2>2, SerialAnswer DEF Outcome
  <2>3. CASE /\ Live(row)
             /\ Become(p, Saving([h EXCEPT !.outcome = "DEVICE_MISMATCH"],
                                 RevokedEntity(row), "done"))
    <3> DEFINE f == [h EXCEPT !.outcome = "DEVICE_MISMATCH"]
    <3>1. f \in Handler
      BY <1>0 DEF Handler, Outcome
    <3>2. row \in Entity /\ row # None
      BY <2>3, RowFacts DEF Live, TypeInv, TypeOK
    <3> HIDE DEF f
    <3>3. Faithful(Saving(f, RevokedEntity(row), "done"), row)
      BY <1>0, <3>1, <3>2, RevokedComplete, EntityTyped, FaithfulSaving
    <3>4. Saving(f, RevokedEntity(row), "done") \in Handler
      BY <1>0, <3>1, <3>2, EntityTyped, SavingTyped
    <3> QED BY <2>1, <2>3, <3>3, <3>4, SerialQuiet DEF f
  <2>4. CASE Live(row) /\ Become(p, [h EXCEPT !.stage = "match", !.entity = row])
    <3> DEFINE g == [h EXCEPT !.stage = "match", !.entity = row]
    <3>1. row \in Entity
      BY <2>4, RowFacts DEF Live, TypeInv, TypeOK
    <3>2. g \in Handler /\ g.stage = "match" /\ g.entity = row
      BY <1>0, <3>1 DEF Handler, Stage
    <3> HIDE DEF g
    <3>3. Faithful(g, row)
      BY <2>4, <3>2 DEF Faithful
    <3> QED BY <2>1, <2>4, <3>2, <3>3, SerialQuiet DEF g
  <2> QED BY <1>2, <2>2, <2>3, <2>4 DEF RefreshLoad
<1>3. CASE RefreshMatch(p)
  <2> DEFINE e == [RevokedEntity(h.entity) EXCEPT !.prevRefreshTokenHash = None,
                                                  !.prevRotatedAt = None]
             f == [h EXCEPT !.outcome = "INVALID_REFRESH"]
  <2>1. /\ h.stage = "match" /\ UNCHANGED row
        /\ \/ Become(p, [h EXCEPT !.stage = "user"])
           \/ Become(p, Answer(h, "REFRESH_STALE"))
           \/ Become(p, Saving(f, e, "done"))
    BY <1>3 DEF RefreshMatch
  <2>2. /\ h.entity \in Entity /\ row # None /\ h.entity = row /\ Live(row)
    BY <1>0, <2>1, RowFacts DEF HandlerOK, Faithful
  <2>3. CASE Become(p, [h EXCEPT !.stage = "user"])
    <3> DEFINE g == [h EXCEPT !.stage = "user"]
    <3>1. g \in Handler /\ g.stage = "user" /\ g.entity = h.entity
      BY <1>0 DEF Handler, Stage
    <3> HIDE DEF g
    <3>2. Faithful(g, row)
      BY <2>2, <3>1 DEF Faithful
    <3> QED BY <2>1, <2>3, <3>1, <3>2, SerialQuiet DEF g
  <2>4. CASE Become(p, Answer(h, "REFRESH_STALE"))
    BY <2>1, <2>4, SerialAnswer DEF Outcome
  <2>5. CASE Become(p, Saving(f, e, "done"))
    <3>1. f \in Handler
      BY <1>0 DEF Handler, Outcome
    <3>2. e \in Entity /\ Complete(e) /\ ~e.isActive
      BY <1>0, <2>2, EntityTyped, RevokedComplete
    <3> HIDE DEF e, f
    <3>3. Faithful(Saving(f, e, "done"), row)
      BY <3>1, <3>2, FaithfulSaving
    <3>4. Saving(f, e, "done") \in Handler
      BY <2>2, <3>1, <3>2, SavingTyped
    <3> QED BY <2>1, <2>5, <3>3, <3>4, SerialQuiet
  <2> QED BY <2>1, <2>3, <2>4, <2>5
<1>4. CASE RefreshRotate(p)
  <2>0. PICK t \in 1 .. MaxTokens :
            /\ Sign(t)
            /\ Become(p, Saving([h EXCEPT !.fresh = t, !.outcome = "ok"],
                                Rotated(h.entity, t), "done"))
    BY <1>4 DEF RefreshRotate
  <2> DEFINE e == Rotated(h.entity, t)
             f == [h EXCEPT !.fresh = t, !.outcome = "ok"]
  <2>1. /\ h.stage = "user" /\ Become(p, Saving(f, e, "done")) /\ UNCHANGED row
    BY <1>4, <2>0 DEF RefreshRotate
  <2>2. h.entity \in Entity /\ row # None /\ h.entity = row /\ Live(row)
    BY <1>0, <2>1, RowFacts DEF HandlerOK, Faithful
  <2>3. t \in Nat
    BY ConstantsAssumption
  <2>4. f \in Handler
    BY <1>0, <2>3 DEF Handler, Outcome
  <2>5. e \in Entity
    BY <1>0, <2>2, <2>3, EntityTyped
  <2>6. Complete(e)
    BY <2>2 DEF Rotated, Complete, Live, Entity, Session
  <2> HIDE DEF e, f
  <2>7. Faithful(Saving(f, e, "done"), row)
    BY <2>2, <2>4, <2>5, <2>6, FaithfulSaving DEF Live
  <2>8. Saving(f, e, "done") \in Handler
    BY <2>2, <2>4, <2>5, SavingTyped
  <2> QED BY <2>1, <2>7, <2>8, SerialQuiet
<1>5. CASE RefreshNoUser(p)
  BY <1>5, SerialAnswer DEF RefreshNoUser, Outcome
<1> QED BY <1>1, <1>2, <1>3, <1>4, <1>5 DEF Refresh

LEMMA SerialLogout ==
    ASSUME OneAtATime, TypeInv, SerialInv, NEW p \in Request, Logout(p)
    PROVE  SerialInv' /\ row' = row
<1> DEFINE h == proc[p]
<1>0. h \in Handler /\ now \in Nat
  BY DEF TypeInv, TypeOK
<1>1. CASE LogoutStart(p)
  <2> DEFINE g == [Idle EXCEPT !.stage = "logout"]
  <2>1. g \in Handler /\ g.stage = "logout"
    BY DEF Idle, Handler, Stage, Outcome
  <2>2. Become(p, g) /\ UNCHANGED row
    BY <1>1 DEF LogoutStart
  <2> HIDE DEF g
  <2>3. Faithful(g, row)
    BY <2>1 DEF Faithful
  <2> QED BY <2>1, <2>2, <2>3, SerialQuiet
<1>2. CASE LogoutLoad(p)
  <2>1. CASE Live(row) /\ Become(p, Saving(h, RevokedEntity(row), "done"))
    <3>1. row \in Entity /\ row # None
      BY <2>1, RowFacts DEF Live, TypeInv, TypeOK
    <3>2. Faithful(Saving(h, RevokedEntity(row), "done"), row)
      BY <1>0, <3>1, RevokedComplete, EntityTyped, FaithfulSaving
    <3>3. Saving(h, RevokedEntity(row), "done") \in Handler
      BY <1>0, <3>1, EntityTyped, SavingTyped
    <3> QED BY <1>2, <2>1, <3>2, <3>3, SerialQuiet DEF LogoutLoad
  <2>2. CASE Become(p, Answer(h, "ok"))
    BY <1>2, <2>2, SerialAnswer DEF LogoutLoad, Outcome
  <2> QED BY <1>2, <2>1, <2>2 DEF LogoutLoad
<1> QED BY <1>1, <1>2 DEF Logout

LEMMA SerialRest ==
    ASSUME OneAtATime, TypeInv, SerialInv,
           \/ \E p \in Request : Reply(p) \/ LoseReply(p)
           \/ Crash
           \/ Tick
           \/ UNCHANGED vars
    PROVE  SerialInv' /\ row' = row
<1>1. Idle.stage = "idle" /\ \A r : Faithful(Idle, r)
  BY DEF Idle, Faithful
<1>2. ASSUME NEW p \in Request, Reply(p) \/ LoseReply(p) PROVE SerialInv' /\ row' = row
  BY <1>1, <1>2, IdleTyped, SerialQuiet DEF Reply, LoseReply
<1>3. CASE Crash
  BY <1>1, <1>3 DEF Crash, SerialInv, RevocationIsComplete
<1>4. CASE Tick \/ UNCHANGED vars
  BY <1>4 DEF Tick, vars, SerialInv, RevocationIsComplete
<1> QED BY <1>2, <1>3, <1>4

LEMMA SerialInit == Init => SerialInv
BY DEF Init, SerialInv, RevocationIsComplete, Faithful, Idle

LEMMA SerialNext ==
    ASSUME OneAtATime, TypeInv, SerialInv, [Next]_vars
    PROVE  /\ SerialInv'
           /\ row # None /\ ~row.isActive /\ row'.isActive
                => \E p \in Request : LoggingIn(p)
<1>1. CASE \E p \in Request : Save(p)
  BY <1>1, SerialSave
<1>2. CASE ~\E p \in Request : Save(p)
  BY <1>2, SerialLogin, SerialRefresh, SerialLogout, SerialRest DEF Next
<1> QED BY <1>1, <1>2

LEMMA SerialInvHolds == ASSUME OneAtATime PROVE Spec => []SerialInv
<1>1. TypeInv /\ SerialInv /\ [Next]_vars => SerialInv'
  BY SerialNext
<1> QED BY <1>1, SerialInit, TypeInvHolds, PTL DEF Spec

\* Of requests that do not overlap, every revocation is complete: an inactive
\* session has a revocation date and no current token.
THEOREM RevocationComplete ==
    ASSUME OneAtATime PROVE Spec => []RevocationIsComplete
<1>1. SerialInv => RevocationIsComplete
  BY DEF SerialInv
<1> QED BY <1>1, SerialInvHolds, PTL

\* Of requests that do not overlap, only a login reactivates a session.
THEOREM OnlyLoginReactivatesSerial ==
    ASSUME OneAtATime PROVE Spec => OnlyLoginReactivates
<1>1. TypeInv /\ SerialInv /\ [Next]_vars
        => [row # None /\ ~row.isActive /\ row'.isActive
                => \E p \in Request : LoggingIn(p)]_vars
  BY SerialNext
<1> QED BY <1>1, SerialInvHolds, TypeInvHolds, PTL DEF Spec, OnlyLoginReactivates

-----------------------------------------------------------------------------
(* One request at a time: the order of the tokens.  A handler saves the      *)
(* tokens of the row, nothing, or a token as new as any.                     *)

\* Token u is not newer than any of the two tokens of row r.
NotAfter(u, r) ==
    /\ r.refreshTokenHash # None => u <= r.refreshTokenHash
    /\ r.prevRefreshTokenHash # None => u <= r.prevRefreshTokenHash

\* The token f being saved is at least as new as those of the row, the delivered
\* and the spent.
Newest(f, r) ==
    /\ f \in Token
    /\ \A t \in delivered \cup spent : t <= f
    /\ r.refreshTokenHash # None => r.refreshTokenHash <= f
    /\ r.prevRefreshTokenHash # None => r.prevRefreshTokenHash <= f

Ordered(h, r) ==
    /\ h.token \in Token \cup {None}
    /\ h.stage = "user" => h.token \in {r.refreshTokenHash, r.prevRefreshTokenHash}
                           /\ h.token # None
    /\ h.stage \in {"select", "update"} /\ h.fresh = None =>
          /\ h.entity.refreshTokenHash \in {None, r.refreshTokenHash}
          /\ h.entity.prevRefreshTokenHash \in {None, Unset, r.prevRefreshTokenHash}
    /\ h.stage = "insert" => h.entity.prevRefreshTokenHash = Unset
                             /\ h.entity.refreshTokenHash = None
    /\ \/ h.stage = "sign"
       \/ h.stage \in {"select", "update"} /\ h.after = "sign"
       => h.entity.prevRefreshTokenHash \in {Unset, r.prevRefreshTokenHash}
    /\ h.stage \in {"select", "update"} /\ h.fresh # None =>
          /\ Newest(h.fresh, r)
          /\ h.entity.refreshTokenHash = h.fresh
          /\ IF h.token = None
             THEN h.entity.prevRefreshTokenHash \in {Unset, r.prevRefreshTokenHash}
             ELSE /\ h.entity.prevRefreshTokenHash = r.refreshTokenHash
                  /\ h.token \in {r.refreshTokenHash, r.prevRefreshTokenHash}
    /\ h.stage = "done" /\ h.outcome = "ok" /\ h.fresh # None =>
          /\ h.fresh \in Token
          /\ r # None
          /\ r.refreshTokenHash = h.fresh
          /\ \A t \in delivered : t <= h.fresh
          /\ h.token # None => NotAfter(h.token, r)

OrderInv ==
    /\ delivered \subseteq Token
    /\ spent \subseteq Token
    /\ row # None => /\ row.refreshTokenHash \in Token \cup {None}
                     /\ row.prevRefreshTokenHash \in Token \cup {None}
    /\ CurrentIsNewest
    /\ SpentStaysSpent
    /\ \A p \in Request : Ordered(proc[p], row)

LEMMA OrderQuiet ==
    ASSUME OneAtATime, TypeInv, OrderInv, NEW p \in Request, NEW g,
           Become(p, g), UNCHANGED <<row, issued, delivered, spent>>, Ordered(g, row)
    PROVE  OrderInv'
<1>1. proc'[p] = g /\ \A q \in Request : q = p
  BY DEF Become, TypeInv, TypeOK, OneAtATime
<1>2. Token' = Token
  BY DEF Token
<1>3. \A q \in Request : Ordered(proc[q], row)'
  <2> SUFFICES ASSUME NEW q \in Request PROVE Ordered(proc[q], row)'
    OBVIOUS
  <2>1. proc'[q] = g
    BY <1>1
  <2> QED BY <1>2, <2>1 DEF Ordered, Newest, NotAfter
<1> QED BY <1>2, <1>3 DEF OrderInv, CurrentIsNewest, SpentStaysSpent, Matchable

LEMMA OrderSave ==
    ASSUME OneAtATime, TypeInv, TokenInv, SerialInv, OrderInv, NEW p \in Request, Save(p)
    PROVE  OrderInv'
<1> DEFINE h == proc[p]
<1>0. /\ h \in Handler /\ HandlerOK(h, row) /\ Faithful(h, row) /\ Ordered(h, row)
      /\ TokensOK(h)
      /\ \A q \in Request : q = p
      /\ row \in Row \cup {None}
      /\ issued \in Seq(Nat) /\ delivered \subseteq Nat
  BY DEF TypeInv, TypeOK, SerialInv, OrderInv, TokenInv, OneAtATime
<1>1. CASE SaveSelect(p)
  <2> DEFINE ds == Differs(row, h.entity) \cup Salted(h)
             g == [h EXCEPT !.stage = "update", !.dirty = ds]
  <2>1. /\ h.stage = "select" /\ Become(p, g)
        /\ UNCHANGED <<row, issued, delivered, spent>>
    BY <1>1 DEF SaveSelect
  <2>2. /\ g.stage = "update" /\ g.entity = h.entity /\ g.token = h.token
        /\ g.fresh = h.fresh /\ g.after = h.after /\ g.outcome = h.outcome
    BY <1>0 DEF Handler
  <2> HIDE DEF g
  <2>3. Ordered(g, row)
    BY <1>0, <2>1, <2>2 DEF Ordered
  <2> QED BY <2>1, <2>3, OrderQuiet
<1>2. CASE SaveUpdate(p)
  <2> DEFINE e == h.entity
             g == Resumed(h)
  <2>1. /\ h.stage = "update" /\ Become(p, g)
        /\ row' = Written(row, e, h.dirty)
        /\ UNCHANGED <<issued, delivered, spent>>
    BY <1>2 DEF SaveUpdate
  <2>2. row \in Row /\ row # None /\ e \in Entity
    BY <1>0, <2>1 DEF HandlerOK
  <2>3. /\ row'.refreshTokenHash = e.refreshTokenHash
        /\ row'.prevRefreshTokenHash = IF e.prevRefreshTokenHash = Unset
                                       THEN row.prevRefreshTokenHash
                                       ELSE e.prevRefreshTokenHash
        /\ row' # None
    <3>1. h.dirty = Differs(row, e) \cup Salted(h)
      BY <1>0, <2>1 DEF Faithful
    <3> HIDE DEF h, e
    <3> QED BY <2>1, <2>2, <3>1, WrittenDiffers
  <2>4. /\ g.stage = h.after /\ g.fresh = h.fresh /\ g.token = h.token
        /\ g.outcome = h.outcome /\ h.after \in {"kick", "sign", "done"}
        /\ g.entity = IF h.after = "sign" THEN e ELSE None
    BY <1>0 DEF Resumed, Handler
  <2> HIDE DEF g
  <2>5. /\ proc'[p] = g /\ Token' = Token
    BY <2>1 DEF Become, Token, TypeInv, TypeOK
  <2>6. row.prevRefreshTokenHash # Unset /\ row.refreshTokenHash # Unset /\ None # Unset
    BY <2>2, ConstantsAssumption DEF Row, Session
  <2>7. Token \subseteq Nat
    BY <1>0 DEF Token
  <2>8. CASE h.fresh = None
    <3>1. /\ row'.refreshTokenHash \in {None, row.refreshTokenHash}
          /\ row'.prevRefreshTokenHash \in {None, row.prevRefreshTokenHash}
      BY <1>0, <2>1, <2>3, <2>8 DEF Ordered
    <3>2. h.after = "sign" => e.prevRefreshTokenHash \in {Unset, row'.prevRefreshTokenHash}
      BY <1>0, <2>1, <2>3, <2>6 DEF Ordered
    <3>3. Ordered(proc[p], row)'
      BY <1>0, <2>1, <2>4, <2>5, <2>8, <3>2 DEF Ordered
    <3>4. CurrentIsNewest'
      BY <2>1, <2>2, <3>1 DEF OrderInv, CurrentIsNewest
    <3>5. SpentStaysSpent'
      BY <2>1, <2>2, <3>1 DEF OrderInv, SpentStaysSpent, Matchable
    <3>6. /\ row'.refreshTokenHash \in Token \cup {None}
          /\ row'.prevRefreshTokenHash \in Token \cup {None}
      BY <2>2, <3>1 DEF OrderInv
    <3> QED BY <1>0, <2>1, <2>5, <3>3, <3>4, <3>5, <3>6 DEF OrderInv
  <2>9. CASE h.fresh # None
    <3> DEFINE f == h.fresh
               u == h.token
    <3>1. /\ Newest(f, row) /\ e.refreshTokenHash = f /\ f \in Nat
          /\ h.after = "done" /\ h.outcome = "ok"
      BY <1>0, <2>1, <2>7, <2>9 DEF Ordered, TokensOK, Pending, Newest
    <3>2. row'.refreshTokenHash = f
      BY <2>3, <3>1
    <3>3. \/ u = None /\ row'.prevRefreshTokenHash = row.prevRefreshTokenHash
          \/ /\ u # None /\ u \in {row.refreshTokenHash, row.prevRefreshTokenHash}
             /\ row'.prevRefreshTokenHash = row.refreshTokenHash
      BY <1>0, <2>1, <2>3, <2>6, <2>9 DEF Ordered
    <3>4. /\ row'.prevRefreshTokenHash \in Token \cup {None}
          /\ row'.prevRefreshTokenHash # None => row'.prevRefreshTokenHash <= f
      BY <2>2, <3>1, <3>3 DEF OrderInv, Newest
    <3>5. CurrentIsNewest'
      BY <1>0, <2>1, <3>1, <3>2, <3>4 DEF CurrentIsNewest, Newest
    <3>6. /\ row.refreshTokenHash \in Nat \cup {None}
          /\ row.prevRefreshTokenHash \in Nat \cup {None}
          /\ None \notin Nat /\ u \in Nat \cup {None} /\ spent \subseteq Nat
      BY <1>0, <2>2, <2>7, ConstantsAssumption DEF Row, Session, OrderInv, Ordered
    <3> HIDE DEF u
    <3>7. u # None => /\ u \in Nat /\ u <= f
                      /\ row.refreshTokenHash # None => u <= row.refreshTokenHash
      <4>1. row.refreshTokenHash # None /\ row.prevRefreshTokenHash # None
                => row.prevRefreshTokenHash <= row.refreshTokenHash
        BY <2>2 DEF OrderInv, CurrentIsNewest
      <4> QED BY <3>1, <3>3, <3>6, <4>1 DEF Newest
    <3>8. u # None => NotAfter(u, row')
      BY <3>1, <3>2, <3>3, <3>7 DEF NotAfter
    <3> USE DEF u
    <3>9. Ordered(proc[p], row)'
      BY <1>0, <2>1, <2>4, <2>5, <2>3, <3>1, <3>2, <3>8 DEF Ordered, Newest, NotAfter
    <3>10. SpentStaysSpent'
      <4> SUFFICES ASSUME NEW v \in spent PROVE NotAfter(v, row')
        BY <2>1, <2>3 DEF SpentStaysSpent, Matchable, NotAfter
      <4>1. v <= f
        BY <3>1 DEF Newest
      <4>2. NotAfter(v, row)
        BY <2>2 DEF OrderInv, SpentStaysSpent, Matchable, NotAfter
      <4>3. /\ row'.refreshTokenHash = f
            /\ row'.prevRefreshTokenHash \in {row.refreshTokenHash, row.prevRefreshTokenHash}
        BY <3>2, <3>3
      <4> HIDE DEF f
      <4> QED BY <4>1, <4>2, <4>3 DEF NotAfter
    <3> QED BY <1>0, <2>1, <2>5, <3>1, <3>2, <3>4, <3>5, <3>9, <3>10
            DEF OrderInv, Newest
  <2> QED BY <2>8, <2>9
<1>3. CASE SaveInsert(p)
  <2>1. h.stage = "insert" /\ UNCHANGED <<issued, delivered, spent>>
    BY <1>3 DEF SaveInsert
  <2>2. CASE row = None /\ row' = Inserted(h.entity) /\ Become(p, Resumed(h))
    <3>1. /\ h.entity \in Entity /\ h.after = "sign"
          /\ h.entity.prevRefreshTokenHash = Unset /\ h.entity.refreshTokenHash = None
      BY <1>0, <2>1 DEF HandlerOK, Ordered
    <3>2. /\ row'.refreshTokenHash = None /\ row'.prevRefreshTokenHash = None
      BY <2>2, <3>1 DEF Inserted, Entity, Session
    <3>3. /\ Resumed(h).stage = "sign" /\ Resumed(h).entity = h.entity
          /\ Resumed(h).token = h.token
      BY <1>0, <3>1 DEF Resumed, Handler
    <3>4. proc'[p] = Resumed(h) /\ Token' = Token
      BY <2>1, <2>2 DEF Become, Token, TypeInv, TypeOK
    <3>5. Ordered(proc[p], row)'
      BY <1>0, <2>1, <3>1, <3>3, <3>4 DEF Ordered
    <3>6. CurrentIsNewest' /\ SpentStaysSpent'
      BY <3>2 DEF CurrentIsNewest, SpentStaysSpent, Matchable
    <3> QED BY <1>0, <2>1, <3>2, <3>4, <3>5, <3>6 DEF OrderInv
  <2>3. CASE Become(p, Answer(h, "ERROR")) /\ UNCHANGED row
    <3>1. Answer(h, "ERROR").stage = "done" /\ Answer(h, "ERROR").token = h.token
          /\ Answer(h, "ERROR").outcome = "ERROR"
      BY <1>0 DEF Answer, Handler
    <3>2. Ordered(Answer(h, "ERROR"), row)
      BY <1>0, <3>1 DEF Ordered
    <3> QED BY <2>1, <2>3, <3>2, OrderQuiet
  <2> QED BY <1>3, <2>2, <2>3 DEF SaveInsert
<1> QED BY <1>1, <1>2, <1>3 DEF Save

(* A handler that calls save() without a new token.                          *)
LEMMA OrderSaving ==
    ASSUME NEW f \in Handler, NEW e, NEW k, f.fresh = None, f.token \in Token \cup {None},
           e.refreshTokenHash \in {None, row.refreshTokenHash},
           e.prevRefreshTokenHash \in {None, Unset, row.prevRefreshTokenHash},
           k = "sign" => e.prevRefreshTokenHash \in {Unset, row.prevRefreshTokenHash}
    PROVE  Ordered(Saving(f, e, k), row)
<1> DEFINE g == Saving(f, e, k)
<1>1. /\ g.stage = "select" /\ g.entity = e /\ g.after = k /\ g.fresh = None
      /\ g.token = f.token
  BY DEF Saving, Handler
<1> HIDE DEF g
<1>2. Ordered(g, row)
  BY <1>1 DEF Ordered
<1> QED BY <1>2 DEF g

(* A handler that answers without a new token.                               *)
LEMMA OrderAnswer ==
    ASSUME OneAtATime, TypeInv, OrderInv, NEW p \in Request, NEW o,
           Become(p, Answer(proc[p], o)), UNCHANGED <<row, issued, delivered, spent>>,
           proc[p].fresh = None
    PROVE  OrderInv'
<1> DEFINE h == proc[p]
           g == Answer(h, o)
<1>1. h \in Handler /\ Ordered(h, row)
  BY DEF TypeInv, TypeOK, OrderInv
<1>2. g.stage = "done" /\ g.token = h.token /\ g.fresh = None
  BY <1>1 DEF Answer, Handler
<1> HIDE DEF g
<1>3. Ordered(g, row)
  BY <1>1, <1>2 DEF Ordered
<1> QED BY <1>3, OrderQuiet DEF g

(* A handler that signs a token, for a login or for the token of a refresh,  *)
(* and saves it.                                                             *)
LEMMA OrderSign ==
    ASSUME OneAtATime, TypeInv, OrderInv, row \in Row, NEW p \in Request,
           NEW t \in 1 .. MaxTokens, Sign(t), NEW g, Become(p, g),
           UNCHANGED <<row, delivered, spent>>,
           g.stage = "select", g.fresh = t, g.after = "done",
           g.token \in Token \cup {None}, g.entity.refreshTokenHash = t,
           IF g.token = None
           THEN g.entity.prevRefreshTokenHash \in {Unset, row.prevRefreshTokenHash}
           ELSE /\ g.entity.prevRefreshTokenHash = row.refreshTokenHash
                /\ g.token \in {row.refreshTokenHash, row.prevRefreshTokenHash}
    PROVE  OrderInv'
<1>1. /\ delivered \subseteq Token /\ spent \subseteq Token
      /\ \A q \in Request : q = p
      /\ row.refreshTokenHash \in Token \cup {None}
      /\ row.prevRefreshTokenHash \in Token \cup {None}
  BY RowFacts DEF OrderInv, OneAtATime
<1>2. /\ t # None /\ t \in Token' /\ Token \subseteq Token'
      /\ \A u \in Token' : u <= t
  BY SignedNewest
<1>3. proc'[p] = g
  BY DEF Become, TypeInv, TypeOK
<1>4. Newest(t, row)'
  BY <1>1, <1>2 DEF Newest
<1>5. Ordered(proc[p], row)'
  BY <1>2, <1>3, <1>4 DEF Ordered
<1>6. CurrentIsNewest' /\ SpentStaysSpent'
  BY DEF OrderInv, CurrentIsNewest, SpentStaysSpent, Matchable
<1> QED BY <1>1, <1>2, <1>5, <1>6 DEF OrderInv

LEMMA OrderLogin ==
    ASSUME OneAtATime, TypeInv, TokenInv, SerialInv, OrderInv, NEW p \in Request, Login(p)
    PROVE  OrderInv'
<1> DEFINE h == proc[p]
<1>0. /\ h \in Handler /\ HandlerOK(h, row) /\ Faithful(h, row) /\ Ordered(h, row)
      /\ TokensOK(h) /\ now \in Nat /\ row \in Row \cup {None}
  BY DEF TypeInv, TypeOK, SerialInv, OrderInv, TokenInv
<1>1. ASSUME NEW d \in Device, LoginStart(p, d) PROVE OrderInv'
  <2> DEFINE g == [Idle EXCEPT !.stage = "findPrev", !.device = d]
  <2>1. /\ g.stage = "findPrev" /\ g.token = None
    BY DEF Idle
  <2>2. Become(p, g) /\ UNCHANGED <<row, issued, delivered, spent>>
    BY <1>1 DEF LoginStart
  <2> HIDE DEF g
  <2>3. Ordered(g, row)
    BY <2>1 DEF Ordered
  <2> QED BY <2>2, <2>3, OrderQuiet
<1>2. CASE LoginFindPrev(p)
  <2>1. /\ h.stage = "findPrev" /\ h.fresh = None
        /\ UNCHANGED <<row, issued, delivered, spent>>
    BY <1>0, <1>2 DEF LoginFindPrev, TokensOK
  <2>2. CASE Live(row) /\ Become(p, Saving(h, RevokedEntity(row), "kick"))
    <3>1. row \in Row
      BY <1>0, <2>2 DEF Live
    <3>2. /\ RevokedEntity(row).refreshTokenHash = None
          /\ RevokedEntity(row).prevRefreshTokenHash = row.prevRefreshTokenHash
      BY <3>1 DEF RevokedEntity, Row, Session
    <3>3. h.token \in Token \cup {None}
      BY <1>0 DEF Ordered
    <3>4. Ordered(Saving(h, RevokedEntity(row), "kick"), row)
      BY <1>0, <2>1, <3>2, <3>3, OrderSaving
    <3> QED BY <2>1, <2>2, <3>4, OrderQuiet
  <2>3. CASE Become(p, [h EXCEPT !.stage = "upsert"])
    <3> DEFINE g == [h EXCEPT !.stage = "upsert"]
    <3>1. g.stage = "upsert" /\ g.token = h.token
      BY <1>0 DEF Handler
    <3> HIDE DEF g
    <3>2. Ordered(g, row)
      BY <1>0, <3>1 DEF Ordered
    <3> QED BY <2>1, <2>3, <3>2, OrderQuiet DEF g
  <2> QED BY <1>2, <2>2, <2>3 DEF LoginFindPrev
<1>3. CASE LoginKick(p)
  <2> DEFINE g == [h EXCEPT !.stage = "upsert"]
  <2>1. Become(p, g) /\ UNCHANGED <<row, issued, delivered, spent>>
    BY <1>3 DEF LoginKick
  <2>2. g.stage = "upsert" /\ g.token = h.token
    BY <1>0 DEF Handler
  <2> HIDE DEF g
  <2>3. Ordered(g, row)
    BY <1>0, <2>2 DEF Ordered
  <2> QED BY <2>1, <2>3, OrderQuiet
<1>4. CASE LoginUpsert(p)
  <2>1. /\ h.stage = "upsert" /\ h.fresh = None
        /\ UNCHANGED <<row, issued, delivered, spent>>
    BY <1>0, <1>4 DEF LoginUpsert, TokensOK
  <2>2. CASE row # None /\ Become(p, Saving(h, Activated(row, h.device), "sign"))
    <3>1. row \in Row
      BY <1>0, <2>2
    <3>2. /\ Activated(row, h.device).refreshTokenHash = row.refreshTokenHash
          /\ Activated(row, h.device).prevRefreshTokenHash = row.prevRefreshTokenHash
      BY <3>1 DEF Activated, Row, Session
    <3>3. h.token \in Token \cup {None}
      BY <1>0 DEF Ordered
    <3>4. Ordered(Saving(h, Activated(row, h.device), "sign"), row)
      BY <1>0, <2>1, <3>2, <3>3, OrderSaving
    <3> QED BY <2>1, <2>2, <3>4, OrderQuiet
  <2>3. CASE Become(p, [h EXCEPT !.stage = "insert", !.after = "sign",
                                 !.entity = Created(h.device)])
    <3> DEFINE g == [h EXCEPT !.stage = "insert", !.after = "sign",
                              !.entity = Created(h.device)]
    <3>1. /\ g.stage = "insert" /\ g.token = h.token
          /\ g.entity.refreshTokenHash = None /\ g.entity.prevRefreshTokenHash = Unset
      BY <1>0 DEF Handler, Created
    <3> HIDE DEF g
    <3>2. Ordered(g, row)
      BY <1>0, <3>1 DEF Ordered
    <3> QED BY <2>1, <2>3, <3>2, OrderQuiet DEF g
  <2> QED BY <1>4, <2>2, <2>3 DEF LoginUpsert
<1>5. CASE LoginSign(p)
  <2>0. PICK t \in 1 .. MaxTokens :
            /\ Sign(t)
            /\ Become(p, Saving([h EXCEPT !.fresh = t, !.outcome = "ok"],
                                [h.entity EXCEPT !.refreshTokenHash = t,
                                                 !.lastUsedAt = now],
                                "done"))
    BY <1>5 DEF LoginSign
  <2> DEFINE e == [h.entity EXCEPT !.refreshTokenHash = t, !.lastUsedAt = now]
             f == [h EXCEPT !.fresh = t, !.outcome = "ok"]
             g == Saving(f, e, "done")
  <2>1. /\ h.stage = "sign" /\ Sign(t) /\ Become(p, g)
        /\ UNCHANGED <<row, delivered, spent>>
    BY <1>5, <2>0 DEF LoginSign
  <2>2. h.entity \in Entity /\ row \in Row
    BY <1>0, <2>1 DEF HandlerOK
  <2>3. /\ e.refreshTokenHash = t
        /\ e.prevRefreshTokenHash = h.entity.prevRefreshTokenHash
    BY <2>2 DEF Entity, Session
  <2>4. /\ g.stage = "select" /\ g.fresh = t /\ g.after = "done"
        /\ g.entity = e /\ g.token = h.token
    BY <1>0 DEF Saving, Handler
  <2> HIDE DEF e, g
  <2>5. h.entity.prevRefreshTokenHash \in {Unset, row.prevRefreshTokenHash}
        /\ h.token = None
    BY <1>0, <2>1 DEF Ordered, Faithful
  <2> QED BY <2>1, <2>2, <2>3, <2>4, <2>5, OrderSign
<1> QED BY <1>1, <1>2, <1>3, <1>4, <1>5 DEF Login

LEMMA OrderRefresh ==
    ASSUME OneAtATime, TypeInv, TokenInv, SerialInv, OrderInv, NEW p \in Request, Refresh(p)
    PROVE  OrderInv'
<1> DEFINE h == proc[p]
<1>0. /\ h \in Handler /\ HandlerOK(h, row) /\ Faithful(h, row) /\ Ordered(h, row)
      /\ TokensOK(h) /\ now \in Nat /\ row \in Row \cup {None}
      /\ h.token \in Token \cup {None}
  BY DEF TypeInv, TypeOK, SerialInv, OrderInv, TokenInv, Ordered
<1>1. ASSUME NEW t \in delivered, NEW d \in Device \cup {None}, RefreshStart(p, t, d)
      PROVE  OrderInv'
  <2> DEFINE g == [Idle EXCEPT !.stage = "load", !.token = t, !.device = d]
  <2>1. /\ g.stage = "load" /\ g.token \in Token
    BY DEF Idle, OrderInv
  <2>2. Become(p, g) /\ UNCHANGED <<row, issued, delivered, spent>>
    BY <1>1 DEF RefreshStart
  <2> HIDE DEF g
  <2>3. Ordered(g, row)
    BY <2>1 DEF Ordered
  <2> QED BY <2>2, <2>3, OrderQuiet
<1>2. CASE RefreshLoad(p)
  <2>1. /\ h.stage = "load" /\ h.fresh = None
        /\ UNCHANGED <<row, issued, delivered, spent>>
    BY <1>0, <1>2 DEF RefreshLoad, TokensOK
  <2>2. CASE Become(p, Answer(h, "SESSION_REVOKED"))
    BY <2>1, <2>2, OrderAnswer
  <2>3. CASE /\ Live(row)
             /\ Become(p, Saving([h EXCEPT !.outcome = "DEVICE_MISMATCH"],
                                 RevokedEntity(row), "done"))
    <3> DEFINE f == [h EXCEPT !.outcome = "DEVICE_MISMATCH"]
    <3>1. f \in Handler /\ f.fresh = None /\ f.token = h.token
      BY <1>0, <2>1 DEF Handler, Outcome
    <3>2. row \in Row
      BY <1>0, <2>3 DEF Live
    <3>3. /\ RevokedEntity(row).refreshTokenHash = None
          /\ RevokedEntity(row).prevRefreshTokenHash = row.prevRefreshTokenHash
      BY <3>2 DEF RevokedEntity, Row, Session
    <3> HIDE DEF f
    <3>4. Ordered(Saving(f, RevokedEntity(row), "done"), row)
      BY <1>0, <3>1, <3>3, OrderSaving
    <3> QED BY <2>1, <2>3, <3>4, OrderQuiet DEF f
  <2>4. CASE Live(row) /\ Become(p, [h EXCEPT !.stage = "match", !.entity = row])
    <3> DEFINE g == [h EXCEPT !.stage = "match", !.entity = row]
    <3>1. g.stage = "match" /\ g.token = h.token
      BY <1>0 DEF Handler
    <3> HIDE DEF g
    <3>2. Ordered(g, row)
      BY <1>0, <3>1 DEF Ordered
    <3> QED BY <2>1, <2>4, <3>2, OrderQuiet DEF g
  <2> QED BY <1>2, <2>2, <2>3, <2>4 DEF RefreshLoad
<1>3. CASE RefreshMatch(p)
  <2> DEFINE e == [RevokedEntity(h.entity) EXCEPT !.prevRefreshTokenHash = None,
                                                  !.prevRotatedAt = None]
             f == [h EXCEPT !.outcome = "INVALID_REFRESH"]
  <2>1. /\ h.stage = "match" /\ h.fresh = None
        /\ UNCHANGED <<row, issued, delivered, spent>>
        /\ \/ /\ MatchesCurrent(h.entity, h.token) \/ MatchesPrev(h.entity, h.token)
              /\ Become(p, [h EXCEPT !.stage = "user"])
           \/ Become(p, Answer(h, "REFRESH_STALE"))
           \/ Become(p, Saving(f, e, "done"))
    BY <1>0, <1>3 DEF RefreshMatch, TokensOK
  <2>2. /\ h.entity \in Row /\ h.entity = row /\ h.token \in Nat
    BY <1>0, <2>1 DEF HandlerOK, Faithful
  <2>3. CASE /\ MatchesCurrent(h.entity, h.token) \/ MatchesPrev(h.entity, h.token)
             /\ Become(p, [h EXCEPT !.stage = "user"])
    <3> DEFINE g == [h EXCEPT !.stage = "user"]
    <3>1. g.stage = "user" /\ g.token = h.token
      BY <1>0 DEF Handler
    <3>2. h.token \in {row.refreshTokenHash, row.prevRefreshTokenHash} /\ h.token # None
      BY <2>2, <2>3, ConstantsAssumption DEF MatchesCurrent, MatchesPrev
    <3> HIDE DEF g
    <3>3. Ordered(g, row)
      BY <1>0, <3>1, <3>2 DEF Ordered
    <3> QED BY <2>1, <2>3, <3>3, OrderQuiet DEF g
  <2>4. CASE Become(p, Answer(h, "REFRESH_STALE"))
    BY <2>1, <2>4, OrderAnswer
  <2>5. CASE Become(p, Saving(f, e, "done"))
    <3>1. f \in Handler /\ f.fresh = None /\ f.token = h.token
      BY <1>0, <2>1 DEF Handler, Outcome
    <3>2. e.refreshTokenHash = None /\ e.prevRefreshTokenHash = None
      BY <2>2 DEF RevokedEntity, Row, Session
    <3> HIDE DEF e, f
    <3>3. Ordered(Saving(f, e, "done"), row)
      BY <1>0, <3>1, <3>2, OrderSaving
    <3> QED BY <2>1, <2>5, <3>3, OrderQuiet
  <2> QED BY <2>1, <2>3, <2>4, <2>5
<1>4. CASE RefreshRotate(p)
  <2>0. PICK t \in 1 .. MaxTokens :
            /\ Sign(t)
            /\ Become(p, Saving([h EXCEPT !.fresh = t, !.outcome = "ok"],
                                Rotated(h.entity, t), "done"))
    BY <1>4 DEF RefreshRotate
  <2> DEFINE e == Rotated(h.entity, t)
             f == [h EXCEPT !.fresh = t, !.outcome = "ok"]
             g == Saving(f, e, "done")
  <2>1. /\ h.stage = "user" /\ Sign(t) /\ Become(p, g)
        /\ UNCHANGED <<row, delivered, spent>>
    BY <1>4, <2>0 DEF RefreshRotate
  <2>2. h.entity \in Row /\ h.entity = row
    BY <1>0, <2>1 DEF HandlerOK, Faithful
  <2>3. /\ e.refreshTokenHash = t
        /\ e.prevRefreshTokenHash = row.refreshTokenHash
    BY <2>2 DEF Rotated, Row, Session
  <2>4. /\ g.stage = "select" /\ g.fresh = t /\ g.after = "done"
        /\ g.entity = e /\ g.token = h.token
    BY <1>0 DEF Saving, Handler
  <2> HIDE DEF e, g
  <2>5. h.token \in {row.refreshTokenHash, row.prevRefreshTokenHash} /\ h.token # None
    BY <1>0, <2>1 DEF Ordered
  <2> QED BY <1>0, <2>1, <2>2, <2>3, <2>4, <2>5, OrderSign
<1>5. CASE RefreshNoUser(p)
  <2>1. /\ h.fresh = None
        /\ UNCHANGED <<row, issued, delivered, spent>>
        /\ Become(p, Answer(h, "USER_NOT_FOUND"))
    BY <1>0, <1>5 DEF RefreshNoUser, TokensOK
  <2> QED BY <2>1, OrderAnswer
<1> QED BY <1>1, <1>2, <1>3, <1>4, <1>5 DEF Refresh

LEMMA OrderLogout ==
    ASSUME OneAtATime, TypeInv, TokenInv, OrderInv, NEW p \in Request, Logout(p)
    PROVE  OrderInv'
<1> DEFINE h == proc[p]
<1>0. /\ h \in Handler /\ TokensOK(h) /\ row \in Row \cup {None}
      /\ h.token \in Token \cup {None}
  BY DEF TypeInv, TypeOK, OrderInv, TokenInv, Ordered
<1>1. CASE LogoutStart(p)
  <2> DEFINE g == [Idle EXCEPT !.stage = "logout"]
  <2>1. /\ g.stage = "logout" /\ g.token = None
    BY DEF Idle
  <2>2. Become(p, g) /\ UNCHANGED <<row, issued, delivered, spent>>
    BY <1>1 DEF LogoutStart
  <2> HIDE DEF g
  <2>3. Ordered(g, row)
    BY <2>1 DEF Ordered
  <2> QED BY <2>2, <2>3, OrderQuiet
<1>2. CASE LogoutLoad(p)
  <2>1. /\ h.stage = "logout" /\ h.fresh = None
        /\ UNCHANGED <<row, issued, delivered, spent>>
    BY <1>0, <1>2 DEF LogoutLoad, TokensOK
  <2>2. CASE Live(row) /\ Become(p, Saving(h, RevokedEntity(row), "done"))
    <3>1. row \in Row
      BY <1>0, <2>2 DEF Live
    <3>2. /\ RevokedEntity(row).refreshTokenHash = None
          /\ RevokedEntity(row).prevRefreshTokenHash = row.prevRefreshTokenHash
      BY <3>1 DEF RevokedEntity, Row, Session
    <3>3. Ordered(Saving(h, RevokedEntity(row), "done"), row)
      BY <1>0, <2>1, <3>2, OrderSaving
    <3> QED BY <2>1, <2>2, <3>3, OrderQuiet
  <2>3. CASE Become(p, Answer(h, "ok"))
    BY <2>1, <2>3, OrderAnswer
  <2> QED BY <1>2, <2>2, <2>3 DEF LogoutLoad
<1> QED BY <1>1, <1>2 DEF Logout

LEMMA OrderRest ==
    ASSUME OneAtATime, TypeInv, OrderInv,
           \/ \E p \in Request : Reply(p) \/ LoseReply(p)
           \/ Crash
           \/ Tick
           \/ UNCHANGED vars
    PROVE  OrderInv'
<1>0. \A r : Ordered(Idle, r) /\ Ordered(Idle, r)'
  BY DEF Idle, Ordered
<1>1. ASSUME NEW p \in Request, LoseReply(p) PROVE OrderInv'
  BY <1>0, <1>1, OrderQuiet DEF LoseReply
<1>2. ASSUME NEW p \in Request, Reply(p) PROVE OrderInv'
  <2> DEFINE h == proc[p]
             f == h.fresh
  <2>1. /\ h.stage = "done" /\ UNCHANGED <<row, issued>> /\ Become(p, Idle)
    BY <1>2 DEF Reply
  <2>2. CASE ~Granted(h)
    <3>1. UNCHANGED <<delivered, spent>>
      BY <1>2, <2>2 DEF Reply
    <3> QED BY <1>0, <2>1, <3>1, OrderQuiet
  <2>3. CASE Granted(h)
    <3>1. /\ h.outcome = "ok" /\ f # None
          /\ delivered' = delivered \cup {f} /\ spent' = spent \cup ({h.token} \ {None})
      BY <1>2, <2>3 DEF Reply, Granted
    <3>2. /\ f \in Token /\ row # None /\ row.refreshTokenHash = f
          /\ \A t \in delivered : t <= f
          /\ h.token # None => NotAfter(h.token, row)
          /\ h.token \in Token \cup {None}
      BY <2>1, <3>1 DEF OrderInv, Ordered
    <3> HIDE DEF f
    <3>3. Token' = Token /\ Token \subseteq Nat
      BY <2>1 DEF Token
    <3>4. \A q \in Request : proc'[q] = Idle
      BY <2>1 DEF Become, OneAtATime, TypeInv, TypeOK
    <3>5. CurrentIsNewest'
      <4>1. f <= f
        BY <3>2, <3>3
      <4>2. \A t \in delivered' : t <= f
        BY <3>1, <3>2, <4>1
      <4> QED BY <2>1, <3>2, <4>2 DEF OrderInv, CurrentIsNewest
    <3>6. SpentStaysSpent'
      BY <2>1, <3>1, <3>2 DEF OrderInv, SpentStaysSpent, Matchable, NotAfter
    <3> QED BY <1>0, <2>1, <3>1, <3>2, <3>3, <3>4, <3>5, <3>6 DEF OrderInv
  <2> QED BY <2>2, <2>3
<1>3. CASE Crash
  <2>1. Token' = Token /\ \A q \in Request : proc'[q] = Idle
    BY <1>3 DEF Crash, Token
  <2> QED BY <1>0, <1>3, <2>1
          DEF Crash, OrderInv, CurrentIsNewest, SpentStaysSpent, Matchable
<1>4. CASE Tick \/ UNCHANGED vars
  <2>1. UNCHANGED <<row, issued, delivered, spent, proc>> /\ Token' = Token
    BY <1>4 DEF Tick, vars, Token
  <2>2. \A q \in Request : Ordered(proc[q], row)'
    BY <2>1 DEF OrderInv, Ordered, Newest, NotAfter
  <2> QED BY <2>1, <2>2
          DEF OrderInv, CurrentIsNewest, SpentStaysSpent, Matchable
<1> QED BY <1>1, <1>2, <1>3, <1>4

LEMMA OrderInit == Init => OrderInv
BY DEF Init, OrderInv, Token, CurrentIsNewest, SpentStaysSpent, Ordered, Idle

LEMMA OrderInvHolds == ASSUME OneAtATime PROVE Spec => []OrderInv
<1>1. TypeInv /\ TokenInv /\ SerialInv /\ OrderInv /\ [Next]_vars => OrderInv'
  BY OrderSave, OrderLogin, OrderRefresh, OrderLogout, OrderRest DEF Next
<1> QED BY <1>1, OrderInit, TypeInvHolds, TokenInvHolds, SerialInvHolds, PTL DEF Spec

\* Of requests that do not overlap, the current token is the newest that any
\* client holds, however many answers were lost and wherever a crash struck.
THEOREM CurrentNewest == ASSUME OneAtATime PROVE Spec => []CurrentIsNewest
<1>1. OrderInv => CurrentIsNewest
  BY DEF OrderInv
<1> QED BY <1>1, OrderInvHolds, PTL

\* Of requests that do not overlap, what is older than a token whose refresh a
\* client saw answered is never accepted again.
THEOREM SpentSpent == ASSUME OneAtATime PROVE Spec => []SpentStaysSpent
<1>1. OrderInv => SpentStaysSpent
  BY DEF OrderInv
<1> QED BY <1>1, OrderInvHolds, PTL

-----------------------------------------------------------------------------
(* One request at a time: the row implements TokenChain.  A save without a   *)
(* new token leaves no current one, and ends the chain; a save with one      *)
(* begins or rotates it.  A login begins it: the row has no current token    *)
(* from its first revocation to its last save.                               *)

\* Handler h is a login that has looked for a live session.
PastRevocation(h) ==
    \/ h.stage \in {"kick", "upsert", "insert", "sign"}
    \/ h.stage \in {"select", "update"} /\ h.after = "sign"
    \/ Pending(h) /\ h.token = None

ChainOK(h) ==
    /\ PastRevocation(h) => row = None \/ row.refreshTokenHash = None
    /\ Pending(h) => \A t \in stored : t <= h.fresh
    /\ h.stage \in {"select", "update"} /\ h.fresh = None /\ h.after # "sign"
         => h.entity.refreshTokenHash = None

ChainInv ==
    /\ Len(issued) <= MaxTokens
    /\ stored \subseteq Token
    /\ \A p \in Request : ChainOK(proc[p])

LEMMA ChainQuiet ==
    ASSUME OneAtATime, TypeInv, ChainInv, NEW p \in Request, NEW g, Become(p, g),
           UNCHANGED <<row, issued, stored>>, ChainOK(g)
    PROVE  ChainInv'
<1>1. proc'[p] = g /\ \A q \in Request : q = p
  BY DEF Become, TypeInv, TypeOK, OneAtATime
<1>2. Token' = Token
  BY DEF Token
<1>3. \A q \in Request : ChainOK(proc[q])'
  <2> SUFFICES ASSUME NEW q \in Request PROVE ChainOK(proc[q])'
    OBVIOUS
  <2>1. proc'[q] = g
    BY <1>1
  <2> QED BY <2>1 DEF ChainOK, PastRevocation, Pending
<1> QED BY <1>2, <1>3 DEF ChainInv

(* A handler outside of a login and of a save.                               *)
LEMMA ChainIdle ==
    ASSUME NEW g,
           g.stage \in {"idle", "findPrev", "load", "match", "user", "logout", "done"}
    PROVE  ChainOK(g)
<1> QED BY DEF ChainOK, PastRevocation, Pending

(* A handler that saves a revoked session.                                   *)
LEMMA ChainRevoking ==
    ASSUME NEW f \in Handler, NEW e, NEW k \in {"kick", "done"}, f.fresh = None,
           e.refreshTokenHash = None
    PROVE  ChainOK(Saving(f, e, k))
<1> DEFINE g == Saving(f, e, k)
<1>1. g.stage = "select" /\ g.entity = e /\ g.after = k /\ g.fresh = None
  BY DEF Saving, Handler
<1> HIDE DEF g
<1>2. ChainOK(g)
  BY <1>1 DEF ChainOK, PastRevocation, Pending
<1> QED BY <1>2 DEF g

(* A handler that signs a token, for a login or for the token of a refresh,  *)
(* and saves it.                                                             *)
LEMMA ChainSign ==
    ASSUME OneAtATime, TypeInv, ChainInv, NEW p \in Request,
           NEW t \in 1 .. MaxTokens, Sign(t), NEW g,
           Become(p, g), UNCHANGED <<row, stored>>,
           g.stage = "select", g.fresh = t, g.after = "done",
           g.token = None => row = None \/ row.refreshTokenHash = None
    PROVE  ChainInv'
<1>1. /\ t # None /\ t \in Token' /\ Token \subseteq Token'
      /\ \A u \in Token' : u <= t
      /\ Len(issued') <= MaxTokens
      /\ \A q \in Request : q = p
  BY SignedNewest DEF OneAtATime
<1>2. proc'[p] = g
  BY DEF Become, TypeInv, TypeOK
<1>3. \A u \in stored : u <= t
  BY <1>1 DEF ChainInv
<1>4. ChainOK(proc[p])'
  BY <1>1, <1>2, <1>3 DEF ChainOK, PastRevocation, Pending
<1> QED BY <1>1, <1>4 DEF ChainInv

LEMMA ChainSave ==
    ASSUME OneAtATime, TypeInv, TokenInv, SerialInv, OrderInv, ChainInv,
           NEW p \in Request, Save(p)
    PROVE  ChainInv' /\ [Chain!Next]_(Chain!vars)
<1> DEFINE h == proc[p]
<1>0. /\ h \in Handler /\ HandlerOK(h, row) /\ Faithful(h, row) /\ Ordered(h, row)
      /\ TokensOK(h) /\ ChainOK(h)
      /\ \A q \in Request : q = p
      /\ row \in Row \cup {None}
  BY DEF TypeInv, TypeOK, SerialInv, OrderInv, TokenInv, ChainInv, OneAtATime
<1>1. CASE SaveSelect(p)
  <2> DEFINE ds == Differs(row, h.entity) \cup Salted(h)
             g == [h EXCEPT !.stage = "update", !.dirty = ds]
  <2>1. h.stage = "select" /\ Become(p, g) /\ UNCHANGED <<row, issued, stored>>
    BY <1>1 DEF SaveSelect
  <2>2. /\ g.stage = "update" /\ g.entity = h.entity /\ g.fresh = h.fresh
        /\ g.after = h.after /\ g.token = h.token
    BY <1>0 DEF Handler
  <2> HIDE DEF g
  <2>3. ChainOK(g)
    BY <1>0, <2>1, <2>2 DEF ChainOK, PastRevocation, Pending
  <2>4. UNCHANGED Chain!vars
    BY <2>1 DEF Chain!vars, Hash
  <2> QED BY <2>1, <2>3, <2>4, ChainQuiet
<1>2. CASE SaveUpdate(p)
  <2> DEFINE e == h.entity
             f == h.fresh
             g == Resumed(h)
  <2>1. /\ h.stage = "update" /\ Become(p, g)
        /\ row' = Written(row, e, h.dirty)
        /\ stored' = stored \cup ({row'.refreshTokenHash} \ {None})
        /\ UNCHANGED issued
    BY <1>2 DEF SaveUpdate
  <2>2. row \in Row /\ row # None /\ e \in Entity
    BY <1>0, <2>1 DEF HandlerOK
  <2>3. /\ row'.refreshTokenHash = e.refreshTokenHash
        /\ row'.prevRefreshTokenHash = IF e.prevRefreshTokenHash = Unset
                                       THEN row.prevRefreshTokenHash
                                       ELSE e.prevRefreshTokenHash
        /\ row' # None
    BY <1>0, <2>1, <2>2, WrittenDiffers DEF Faithful
  <2>4. g.stage = h.after /\ g.fresh = f /\ h.after \in {"kick", "sign", "done"}
    BY <1>0 DEF Resumed, Handler
  <2> HIDE DEF g
  <2>5. /\ proc'[p] = g /\ Token' = Token
    BY <2>1 DEF Become, Token, TypeInv, TypeOK
  <2>6. row.prevRefreshTokenHash # Unset /\ row.refreshTokenHash # Unset /\ None # Unset
    BY <2>2, ConstantsAssumption DEF Row, Session
  <2>7. /\ Hash("refreshTokenHash") = row.refreshTokenHash
        /\ Hash("prevRefreshTokenHash") = row.prevRefreshTokenHash
        /\ Hash("refreshTokenHash")' = row'.refreshTokenHash
        /\ Hash("prevRefreshTokenHash")' = row'.prevRefreshTokenHash
    BY <2>2, <2>3 DEF Hash
  <2>8. CASE f = None
    <3>1. row'.refreshTokenHash = None
      <4>1. CASE h.after = "sign"
        BY <1>0, <2>1, <2>2, <2>3, <2>8, <4>1 DEF ChainOK, PastRevocation, Ordered
      <4>2. CASE h.after # "sign"
        BY <1>0, <2>1, <2>3, <2>8, <4>2 DEF ChainOK
      <4> QED BY <4>1, <4>2
    <3>2. row'.prevRefreshTokenHash \in {row.prevRefreshTokenHash, None}
      BY <1>0, <2>1, <2>3, <2>8 DEF Ordered
    <3>3. stored' = stored
      BY <2>1, <3>1
    <3>4. ChainOK(proc[p])'
      BY <2>4, <2>5, <3>1 DEF ChainOK, PastRevocation, Pending
    <3>5. Chain!End
      BY <2>7, <3>1, <3>2, <3>3 DEF Chain!End
    <3> QED BY <1>0, <2>1, <2>5, <3>3, <3>4, <3>5 DEF ChainInv, Chain!Next
  <2>9. CASE f # None
    <3> DEFINE u == h.token
    <3>1. /\ f \in Token /\ e.refreshTokenHash = f /\ h.after = "done"
          /\ \A t \in stored : t <= f
      BY <1>0, <2>1, <2>4, <2>9 DEF Ordered, TokensOK, ChainOK, Pending, Newest
    <3>2. row'.refreshTokenHash = f /\ stored' = stored \cup {f}
      BY <2>1, <2>3, <2>9, <3>1
    <3>3. f \in 1 .. MaxTokens
      <4>1. Len(issued) \in Nat /\ MaxTokens \in Nat /\ Len(issued) <= MaxTokens
        BY ConstantsAssumption DEF TypeInv, TypeOK, ChainInv
      <4> QED BY <3>1, <4>1 DEF Token
    <3>4. Chain!Extend(f)
      BY <2>7, <3>1, <3>2 DEF Chain!Extend
    <3>5. Chain!Next
      <4>1. CASE u = None
        <5>1. row.refreshTokenHash = None
          BY <1>0, <2>1, <2>2, <2>9, <4>1 DEF ChainOK, PastRevocation, Pending
        <5>2. row'.prevRefreshTokenHash = row.prevRefreshTokenHash
          BY <1>0, <2>1, <2>3, <2>6, <2>9, <4>1 DEF Ordered
        <5>3. Chain!Begin(f)
          BY <2>7, <3>4, <5>1, <5>2 DEF Chain!Begin
        <5> QED BY <3>3, <5>3 DEF Chain!Next
      <4>2. CASE u # None
        <5>1. /\ row'.prevRefreshTokenHash = row.refreshTokenHash
              /\ u \in {row.refreshTokenHash, row.prevRefreshTokenHash}
          BY <1>0, <2>1, <2>3, <2>6, <2>9, <4>2 DEF Ordered
        <5>2. {row.refreshTokenHash, row.prevRefreshTokenHash} # {None}
          BY <4>2, <5>1
        <5>3. Chain!Rotate(f)
          BY <2>7, <3>4, <5>1, <5>2 DEF Chain!Rotate
        <5> QED BY <3>3, <5>3 DEF Chain!Next
      <4> QED BY <4>1, <4>2
    <3>6. ChainOK(proc[p])'
      BY <2>4, <2>5, <3>1, ChainIdle DEF ChainOK, PastRevocation, Pending
    <3> QED BY <1>0, <2>1, <2>5, <3>1, <3>2, <3>5, <3>6 DEF ChainInv
  <2> QED BY <2>8, <2>9
<1>3. CASE SaveInsert(p)
  <2>1. h.stage = "insert" /\ UNCHANGED <<issued, stored>>
    BY <1>3 DEF SaveInsert
  <2>2. CASE row = None /\ row' = Inserted(h.entity) /\ Become(p, Resumed(h))
    <3>1. h.entity \in Entity /\ h.after = "sign" /\ h.entity.refreshTokenHash = None
      BY <1>0, <2>1 DEF HandlerOK, Ordered
    <3>2. row'.refreshTokenHash = None /\ row'.prevRefreshTokenHash = None
      BY <2>2, <3>1 DEF Inserted, Entity, Session
    <3>3. Resumed(h).stage = "sign"
      BY <1>0, <3>1 DEF Resumed, Handler
    <3>4. proc'[p] = Resumed(h) /\ Token' = Token
      BY <2>1, <2>2 DEF Become, Token, TypeInv, TypeOK
    <3>5. ChainOK(proc[p])'
      BY <3>2, <3>3, <3>4 DEF ChainOK, PastRevocation, Pending
    <3>6. UNCHANGED Chain!vars
      BY <2>1, <2>2, <3>2 DEF Chain!vars, Hash
    <3> QED BY <1>0, <2>1, <3>4, <3>5, <3>6 DEF ChainInv
  <2>3. CASE Become(p, Answer(h, "ERROR")) /\ UNCHANGED row
    <3>1. ChainOK(Answer(h, "ERROR"))
      <4>1. Answer(h, "ERROR").stage = "done"
        BY <1>0 DEF Answer, Handler
      <4> QED BY <4>1, ChainIdle
    <3>2. UNCHANGED Chain!vars
      BY <2>1, <2>3 DEF Chain!vars, Hash
    <3> QED BY <2>1, <2>3, <3>1, <3>2, ChainQuiet
  <2> QED BY <1>3, <2>2, <2>3 DEF SaveInsert
<1> QED BY <1>1, <1>2, <1>3 DEF Save

LEMMA ChainLogin ==
    ASSUME OneAtATime, TypeInv, TokenInv, SerialInv, OrderInv, ChainInv,
           NEW p \in Request, Login(p)
    PROVE  ChainInv'
<1> DEFINE h == proc[p]
<1>0. /\ h \in Handler /\ HandlerOK(h, row) /\ Faithful(h, row) /\ TokensOK(h)
      /\ ChainOK(h) /\ row \in Row \cup {None} /\ RevocationIsComplete
  BY DEF TypeInv, TypeOK, SerialInv, TokenInv, ChainInv
<1>1. ASSUME NEW d \in Device, LoginStart(p, d) PROVE ChainInv'
  <2> DEFINE g == [Idle EXCEPT !.stage = "findPrev", !.device = d]
  <2>1. g.stage = "findPrev"
    BY DEF Idle
  <2>2. Become(p, g) /\ UNCHANGED <<row, issued, stored>>
    BY <1>1 DEF LoginStart
  <2> HIDE DEF g
  <2>3. ChainOK(g)
    BY <2>1, ChainIdle
  <2> QED BY <2>2, <2>3, ChainQuiet
<1>2. CASE LoginFindPrev(p)
  <2>1. /\ h.stage = "findPrev" /\ UNCHANGED <<row, issued, stored>> /\ h.fresh = None
    BY <1>0, <1>2 DEF LoginFindPrev, TokensOK
  <2>2. CASE Live(row) /\ Become(p, Saving(h, RevokedEntity(row), "kick"))
    <3>1. row \in Row
      BY <1>0, <2>2 DEF Live
    <3>2. RevokedEntity(row).refreshTokenHash = None
      BY <3>1 DEF RevokedEntity, Row, Session
    <3>3. ChainOK(Saving(h, RevokedEntity(row), "kick"))
      BY <1>0, <2>1, <3>2, ChainRevoking
    <3> QED BY <2>1, <2>2, <3>3, ChainQuiet
  <2>3. CASE ~Live(row) /\ Become(p, [h EXCEPT !.stage = "upsert"])
    <3> DEFINE g == [h EXCEPT !.stage = "upsert"]
    <3>1. g.stage = "upsert" /\ g.fresh = None
      BY <1>0, <2>1 DEF Handler
    <3> HIDE DEF g
    <3>2. row = None \/ row.refreshTokenHash = None
      BY <1>0, <2>3 DEF Live, RevocationIsComplete
    <3>3. ChainOK(g)
      BY <3>1, <3>2 DEF ChainOK, Pending
    <3> QED BY <2>1, <2>3, <3>3, ChainQuiet DEF g
  <2> QED BY <1>2, <2>2, <2>3 DEF LoginFindPrev
<1>3. CASE LoginKick(p)
  <2> DEFINE g == [h EXCEPT !.stage = "upsert"]
  <2>1. h.stage = "kick" /\ Become(p, g) /\ UNCHANGED <<row, issued, stored>>
    BY <1>3 DEF LoginKick
  <2>2. g.stage = "upsert"
    BY <1>0 DEF Handler
  <2> HIDE DEF g
  <2>3. ChainOK(g)
    BY <1>0, <2>1, <2>2 DEF ChainOK, PastRevocation, Pending
  <2> QED BY <2>1, <2>3, ChainQuiet
<1>4. CASE LoginUpsert(p)
  <2>1. /\ h.stage = "upsert" /\ UNCHANGED <<row, issued, stored>> /\ h.fresh = None
        /\ row = None \/ row.refreshTokenHash = None
    BY <1>0, <1>4 DEF LoginUpsert, TokensOK, ChainOK, PastRevocation
  <2>2. CASE row # None /\ Become(p, Saving(h, Activated(row, h.device), "sign"))
    <3> DEFINE g == Saving(h, Activated(row, h.device), "sign")
    <3>1. g.stage = "select" /\ g.after = "sign" /\ g.fresh = None
      BY <1>0, <2>1 DEF Saving, Handler
    <3> HIDE DEF g
    <3>2. ChainOK(g)
      BY <2>1, <3>1 DEF ChainOK, PastRevocation, Pending
    <3> QED BY <2>1, <2>2, <3>2, ChainQuiet DEF g
  <2>3. CASE Become(p, [h EXCEPT !.stage = "insert", !.after = "sign",
                                 !.entity = Created(h.device)])
    <3> DEFINE g == [h EXCEPT !.stage = "insert", !.after = "sign",
                              !.entity = Created(h.device)]
    <3>1. g.stage = "insert"
      BY <1>0 DEF Handler
    <3> HIDE DEF g
    <3>2. ChainOK(g)
      BY <2>1, <3>1 DEF ChainOK, PastRevocation, Pending
    <3> QED BY <2>1, <2>3, <3>2, ChainQuiet DEF g
  <2> QED BY <1>4, <2>2, <2>3 DEF LoginUpsert
<1>5. CASE LoginSign(p)
  <2>0. PICK t \in 1 .. MaxTokens :
            /\ Sign(t)
            /\ Become(p, Saving([h EXCEPT !.fresh = t, !.outcome = "ok"],
                                [h.entity EXCEPT !.refreshTokenHash = t,
                                                 !.lastUsedAt = now],
                                "done"))
    BY <1>5 DEF LoginSign
  <2> DEFINE e == [h.entity EXCEPT !.refreshTokenHash = t, !.lastUsedAt = now]
             f == [h EXCEPT !.fresh = t, !.outcome = "ok"]
             g == Saving(f, e, "done")
  <2>1. /\ h.stage = "sign" /\ Sign(t) /\ Become(p, g) /\ UNCHANGED <<row, stored>>
    BY <1>5, <2>0 DEF LoginSign
  <2>2. row = None \/ row.refreshTokenHash = None
    BY <1>0, <2>1 DEF ChainOK, PastRevocation
  <2>3. /\ g.stage = "select" /\ g.fresh = t /\ g.after = "done" /\ g.token = h.token
    BY <1>0 DEF Saving, Handler
  <2> HIDE DEF g
  <2> QED BY <2>1, <2>2, <2>3, ChainSign
<1> QED BY <1>1, <1>2, <1>3, <1>4, <1>5 DEF Login

LEMMA ChainRefresh ==
    ASSUME OneAtATime, TypeInv, TokenInv, SerialInv, OrderInv, ChainInv,
           NEW p \in Request, Refresh(p)
    PROVE  ChainInv'
<1> DEFINE h == proc[p]
<1>0. /\ h \in Handler /\ HandlerOK(h, row) /\ Ordered(h, row) /\ TokensOK(h)
      /\ row \in Row \cup {None}
  BY DEF TypeInv, TypeOK, OrderInv, TokenInv
<1>1. ASSUME NEW o, Become(p, Answer(h, o)), UNCHANGED <<row, issued, stored>>
      PROVE  ChainInv'
  <2>1. Answer(h, o).stage = "done"
    BY <1>0 DEF Answer, Handler
  <2>2. ChainOK(Answer(h, o))
    BY <2>1, ChainIdle
  <2> QED BY <1>1, <2>2, ChainQuiet
<1>2. ASSUME NEW t \in delivered, NEW d \in Device \cup {None}, RefreshStart(p, t, d)
      PROVE  ChainInv'
  <2> DEFINE g == [Idle EXCEPT !.stage = "load", !.token = t, !.device = d]
  <2>1. g.stage = "load"
    BY DEF Idle
  <2>2. Become(p, g) /\ UNCHANGED <<row, issued, stored>>
    BY <1>2 DEF RefreshStart
  <2> HIDE DEF g
  <2>3. ChainOK(g)
    BY <2>1, ChainIdle
  <2> QED BY <2>2, <2>3, ChainQuiet
<1>3. CASE RefreshLoad(p)
  <2> DEFINE f == [h EXCEPT !.outcome = "DEVICE_MISMATCH"]
             g == [h EXCEPT !.stage = "match", !.entity = row]
  <2>1. /\ h.stage = "load" /\ UNCHANGED <<row, issued, stored>> /\ h.fresh = None
        /\ \/ Become(p, Answer(h, "SESSION_REVOKED"))
           \/ Live(row) /\ Become(p, Saving(f, RevokedEntity(row), "done"))
           \/ Become(p, g)
    BY <1>0, <1>3 DEF RefreshLoad, TokensOK
  <2>2. CASE Live(row) /\ Become(p, Saving(f, RevokedEntity(row), "done"))
    <3>1. f \in Handler /\ f.fresh = None
      BY <1>0, <2>1 DEF Handler, Outcome
    <3>2. row \in Row
      BY <1>0, <2>2 DEF Live
    <3>3. RevokedEntity(row).refreshTokenHash = None
      BY <3>2 DEF RevokedEntity, Row, Session
    <3> HIDE DEF f
    <3>4. ChainOK(Saving(f, RevokedEntity(row), "done"))
      BY <3>1, <3>3, ChainRevoking
    <3> QED BY <2>1, <2>2, <3>4, ChainQuiet
  <2>3. CASE Become(p, g)
    <3>1. g.stage = "match"
      BY <1>0 DEF Handler
    <3> HIDE DEF g
    <3>2. ChainOK(g)
      BY <3>1, ChainIdle
    <3> QED BY <2>1, <2>3, <3>2, ChainQuiet
  <2> QED BY <1>1, <2>1, <2>2, <2>3
<1>4. CASE RefreshMatch(p)
  <2> DEFINE e == [RevokedEntity(h.entity) EXCEPT !.prevRefreshTokenHash = None,
                                                  !.prevRotatedAt = None]
             f == [h EXCEPT !.outcome = "INVALID_REFRESH"]
             g == [h EXCEPT !.stage = "user"]
  <2>1. /\ h.stage = "match" /\ UNCHANGED <<row, issued, stored>> /\ h.fresh = None
        /\ \/ Become(p, g)
           \/ Become(p, Answer(h, "REFRESH_STALE"))
           \/ Become(p, Saving(f, e, "done"))
    BY <1>0, <1>4 DEF RefreshMatch, TokensOK
  <2>2. CASE Become(p, g)
    <3>1. g.stage = "user"
      BY <1>0 DEF Handler
    <3> HIDE DEF g
    <3>2. ChainOK(g)
      BY <3>1, ChainIdle
    <3> QED BY <2>1, <2>2, <3>2, ChainQuiet
  <2>3. CASE Become(p, Saving(f, e, "done"))
    <3>1. f \in Handler /\ f.fresh = None
      BY <1>0, <2>1 DEF Handler, Outcome
    <3>2. h.entity \in Row
      BY <1>0, <2>1 DEF HandlerOK
    <3>3. e.refreshTokenHash = None
      BY <3>2 DEF RevokedEntity, Row, Session
    <3> HIDE DEF e, f
    <3>4. ChainOK(Saving(f, e, "done"))
      BY <3>1, <3>3, ChainRevoking
    <3> QED BY <2>1, <2>3, <3>4, ChainQuiet
  <2> QED BY <1>1, <2>1, <2>2, <2>3
<1>5. CASE RefreshRotate(p)
  <2>0. PICK t \in 1 .. MaxTokens :
            /\ Sign(t)
            /\ Become(p, Saving([h EXCEPT !.fresh = t, !.outcome = "ok"],
                                Rotated(h.entity, t), "done"))
    BY <1>5 DEF RefreshRotate
  <2> DEFINE f == [h EXCEPT !.fresh = t, !.outcome = "ok"]
             g == Saving(f, Rotated(h.entity, t), "done")
  <2>1. /\ h.stage = "user" /\ Sign(t) /\ Become(p, g) /\ UNCHANGED <<row, stored>>
    BY <1>5, <2>0 DEF RefreshRotate
  <2>2. h.token # None
    BY <1>0, <2>1 DEF Ordered
  <2>3. /\ g.stage = "select" /\ g.fresh = t /\ g.after = "done" /\ g.token = h.token
    BY <1>0 DEF Saving, Handler
  <2> HIDE DEF g
  <2> QED BY <2>1, <2>2, <2>3, ChainSign
<1>6. CASE RefreshNoUser(p)
  BY <1>1, <1>6 DEF RefreshNoUser
<1> QED BY <1>2, <1>3, <1>4, <1>5, <1>6 DEF Refresh

LEMMA ChainLogout ==
    ASSUME OneAtATime, TypeInv, TokenInv, ChainInv, NEW p \in Request, Logout(p)
    PROVE  ChainInv'
<1> DEFINE h == proc[p]
<1>0. h \in Handler /\ TokensOK(h) /\ row \in Row \cup {None}
  BY DEF TypeInv, TypeOK, TokenInv
<1>1. CASE LogoutStart(p)
  <2> DEFINE g == [Idle EXCEPT !.stage = "logout"]
  <2>1. g.stage = "logout"
    BY DEF Idle
  <2>2. Become(p, g) /\ UNCHANGED <<row, issued, stored>>
    BY <1>1 DEF LogoutStart
  <2> HIDE DEF g
  <2>3. ChainOK(g)
    BY <2>1, ChainIdle
  <2> QED BY <2>2, <2>3, ChainQuiet
<1>2. CASE LogoutLoad(p)
  <2>1. /\ h.stage = "logout" /\ UNCHANGED <<row, issued, stored>> /\ h.fresh = None
    BY <1>0, <1>2 DEF LogoutLoad, TokensOK
  <2>2. CASE Live(row) /\ Become(p, Saving(h, RevokedEntity(row), "done"))
    <3>1. row \in Row
      BY <1>0, <2>2 DEF Live
    <3>2. RevokedEntity(row).refreshTokenHash = None
      BY <3>1 DEF RevokedEntity, Row, Session
    <3>3. ChainOK(Saving(h, RevokedEntity(row), "done"))
      BY <1>0, <2>1, <3>2, ChainRevoking
    <3> QED BY <2>1, <2>2, <3>3, ChainQuiet
  <2>3. CASE Become(p, Answer(h, "ok"))
    <3>1. Answer(h, "ok").stage = "done"
      BY <1>0 DEF Answer, Handler
    <3>2. ChainOK(Answer(h, "ok"))
      BY <3>1, ChainIdle
    <3> QED BY <2>1, <2>3, <3>2, ChainQuiet
  <2> QED BY <1>2, <2>2, <2>3 DEF LogoutLoad
<1> QED BY <1>1, <1>2 DEF Logout

LEMMA ChainRest ==
    ASSUME OneAtATime, TypeInv, ChainInv,
           \/ \E p \in Request : Reply(p) \/ LoseReply(p)
           \/ Crash
           \/ Tick
           \/ UNCHANGED vars
    PROVE  ChainInv'
<1>0. ChainOK(Idle) /\ ChainOK(Idle)'
  BY DEF Idle, ChainOK, PastRevocation, Pending
<1>1. ASSUME NEW p \in Request, Reply(p) \/ LoseReply(p) PROVE ChainInv'
  BY <1>0, <1>1, ChainQuiet DEF Reply, LoseReply
<1>2. CASE Crash
  <2>1. Token' = Token /\ \A q \in Request : proc'[q] = Idle
    BY <1>2 DEF Crash, Token
  <2> QED BY <1>0, <1>2, <2>1 DEF Crash, ChainInv
<1>3. CASE Tick \/ UNCHANGED vars
  <2>1. UNCHANGED <<row, issued, stored, proc>> /\ Token' = Token
    BY <1>3 DEF Tick, vars, Token
  <2>2. \A q \in Request : ChainOK(proc[q])'
    BY <2>1 DEF ChainInv, ChainOK, PastRevocation, Pending
  <2> QED BY <2>1, <2>2 DEF ChainInv
<1> QED BY <1>1, <1>2, <1>3

(* Outside of a save the row and the stored tokens stay.                     *)
LEMMA ChainKept ==
    ASSUME NEW p \in Request,
           Login(p) \/ Refresh(p) \/ Logout(p) \/ Reply(p) \/ LoseReply(p)
    PROVE  UNCHANGED Chain!vars
<1>1. CASE Login(p)
  <2>1. UNCHANGED <<row, stored>>
    <3>1. ASSUME NEW d \in Device, LoginStart(p, d) PROVE UNCHANGED <<row, stored>>
      BY <3>1 DEF LoginStart
    <3>2. LoginFindPrev(p) \/ LoginKick(p) => UNCHANGED <<row, stored>>
      BY DEF LoginFindPrev, LoginKick
    <3>3. LoginUpsert(p) => UNCHANGED <<row, stored>>
      BY DEF LoginUpsert
    <3>4. LoginSign(p) => UNCHANGED <<row, stored>>
      BY DEF LoginSign
    <3> QED BY <1>1, <3>1, <3>2, <3>3, <3>4 DEF Login
  <2> QED BY <2>1 DEF Chain!vars, Hash
<1>2. CASE Refresh(p)
  <2>1. UNCHANGED <<row, stored>>
    <3>1. ASSUME NEW t \in delivered, NEW d \in Device \cup {None}, RefreshStart(p, t, d)
          PROVE  UNCHANGED <<row, stored>>
      BY <3>1 DEF RefreshStart
    <3>2. RefreshLoad(p) => UNCHANGED <<row, stored>>
      BY DEF RefreshLoad
    <3>3. RefreshMatch(p) => UNCHANGED <<row, stored>>
      BY DEF RefreshMatch
    <3>4. RefreshRotate(p) \/ RefreshNoUser(p) => UNCHANGED <<row, stored>>
      BY DEF RefreshRotate, RefreshNoUser
    <3> QED BY <1>2, <3>1, <3>2, <3>3, <3>4 DEF Refresh
  <2> QED BY <2>1 DEF Chain!vars, Hash
<1>3. CASE Logout(p)
  <2>1. UNCHANGED <<row, stored>>
    BY <1>3 DEF Logout, LogoutStart, LogoutLoad
  <2> QED BY <2>1 DEF Chain!vars, Hash
<1>4. CASE Reply(p) \/ LoseReply(p)
  <2>1. UNCHANGED <<row, stored>>
    BY <1>4 DEF Reply, LoseReply
  <2> QED BY <2>1 DEF Chain!vars, Hash
<1> QED BY <1>1, <1>2, <1>3, <1>4

LEMMA ChainNext ==
    ASSUME OneAtATime, TypeInv, TokenInv, SerialInv, OrderInv, ChainInv, [Next]_vars
    PROVE  ChainInv' /\ [Chain!Next]_(Chain!vars)
<1>1. ASSUME NEW p \in Request, Save(p)
      PROVE  ChainInv' /\ [Chain!Next]_(Chain!vars)
  BY <1>1, ChainSave
<1>2. ASSUME NEW p \in Request, Login(p) \/ Refresh(p) \/ Logout(p)
      PROVE  ChainInv' /\ [Chain!Next]_(Chain!vars)
  BY <1>2, ChainLogin, ChainRefresh, ChainLogout, ChainKept
<1>3. ASSUME NEW p \in Request, Reply(p) \/ LoseReply(p)
      PROVE  ChainInv' /\ [Chain!Next]_(Chain!vars)
  BY <1>3, ChainRest, ChainKept
<1>4. CASE Crash \/ Tick \/ UNCHANGED vars
  <2>1. UNCHANGED <<row, stored>>
    BY <1>4 DEF Crash, Tick, vars
  <2>2. UNCHANGED Chain!vars
    BY <2>1 DEF Chain!vars, Hash
  <2> QED BY <1>4, <2>2, ChainRest
<1> QED BY <1>1, <1>2, <1>3, <1>4 DEF Next

LEMMA ChainInit == Init => ChainInv /\ Chain!Init
BY ConstantsAssumption
   DEF Init, ChainInv, ChainOK, PastRevocation, Pending, Idle, Token, Hash, Chain!Init

\* Of requests that do not overlap, the row of the session implements TokenChain
\* over all its revocations, its logins of several statements, lost answers and
\* crashes.
THEOREM SessionImplementsChain == ASSUME OneAtATime PROVE Spec => FollowsChain
<1>1. TypeInv /\ TokenInv /\ SerialInv /\ OrderInv /\ ChainInv /\ [Next]_vars
        => ChainInv' /\ [Chain!Next]_(Chain!vars)
  BY ChainNext
<1> QED BY <1>1, ChainInit, TypeInvHolds, TokenInvHolds, SerialInvHolds, OrderInvHolds, PTL
        DEF Spec, FollowsChain, Chain!Spec

=============================================================================
