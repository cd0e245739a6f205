--------------------------- MODULE SchedulesProofs ---------------------------
(***************************************************************************)
(* Proofs about Schedules, for any number of users, schedules, requests    *)
(* and dates.                                                              *)
(*                                                                         *)
(* What holds between the transactions rests on what a transaction that    *)
(* holds the lock has decided (Sound): its plan was checked against the    *)
(* rows of its user, and until it commits nobody else writes these rows,   *)
(* because the holders of locks have different users (Exclusive).  New     *)
(* rows have ids nobody else is about to use (FreshPlans).                 *)
(***************************************************************************)
EXTENDS Schedules, SequenceTheorems, TLAPS

Exclusive ==
    \A p, q \in Proc : p # q /\ Holds(p) /\ Holds(q) => tx[p].user # tx[q].user

\* The row of a plan touches no other row of its user but the one it closes.
PlanFits(plan) ==
    \A j \in Id : j # plan.id /\ j # plan.closes
                    /\ rows[j] # None /\ rows[j].user = plan.row.user
                        => ~Touches(plan.row, rows[j])

PlanTarget(plan) ==
    /\ plan.action = "created" => rows[plan.id] = None
    /\ plan.action # "created" =>
            rows[plan.id] # None /\ rows[plan.id].user = plan.row.user /\ plan.closes = None

PlanCloses(plan) ==
    plan.closes # None =>
        /\ plan.closes \in Id /\ plan.closes # plan.id
        /\ rows[plan.closes] # None /\ rows[plan.closes].user = plan.row.user
        /\ rows[plan.closes].type = "fixed"
        /\ rows[plan.closes].from < plan.row.from
        /\ Reaches(rows[plan.closes].to, plan.row.from)
        /\ EndsNoLaterThan(rows[plan.closes].to, plan.row.to)

PlanDated(plan) ==
    plan.row.type = "variable" => plan.row.days \subseteq plan.row.from .. plan.row.to

SoundPlan(plan) ==
    PlanFits(plan) /\ PlanTarget(plan) /\ PlanCloses(plan) /\ PlanDated(plan)

Sound(p) ==
    /\ tx[p].plan \in Plan
    /\ tx[p].plan.row.user = tx[p].user
    /\ SoundPlan(tx[p].plan)

AllSound == \A p \in Proc : At(p, "decided") => Sound(p)

FreshPlans ==
    \A p, q \in Proc : p # q /\ At(p, "decided") /\ At(q, "decided")
        /\ tx[p].plan.action = "created" => tx[q].plan.id # tx[p].plan.id

Inv == TypeOK /\ NoOverlap /\ DatesInWindow /\ Exclusive /\ AllSound /\ FreshPlans

-----------------------------------------------------------------------------
(* Rows and windows.                                                        *)

LEMMA RowFields ==
    ASSUME NEW r \in Row
    PROVE  /\ r.user \in User /\ r.type \in {"fixed", "variable"}
           /\ r.from \in 1 .. LastDay
           /\ r.to # None => r.to \in 1 .. LastDay /\ r.from <= r.to
           /\ r.to \in Date \cup {None}
           /\ r.days \subseteq Weekday \cup Date /\ r.notes \in Notes
BY DEF Row, Date

LEMMA PlanFields ==
    ASSUME NEW plan \in Plan
    PROVE  /\ plan.id \in Id /\ plan.row \in Row /\ plan.closes \in Id \cup {None}
           /\ plan.action \in {"created", "updated", "closed", "deleted"}
BY DEF Plan

LEMMA RowOrNone ==
    ASSUME TypeOK, NEW i \in Id, rows[i] # None
    PROVE  rows[i] \in Row
BY DEF TypeOK

\* Numbers are not None.
LEMMA NoneIsNoDate == ASSUME NEW n \in Int PROVE n # None
BY SchedulesAssumption

\* A schedule that was closed is a row, and touches neither the row it makes room
\* for nor anything it did not touch before.
LEMMA ClosedRow ==
    ASSUME NEW r \in Row, NEW w \in Row, r.from < w.from
    PROVE  /\ Closed(r, w) \in Row
           /\ Closed(r, w).to = w.from - 1 /\ Closed(r, w).to # None
           /\ Closed(r, w).user = r.user /\ Closed(r, w).type = r.type
           /\ Closed(r, w).from = r.from /\ Closed(r, w).days = r.days
<1>1. r.from \in 1 .. LastDay /\ w.from \in 1 .. LastDay /\ LastDay \in Nat
  BY RowFields, SchedulesAssumption
<1>2. w.from - 1 \in Date /\ r.from <= w.from - 1
  BY <1>1 DEF Date
<1>3. w.from - 1 # None
  BY <1>1, NoneIsNoDate
<1> DEFINE c == Closed(r, w)
<1>4. c.to = w.from - 1 /\ c.user = r.user /\ c.type = r.type /\ c.from = r.from
        /\ c.days = r.days /\ c.notes = r.notes
  BY DEF Closed, Row
<1>5. c \in [user: User, type: {"fixed", "variable"}, from: Date, to: Date \cup {None},
             days: SUBSET (Weekday \cup Date), notes: Notes]
  BY <1>2 DEF Closed, Row
<1>6. c \in Row
  BY <1>2, <1>4, <1>5 DEF Row
<1> QED BY <1>3, <1>4, <1>6

LEMMA ClosedTouchesLess ==
    ASSUME NEW r \in Row, NEW w \in Row, NEW v \in Row, r.from < w.from, Reaches(r.to, w.from)
    PROVE  /\ ~Touches(w, Closed(r, w)) /\ ~Touches(Closed(r, w), w)
           /\ Touches(Closed(r, w), v) => Touches(r, v)
<1>1. /\ r.from \in Int /\ w.from \in Int /\ v.from \in Int
      /\ r.to # None => r.to \in Int
  BY RowFields, SchedulesAssumption
<1>2. Closed(r, w).to = w.from - 1 /\ Closed(r, w).to # None /\ Closed(r, w).from = r.from
  BY ClosedRow
<1>3. ~Reaches(Closed(r, w).to, w.from)
  BY <1>1, <1>2 DEF Reaches
<1>4. Reaches(Closed(r, w).to, v.from) => Reaches(r.to, v.from)
  BY <1>1, <1>2 DEF Reaches
<1> QED BY <1>2, <1>3, <1>4 DEF Touches

-----------------------------------------------------------------------------
(* What a plan writes, when it is sound.                                     *)

LEMMA WrittenRow ==
    ASSUME TypeOK, NEW plan \in Plan, SoundPlan(plan), NEW i \in Id
    PROVE  /\ i = plan.id /\ plan.action = "deleted" => Written(plan)[i] = None
           /\ i = plan.id /\ plan.action # "deleted" => Written(plan)[i] = plan.row
           /\ i # plan.id /\ i = plan.closes =>
                    /\ plan.closes # None /\ plan.action = "created"
                    /\ rows[i] \in Row /\ Written(plan)[i] = Closed(rows[i], plan.row)
                    /\ Written(plan)[i] \in Row
           /\ i # plan.id /\ i # plan.closes => Written(plan)[i] = rows[i]
           /\ Written(plan)[i] \in Row \cup {None}
<1>1. i # None
  BY SchedulesAssumption
<1>2. CASE i = plan.id
  BY <1>2, PlanFields DEF Written
<1>3. CASE i # plan.id /\ i = plan.closes
  <2>1. /\ plan.closes # None /\ rows[i] # None /\ rows[i].from < plan.row.from
        /\ plan.action = "created"
    BY <1>1, <1>3 DEF SoundPlan, PlanCloses, PlanTarget
  <2>2. rows[i] \in Row /\ plan.row \in Row
    BY <2>1, RowOrNone, PlanFields
  <2>3. Written(plan)[i] = Closed(rows[i], plan.row)
    BY <1>3 DEF Written
  <2> QED BY <1>3, <2>1, <2>2, <2>3, ClosedRow
<1>4. CASE i # plan.id /\ i # plan.closes
  BY <1>4 DEF Written, TypeOK
<1> QED BY <1>2, <1>3, <1>4

\* A sound plan changes rows of its user only.
LEMMA WritesOwn ==
    ASSUME TypeOK, NEW plan \in Plan, SoundPlan(plan), NEW i \in Id
    PROVE  \/ Written(plan)[i] = rows[i]
           \/ /\ rows[i] # None => rows[i].user = plan.row.user
              /\ Written(plan)[i] # None => Written(plan)[i].user = plan.row.user
<1>1. CASE i = plan.id
  BY <1>1, WrittenRow DEF SoundPlan, PlanTarget
<1>2. CASE i # plan.id /\ i = plan.closes
  <2>1. /\ rows[i] \in Row /\ plan.row \in Row /\ plan.closes # None
        /\ Written(plan)[i] = Closed(rows[i], plan.row)
    BY <1>2, WrittenRow, PlanFields
  <2>2. rows[i].user = plan.row.user /\ rows[i].from < plan.row.from
    BY <1>2, <2>1 DEF SoundPlan, PlanCloses
  <2> QED BY <2>1, <2>2, ClosedRow
<1>3. CASE i # plan.id /\ i # plan.closes
  BY <1>3, WrittenRow
<1> QED BY <1>1, <1>2, <1>3

\* What the written row i is, when it is there.
LEMMA WrittenNoOverlap ==
    ASSUME TypeOK, NoOverlap, NEW plan \in Plan, SoundPlan(plan),
           NEW i \in Id, NEW j \in Id, i # j,
           Written(plan)[i] # None, Written(plan)[j] # None,
           Written(plan)[i].user = Written(plan)[j].user,
           i # plan.id
    PROVE  ~Touches(Written(plan)[i], Written(plan)[j])
<1> DEFINE W == Written(plan)
<1>1. plan.row \in Row /\ plan.id \in Id
  BY PlanFields
<1>2. CASE i # plan.closes
  <2>1. W[i] = rows[i] /\ rows[i] # None /\ rows[i] \in Row
    BY <1>2, WrittenRow, RowOrNone
  <2>2. CASE j = plan.id
    <3>1. W[j] = plan.row
      BY <2>2, WrittenRow
    <3>2. rows[i].user = plan.row.user
      BY <2>1, <3>1
    <3>3. ~Touches(plan.row, rows[i])
      BY <1>2, <2>1, <3>2 DEF SoundPlan, PlanFits
    <3> QED BY <2>1, <3>1, <3>3 DEF Touches
  <2>3. CASE j # plan.id /\ j = plan.closes
    <3>1. /\ rows[j] \in Row /\ W[j] = Closed(rows[j], plan.row) /\ plan.closes # None
          /\ rows[j] # None
      BY <2>3, WrittenRow, SchedulesAssumption
    <3>2. rows[j].from < plan.row.from /\ Reaches(rows[j].to, plan.row.from)
      BY <2>3, <3>1 DEF SoundPlan, PlanCloses
    <3>3. W[j].user = rows[j].user
      BY <1>1, <3>1, <3>2, ClosedRow
    <3>4. ~Touches(rows[j], rows[i])
      BY <2>1, <3>1, <3>3 DEF NoOverlap
    <3>5. ~Touches(W[j], rows[i])
      BY <1>1, <2>1, <3>1, <3>2, <3>4, ClosedTouchesLess
    <3> QED BY <2>1, <3>5 DEF Touches
  <2>4. CASE j # plan.id /\ j # plan.closes
    <3>1. W[j] = rows[j] /\ rows[j] # None
      BY <2>4, WrittenRow
    <3> QED BY <2>1, <3>1 DEF NoOverlap
  <2> QED BY <2>2, <2>3, <2>4
<1>3. CASE i = plan.closes
  <2>1. /\ rows[i] \in Row /\ W[i] = Closed(rows[i], plan.row) /\ plan.closes # None
        /\ rows[i] # None
    BY <1>3, WrittenRow, SchedulesAssumption
  <2>2. rows[i].from < plan.row.from /\ Reaches(rows[i].to, plan.row.from)
    BY <1>3, <2>1 DEF SoundPlan, PlanCloses
  <2>3. W[i].user = rows[i].user
    BY <1>1, <2>1, <2>2, ClosedRow
  <2>4. CASE j = plan.id
    <3>1. W[j] = plan.row
      BY <2>4, WrittenRow
    <3> QED BY <1>1, <2>1, <2>2, <3>1, ClosedTouchesLess
  <2>5. CASE j # plan.id
    <3>1. W[j] = rows[j] /\ rows[j] # None /\ rows[j] \in Row
      BY <1>3, <2>5, WrittenRow, RowOrNone
    <3>2. ~Touches(rows[i], rows[j])
      BY <2>1, <2>3, <3>1 DEF NoOverlap
    <3> QED BY <1>1, <2>1, <2>2, <3>1, <3>2, ClosedTouchesLess
  <2> QED BY <2>4, <2>5
<1> QED BY <1>2, <1>3

LEMMA CommitNoOverlap ==
    ASSUME TypeOK, NoOverlap, NEW plan \in Plan, SoundPlan(plan), rows' = Written(plan)
    PROVE  NoOverlap'
<1> SUFFICES ASSUME NEW i \in Id, NEW j \in Id, i # j,
                    Written(plan)[i] # None, Written(plan)[j] # None,
                    Written(plan)[i].user = Written(plan)[j].user
             PROVE  ~Touches(Written(plan)[i], Written(plan)[j])
  BY DEF NoOverlap, Touches, Reaches
<1>1. CASE i # plan.id
  BY <1>1, WrittenNoOverlap
<1>2. CASE i = plan.id
  <2>1. ~Touches(Written(plan)[j], Written(plan)[i])
    BY <1>2, WrittenNoOverlap
  <2> QED BY <2>1 DEF Touches
<1> QED BY <1>1, <1>2

LEMMA CommitDates ==
    ASSUME TypeOK, DatesInWindow, NEW plan \in Plan, SoundPlan(plan), rows' = Written(plan)
    PROVE  DatesInWindow'
<1> SUFFICES ASSUME NEW i \in Id, Written(plan)[i] # None, Written(plan)[i].type = "variable"
             PROVE  Written(plan)[i].days \subseteq Written(plan)[i].from .. Written(plan)[i].to
  BY DEF DatesInWindow
<1>1. CASE i = plan.id
  BY <1>1, WrittenRow DEF SoundPlan, PlanDated
<1>2. CASE i # plan.id /\ i = plan.closes
  <2>1. /\ rows[i] \in Row /\ plan.row \in Row /\ plan.closes # None
        /\ Written(plan)[i] = Closed(rows[i], plan.row)
    BY <1>2, WrittenRow, PlanFields
  <2>2. rows[i].type = "fixed" /\ rows[i].from < plan.row.from
    BY <1>2, <2>1 DEF SoundPlan, PlanCloses
  <2> QED BY <2>1, <2>2, ClosedRow
<1>3. CASE i # plan.id /\ i # plan.closes
  BY <1>3, WrittenRow DEF DatesInWindow
<1> QED BY <1>1, <1>2, <1>3

\* What one transaction writes leaves the plan of another sound.
LEMMA KeptSound ==
    ASSUME TypeOK, NEW plan \in Plan, SoundPlan(plan), NEW other \in Plan, SoundPlan(other),
           plan.row.user # other.row.user,
           plan.action = "created" => other.id # plan.id,
           rows' = Written(other)
    PROVE  SoundPlan(plan)'
<1> DEFINE W == Written(other)
<1>1. ASSUME NEW i \in Id, rows[i] # None, rows[i].user = plan.row.user
      PROVE  W[i] = rows[i]
  BY <1>1, WritesOwn
<1>2. ASSUME NEW i \in Id, W[i] # None, W[i].user = plan.row.user
      PROVE  W[i] = rows[i]
  BY <1>2, WritesOwn
<1>3. plan.id \in Id /\ other.id \in Id /\ plan.closes \in Id \cup {None}
  BY PlanFields
<1>4. PlanFits(plan)'
  <2> SUFFICES ASSUME NEW j \in Id, j # plan.id, j # plan.closes,
                      W[j] # None, W[j].user = plan.row.user
               PROVE  ~Touches(plan.row, W[j])
    BY DEF PlanFits, Touches, Reaches
  <2>1. W[j] = rows[j]
    BY <1>2
  <2> QED BY <2>1 DEF SoundPlan, PlanFits
<1>5. PlanTarget(plan)'
  <2>1. CASE plan.action = "created"
    <3>1. rows[plan.id] = None /\ plan.id # other.id
      BY <2>1 DEF SoundPlan, PlanTarget
    <3>2. W[plan.id] = None
      <4>1. CASE plan.id = other.closes
        <5>1. rows[plan.id] \in Row
          BY <1>3, <3>1, <4>1, WrittenRow
        <5> QED BY <3>1, <5>1, SchedulesAssumption
      <4>2. CASE plan.id # other.closes
        BY <1>3, <3>1, <4>2, WrittenRow
      <4> QED BY <4>1, <4>2
    <3> QED BY <2>1, <3>2 DEF PlanTarget
  <2>2. CASE plan.action # "created"
    <3>1. /\ rows[plan.id] # None /\ rows[plan.id].user = plan.row.user
          /\ plan.closes = None
      BY <2>2 DEF SoundPlan, PlanTarget
    <3>2. W[plan.id] = rows[plan.id]
      BY <1>1, <1>3, <3>1
    <3> QED BY <2>2, <3>1, <3>2 DEF PlanTarget
  <2> QED BY <2>1, <2>2
<1>6. PlanCloses(plan)'
  <2> SUFFICES ASSUME plan.closes # None
               PROVE  PlanCloses(plan)'
    BY DEF PlanCloses
  <2>1. /\ plan.closes \in Id /\ plan.closes # plan.id
        /\ rows[plan.closes] # None /\ rows[plan.closes].user = plan.row.user
        /\ rows[plan.closes].type = "fixed"
        /\ rows[plan.closes].from < plan.row.from
        /\ Reaches(rows[plan.closes].to, plan.row.from)
        /\ EndsNoLaterThan(rows[plan.closes].to, plan.row.to)
    BY DEF SoundPlan, PlanCloses
  <2>2. W[plan.closes] = rows[plan.closes]
    BY <1>1, <2>1
  <2> QED BY <2>1, <2>2 DEF PlanCloses, Reaches, EndsNoLaterThan
<1>7. PlanDated(plan)'
  BY DEF SoundPlan, PlanDated
<1> QED BY <1>4, <1>5, <1>6, <1>7 DEF SoundPlan

-----------------------------------------------------------------------------
(* The transactions.                                                         *)

LEMMA TxFields ==
    ASSUME TypeOK, NEW p \in Proc, tx[p] # None
    PROVE  /\ tx[p] \in Transaction
           /\ tx[p].user \in User /\ tx[p].began \in Nat /\ tx[p].plan \in Plan \cup {None}
BY DEF TypeOK, Transaction

\* Nothing changes but the transaction of p, which neither gets the lock nor
\* decides: it begins or ends.
LEMMA OnlyTxChanges ==
    ASSUME Inv, NEW p \in Proc, NEW t \in Transaction \cup {None},
           tx' = [tx EXCEPT ![p] = t],
           t = None \/ t.stage = "begun",
           rows' = rows
    PROVE  NoOverlap' /\ DatesInWindow' /\ Exclusive' /\ AllSound' /\ FreshPlans'
<1>1. \A q \in Proc : tx'[q] = IF q = p THEN t ELSE tx[q]
  BY DEF Inv, TypeOK
<1>2. ~At(p, "locked")' /\ ~At(p, "decided")'
  BY <1>1 DEF At
<1>3. \A q \in Proc \ {p} : tx'[q] = tx[q]
  BY <1>1
<1>4. NoOverlap' /\ DatesInWindow'
  BY DEF Inv, NoOverlap, DatesInWindow, Touches, Reaches
<1>5. Exclusive'
  BY <1>2, <1>3 DEF Inv, Exclusive, Holds, At
<1>6. AllSound'
  <2> SUFFICES ASSUME NEW q \in Proc, At(q, "decided")' PROVE Sound(q)'
    BY DEF AllSound
  <2>1. q # p
    BY <1>2
  <2>2. tx'[q] = tx[q] /\ Sound(q)
    BY <1>3, <2>1 DEF Inv, AllSound, At
  <2> QED BY <2>2 DEF Sound, SoundPlan, PlanFits, PlanTarget, PlanCloses, PlanDated
<1>7. FreshPlans'
  BY <1>2, <1>3 DEF Inv, FreshPlans, At
<1> QED BY <1>4, <1>5, <1>6, <1>7

LEMMA BeginInv ==
    ASSUME Inv, NEW p \in Proc, NEW u \in User, Begin(p, u)
    PROVE  Inv'
<1> DEFINE t == [stage |-> "begun", user |-> u, began |-> now + 1, plan |-> None]
<1>1. now \in Nat /\ now + 1 \in 0 .. MaxTransactions /\ now + 1 \in Nat
  BY SchedulesAssumption DEF Begin, Inv, TypeOK
<1>2. t \in Transaction /\ t.stage = "begun"
  BY <1>1 DEF Transaction
<1>3. tx' = [tx EXCEPT ![p] = t] /\ rows' = rows /\ history' = history /\ now' = now + 1
  BY DEF Begin
<1>4. TypeOK'
  BY <1>1, <1>2, <1>3 DEF Inv, TypeOK
<1> HIDE DEF t
<1>5. NoOverlap' /\ DatesInWindow' /\ Exclusive' /\ AllSound' /\ FreshPlans'
  BY <1>2, <1>3, OnlyTxChanges
<1> QED BY <1>4, <1>5 DEF Inv

LEMMA RollbackInv ==
    ASSUME Inv, NEW p \in Proc, Rollback(p)
    PROVE  Inv'
<1>1. tx' = [tx EXCEPT ![p] = None] /\ rows' = rows /\ history' = history /\ now' = now
  BY DEF Rollback
<1>2. TypeOK'
  BY <1>1 DEF Inv, TypeOK
<1>3. NoOverlap' /\ DatesInWindow' /\ Exclusive' /\ AllSound' /\ FreshPlans'
  BY <1>1, OnlyTxChanges
<1> QED BY <1>2, <1>3 DEF Inv

LEMMA LockInv ==
    ASSUME Inv, NEW p \in Proc, Lock(p)
    PROVE  Inv'
<1>1. /\ tx[p] # None /\ tx[p] \in Transaction /\ tx[p].stage = "begun"
      /\ rows' = rows /\ history' = history /\ now' = now
      /\ tx' = [tx EXCEPT ![p] = [tx[p] EXCEPT !.stage = "locked"]]
  BY TxFields DEF Lock, At, Inv
<1> DEFINE t == [tx[p] EXCEPT !.stage = "locked"]
<1>2. t \in Transaction /\ t.stage = "locked" /\ t.user = tx[p].user
  BY <1>1 DEF Transaction
<1>3. tx'[p] = t /\ \A q \in Proc \ {p} : tx'[q] = tx[q]
  BY <1>1 DEF Inv, TypeOK
<1>4. TypeOK'
  BY <1>1, <1>2 DEF Inv, TypeOK
<1> HIDE DEF t
<1>5. NoOverlap' /\ DatesInWindow'
  BY <1>1 DEF Inv, NoOverlap, DatesInWindow, Touches, Reaches
<1>6. ~At(p, "decided")'
  BY <1>2, <1>3 DEF At
<1>7. \A q \in Proc \ {p} : (Holds(q)' <=> Holds(q)) /\ (At(q, "decided")' <=> At(q, "decided"))
  BY <1>3 DEF Holds, At
<1>8. Exclusive'
  <2> SUFFICES ASSUME NEW q \in Proc, NEW r \in Proc, q # r, Holds(q)', Holds(r)'
               PROVE  tx'[q].user # tx'[r].user
    BY DEF Exclusive
  <2>1. \A v \in Proc : Holds(v) => tx[v].user # tx[p].user
    BY DEF Lock
  <2>2. CASE q # p /\ r # p
    BY <1>3, <1>7, <2>2 DEF Inv, Exclusive
  <2>3. CASE q = p
    BY <1>2, <1>3, <1>7, <2>1, <2>3
  <2>4. CASE r = p
    BY <1>2, <1>3, <1>7, <2>1, <2>4
  <2> QED BY <2>2, <2>3, <2>4
<1>9. AllSound'
  <2> SUFFICES ASSUME NEW q \in Proc, At(q, "decided")' PROVE Sound(q)'
    BY DEF AllSound
  <2>1. q # p /\ tx'[q] = tx[q] /\ Sound(q)
    BY <1>3, <1>6, <1>7 DEF Inv, AllSound
  <2> QED BY <1>1, <2>1 DEF Sound, SoundPlan, PlanFits, PlanTarget, PlanCloses, PlanDated
<1>10. FreshPlans'
  BY <1>3, <1>6, <1>7 DEF Inv, FreshPlans
<1> QED BY <1>4, <1>5, <1>8, <1>9, <1>10 DEF Inv

\* A decision that was checked under the lock keeps the invariant.
LEMMA DecideInv ==
    ASSUME Inv, NEW p \in Proc, At(p, "locked"), NEW plan \in Plan, Decide(p, plan),
           plan.row.user = tx[p].user, SoundPlan(plan),
           plan.action = "created" =>
                \A q \in Proc : At(q, "decided") => tx[q].plan.id # plan.id
    PROVE  Inv'
<1>1. /\ tx[p] # None /\ tx[p] \in Transaction /\ tx[p].stage = "locked"
      /\ rows' = rows /\ history' = history /\ now' = now
  BY TxFields DEF Decide, At, Inv
<1> DEFINE t == [tx[p] EXCEPT !.stage = "decided", !.plan = plan]
<1>2. tx' = [tx EXCEPT ![p] = t]
  BY DEF Decide
<1>3. t \in Transaction /\ t.stage = "decided" /\ t.user = tx[p].user /\ t.plan = plan
  BY <1>1 DEF Transaction
<1>4. tx'[p] = t /\ \A q \in Proc \ {p} : tx'[q] = tx[q]
  BY <1>2 DEF Inv, TypeOK
<1>5. TypeOK'
  BY <1>1, <1>2, <1>3 DEF Inv, TypeOK
<1> HIDE DEF t
<1>6. NoOverlap' /\ DatesInWindow'
  BY <1>1 DEF Inv, NoOverlap, DatesInWindow, Touches, Reaches
<1>7. \A q \in Proc \ {p} : (Holds(q)' <=> Holds(q)) /\ (At(q, "decided")' <=> At(q, "decided"))
  BY <1>4 DEF Holds, At
<1>8. Holds(p) /\ tx'[p].user = tx[p].user
  BY <1>3, <1>4 DEF Holds
<1>9. Exclusive'
  <2> SUFFICES ASSUME NEW q \in Proc, NEW r \in Proc, q # r, Holds(q)', Holds(r)'
               PROVE  tx'[q].user # tx'[r].user
    BY DEF Exclusive
  <2>1. \A v \in Proc : v # p => tx'[v].user = tx[v].user
    BY <1>4
  <2>2. Holds(q) /\ Holds(r)
    BY <1>7, <1>8
  <2>3. tx[q].user # tx[r].user
    BY <2>2 DEF Inv, Exclusive
  <2> QED BY <1>8, <2>1, <2>3
<1>10. SoundPlan(plan)'
  BY <1>1 DEF SoundPlan, PlanFits, PlanTarget, PlanCloses, PlanDated, Touches, Reaches,
     EndsNoLaterThan
<1>11. AllSound'
  <2> SUFFICES ASSUME NEW q \in Proc, At(q, "decided")'
               PROVE  Sound(q)'
    BY DEF AllSound
  <2>1. CASE q = p
    BY <1>3, <1>4, <1>10, <2>1 DEF Sound
  <2>2. CASE q # p
    <3>1. Sound(q) /\ tx'[q] = tx[q]
      BY <1>4, <1>7, <2>2 DEF Inv, AllSound
    <3> QED BY <1>1, <3>1 DEF Sound, SoundPlan, PlanFits, PlanTarget, PlanCloses, PlanDated,
               Touches, Reaches, EndsNoLaterThan
  <2> QED BY <2>1, <2>2
<1>12. FreshPlans'
  <2> SUFFICES ASSUME NEW q \in Proc, NEW r \in Proc, q # r,
                      At(q, "decided")', At(r, "decided")', tx'[q].plan.action = "created"
               PROVE  tx'[r].plan.id # tx'[q].plan.id
    BY DEF FreshPlans
  <2>1. CASE q = p
    BY <1>3, <1>4, <1>7, <2>1
  <2>2. CASE r = p
    <3>1. At(q, "decided") /\ tx'[q] = tx[q] /\ tx'[p].plan = plan
      BY <1>3, <1>4, <1>7, <2>2
    <3>2. rows[tx[q].plan.id] = None
      BY <3>1 DEF Inv, AllSound, Sound, SoundPlan, PlanTarget
    <3>3. CASE plan.action = "created"
      BY <2>2, <3>1, <3>3
    <3>4. CASE plan.action # "created"
      BY <2>2, <3>1, <3>2, <3>4 DEF SoundPlan, PlanTarget
    <3> QED BY <3>3, <3>4
  <2>3. CASE q # p /\ r # p
    BY <1>4, <1>7, <2>3 DEF Inv, FreshPlans
  <2> QED BY <2>1, <2>2, <2>3
<1> QED BY <1>5, <1>6, <1>9, <1>11, <1>12 DEF Inv

\* Rows that were found not to overlap, but for those in K.
LEMMA CheckedFits ==
    ASSUME NEW r \in Row, NEW K, Overlapping(r) \subseteq K,
           NEW j \in Id, j \notin K, rows[j] # None, rows[j].user = r.user
    PROVE  ~Touches(r, rows[j])
BY DEF Overlapping

LEMMA AllowedDated ==
    ASSUME NEW r \in Row, Allowed(r)
    PROVE  r.type = "variable" => r.days \subseteq r.from .. r.to
<1>1. r.type = "variable" => r.to # None
  BY DEF Allowed, WindowAllowed
<1> QED BY <1>1 DEF Allowed, DaysWithin

LEMMA CreateBesideInv ==
    ASSUME Inv, NEW p \in Proc, At(p, "locked"), NEW i \in Id, NEW r \in Row,
           Fresh(i), r.user = tx[p].user, Allowed(r), CreateBeside(p, i, r)
    PROVE  Inv'
<1> DEFINE plan == [id |-> i, row |-> r, closes |-> None, action |-> "created"]
<1>1. /\ plan \in Plan /\ plan.id = i /\ plan.row = r /\ plan.closes = None
      /\ plan.action = "created"
  BY DEF Plan
<1>2. Decide(p, plan) /\ Overlapping(r) = {}
  BY DEF CreateBeside
<1>3. rows[i] = None /\ \A q \in Proc : At(q, "decided") => tx[q].plan.id # i
  BY DEF Fresh
<1> HIDE DEF plan
<1>4. PlanFits(plan)
  BY <1>1, <1>2, CheckedFits DEF PlanFits
<1>5. PlanTarget(plan) /\ PlanCloses(plan)
  BY <1>1, <1>3 DEF PlanTarget, PlanCloses
<1>6. PlanDated(plan)
  BY <1>1, AllowedDated DEF PlanDated
<1>7. SoundPlan(plan)
  BY <1>4, <1>5, <1>6 DEF SoundPlan
<1> QED BY <1>1, <1>2, <1>3, <1>7, DecideInv

LEMMA CreateClosingInv ==
    ASSUME Inv, NEW p \in Proc, At(p, "locked"), NEW i \in Id, NEW r \in Row,
           Fresh(i), r.user = tx[p].user, Allowed(r), NEW j \in Id, CreateClosing(p, i, r, j)
    PROVE  Inv'
<1> DEFINE plan == [id |-> i, row |-> r, closes |-> j, action |-> "created"]
<1>1. /\ plan \in Plan /\ plan.id = i /\ plan.row = r /\ plan.closes = j
      /\ plan.action = "created"
  BY DEF Plan
<1>2. Decide(p, plan) /\ Overlapping(r) = {j} /\ Closable(j, r)
  BY DEF CreateClosing
<1>3. rows[i] = None /\ \A q \in Proc : At(q, "decided") => tx[q].plan.id # i
  BY DEF Fresh
<1> HIDE DEF plan
<1>4. PlanFits(plan)
  BY <1>1, <1>2, CheckedFits DEF PlanFits
<1>5. rows[j] # None /\ rows[j].user = r.user /\ Touches(r, rows[j])
  BY <1>2 DEF Overlapping
<1>6. PlanCloses(plan)
  BY <1>1, <1>2, <1>3, <1>5 DEF PlanCloses, Closable, Touches
<1>7. PlanTarget(plan)
  BY <1>1, <1>3 DEF PlanTarget
<1>8. PlanDated(plan)
  BY <1>1, AllowedDated DEF PlanDated
<1>9. SoundPlan(plan)
  BY <1>4, <1>6, <1>7, <1>8 DEF SoundPlan
<1> QED BY <1>1, <1>2, <1>3, <1>9, DecideInv

LEMMA CreateInv ==
    ASSUME Inv, NEW p \in Proc, Create(p)
    PROVE  Inv'
<1>1. PICK i \in Id, r \in Row :
        /\ Fresh(i) /\ r.user = tx[p].user /\ Allowed(r)
        /\ CreateBeside(p, i, r) \/ \E j \in Id : CreateClosing(p, i, r, j)
  BY DEF Create
<1>2. At(p, "locked")
  BY DEF Create
<1> QED BY <1>1, <1>2, CreateBesideInv, CreateClosingInv

LEMMA UpdateInv ==
    ASSUME Inv, NEW p \in Proc, Update(p)
    PROVE  Inv'
<1>1. At(p, "locked")
  BY DEF Update
<1>2. PICK i \in Id, s \in Row :
        /\ Mine(p, i)
        /\ s.user = rows[i].user /\ s.type = rows[i].type
        /\ UpdateAllowed(rows[i], s)
        /\ (s.from # rows[i].from \/ s.to # rows[i].to) => Overlapping(s) \subseteq {i}
        /\ Decide(p, [id |-> i, row |-> s, closes |-> None,
                      action |-> IF OnlyShortened(rows[i], s) THEN "closed" ELSE "updated"])
  BY DEF Update
<1> DEFINE plan == [id |-> i, row |-> s, closes |-> None,
                    action |-> IF OnlyShortened(rows[i], s) THEN "closed" ELSE "updated"]
<1>3. /\ plan \in Plan /\ plan.id = i /\ plan.row = s /\ plan.closes = None
      /\ plan.action # "created"
  BY DEF Plan
<1>4. Decide(p, plan)
  BY <1>2
<1> HIDE DEF plan
<1>5. rows[i] # None /\ rows[i].user = s.user /\ s.user = tx[p].user
  BY <1>2 DEF Mine
<1>6. PlanFits(plan)
  <2> SUFFICES ASSUME NEW j \in Id, j # i, rows[j] # None, rows[j].user = s.user
               PROVE  ~Touches(s, rows[j])
    BY <1>3 DEF PlanFits
  <2>1. CASE s.from # rows[i].from \/ s.to # rows[i].to
    BY <1>2, <2>1, CheckedFits
  <2>2. CASE s.from = rows[i].from /\ s.to = rows[i].to
    <3>1. ~Touches(rows[i], rows[j])
      BY <1>5 DEF Inv, NoOverlap
    <3> QED BY <2>2, <3>1 DEF Touches
  <2> QED BY <2>1, <2>2
<1>7. PlanTarget(plan) /\ PlanCloses(plan)
  BY <1>3, <1>5 DEF PlanTarget, PlanCloses
<1>8. PlanDated(plan)
  BY <1>2, <1>3, AllowedDated DEF PlanDated, UpdateAllowed
<1>9. SoundPlan(plan)
  BY <1>6, <1>7, <1>8 DEF SoundPlan
<1> QED BY <1>1, <1>3, <1>4, <1>5, <1>9, DecideInv

LEMMA RemoveInv ==
    ASSUME Inv, NEW p \in Proc, Remove(p)
    PROVE  Inv'
<1>1. At(p, "locked")
  BY DEF Remove
<1>2. PICK i \in Id : Mine(p, i)
        /\ Decide(p, [id |-> i, row |-> rows[i], closes |-> None, action |-> "deleted"])
  BY DEF Remove
<1> DEFINE plan == [id |-> i, row |-> rows[i], closes |-> None, action |-> "deleted"]
<1>3. rows[i] # None /\ rows[i].user = tx[p].user
  BY <1>2 DEF Mine
<1>4. rows[i] \in Row
  BY <1>3, RowOrNone DEF Inv
<1>5. /\ plan \in Plan /\ plan.id = i /\ plan.row = rows[i] /\ plan.closes = None
      /\ plan.action # "created"
  BY <1>4 DEF Plan
<1>6. Decide(p, plan)
  BY <1>2
<1> HIDE DEF plan
<1>7. PlanFits(plan)
  BY <1>3, <1>5 DEF PlanFits, Inv, NoOverlap
<1>8. PlanTarget(plan) /\ PlanCloses(plan)
  BY <1>3, <1>5 DEF PlanTarget, PlanCloses
<1>9. PlanDated(plan)
  BY <1>3, <1>5 DEF PlanDated, Inv, DatesInWindow
<1>10. SoundPlan(plan)
  BY <1>7, <1>8, <1>9 DEF SoundPlan
<1> QED BY <1>1, <1>3, <1>5, <1>6, <1>10, DecideInv

\* A commit: what it writes, and the plans of the others.
LEMMA CommitPlan ==
    ASSUME Inv, NEW p \in Proc, Commit(p)
    PROVE  /\ tx[p] # None /\ tx[p] \in Transaction /\ At(p, "decided")
           /\ tx[p].plan \in Plan /\ tx[p].plan.row.user = tx[p].user
           /\ SoundPlan(tx[p].plan) /\ rows' = Written(tx[p].plan)
           /\ tx' = [tx EXCEPT ![p] = None] /\ now' = now
           /\ history' = history \o Revisions(tx[p])
<1>1. At(p, "decided") /\ tx[p] # None
  BY DEF Commit, At
<1>2. Sound(p) /\ TypeOK
  BY <1>1 DEF Inv, AllSound
<1>3. tx[p] \in Transaction
  BY <1>1, <1>2, TxFields
<1> QED BY <1>1, <1>2, <1>3 DEF Commit, Sound

LEMMA CommitRevisions ==
    ASSUME Inv, NEW p \in Proc, Commit(p)
    PROVE  Revisions(tx[p]) \in Seq(Revision)
<1> DEFINE t == tx[p]
<1> DEFINE plan == t.plan
<1>1. /\ t.user \in User /\ t.began \in Nat
      /\ plan.id \in Id /\ plan.row \in Row /\ plan.closes \in Id \cup {None}
      /\ plan.action \in {"created", "updated", "closed", "deleted"}
      /\ plan \in Plan /\ SoundPlan(plan)
  BY CommitPlan, PlanFields, TxFields DEF Inv
<1> HIDE DEF plan
<1>2. RevisionOf(t, plan.id, plan.row, plan.action) \in Revision
  BY <1>1 DEF RevisionOf, Revision
<1>3. CASE plan.closes = None
  BY <1>2, <1>3 DEF Revisions, plan
<1>4. CASE plan.closes # None
  <2>1. plan.closes \in Id /\ plan.closes # plan.id /\ rows[plan.closes] # None
        /\ rows[plan.closes].from < plan.row.from
    BY <1>1, <1>4 DEF SoundPlan, PlanCloses
  <2>2. rows[plan.closes] \in Row
    BY <2>1, RowOrNone DEF Inv
  <2>3. Closed(rows[plan.closes], plan.row) \in Row
    BY <1>1, <2>1, <2>2, ClosedRow
  <2>4. RevisionOf(t, plan.closes, Closed(rows[plan.closes], plan.row), "closed") \in Revision
    BY <1>1, <2>1, <2>3 DEF RevisionOf, Revision
  <2>5. Revisions(t) = <<RevisionOf(t, plan.closes, Closed(rows[plan.closes], plan.row), "closed"),
                         RevisionOf(t, plan.id, plan.row, plan.action)>>
    BY <1>4 DEF Revisions, plan
  <2> QED BY <1>2, <2>4, <2>5
<1> QED BY <1>3, <1>4

LEMMA CommitInv ==
    ASSUME Inv, NEW p \in Proc, Commit(p)
    PROVE  Inv'
<1> DEFINE plan == tx[p].plan
<1>1. /\ plan \in Plan /\ plan.row.user = tx[p].user /\ SoundPlan(plan)
      /\ rows' = Written(plan) /\ tx' = [tx EXCEPT ![p] = None] /\ now' = now
      /\ history' = history \o Revisions(tx[p]) /\ At(p, "decided")
  BY CommitPlan
<1>2. tx'[p] = None /\ \A q \in Proc \ {p} : tx'[q] = tx[q]
  BY <1>1 DEF Inv, TypeOK
<1> HIDE DEF plan
<1>3. TypeOK'
  <2>1. \A i \in Id : Written(plan)[i] \in Row \cup {None}
    BY <1>1, WrittenRow DEF Inv
  <2>2. rows' \in [Id -> Row \cup {None}]
    BY <1>1, <2>1 DEF Written
  <2>3. history' \in Seq(Revision)
    BY <1>1, CommitRevisions, ConcatProperties DEF Inv, TypeOK
  <2>4. tx' \in [Proc -> Transaction \cup {None}] /\ now' \in 0 .. MaxTransactions
    BY <1>1 DEF Inv, TypeOK
  <2> QED BY <2>2, <2>3, <2>4 DEF TypeOK
<1>4. NoOverlap'
  BY <1>1, CommitNoOverlap DEF Inv
<1>5. DatesInWindow'
  BY <1>1, CommitDates DEF Inv
<1>6. ~At(p, "locked")' /\ ~At(p, "decided")'
  BY <1>2 DEF At
<1>7. \A q \in Proc \ {p} : (Holds(q)' <=> Holds(q)) /\ (At(q, "decided")' <=> At(q, "decided"))
  BY <1>2 DEF Holds, At
<1>8. Exclusive'
  BY <1>2, <1>6, <1>7 DEF Inv, Exclusive, Holds
<1>9. FreshPlans'
  BY <1>2, <1>6, <1>7 DEF Inv, FreshPlans
<1>10. AllSound'
  <2> SUFFICES ASSUME NEW q \in Proc, At(q, "decided")'
               PROVE  Sound(q)'
    BY DEF AllSound
  <2>1. q # p /\ At(q, "decided") /\ tx'[q] = tx[q]
    BY <1>2, <1>6, <1>7
  <2> DEFINE mine == tx[q].plan
  <2>2. mine \in Plan /\ mine.row.user = tx[q].user /\ SoundPlan(mine)
    BY <2>1 DEF Inv, AllSound, Sound
  <2>3. tx[q].user # tx[p].user
    BY <1>1, <2>1 DEF Inv, Exclusive, Holds
  <2>4. mine.action = "created" => plan.id # mine.id
    BY <1>1, <2>1 DEF Inv, FreshPlans, plan
  <2> HIDE DEF mine
  <2>5. SoundPlan(mine)'
    BY <1>1, <2>2, <2>3, <2>4, KeptSound DEF Inv, mine
  <2> QED BY <2>1, <2>2, <2>5 DEF Sound, mine
<1> QED BY <1>3, <1>4, <1>5, <1>8, <1>9, <1>10 DEF Inv

LEMMA NextInv == Inv /\ [Next]_vars => Inv'
<1> SUFFICES ASSUME Inv, [Next]_vars PROVE Inv'
  OBVIOUS
<1>1. ASSUME NEW p \in Proc, NEW u \in User, Begin(p, u) PROVE Inv'
  BY <1>1, BeginInv
<1>2. ASSUME NEW p \in Proc, Lock(p) PROVE Inv'
  BY <1>2, LockInv
<1>3. ASSUME NEW p \in Proc, Create(p) PROVE Inv'
  BY <1>3, CreateInv
<1>4. ASSUME NEW p \in Proc, Update(p) PROVE Inv'
  BY <1>4, UpdateInv
<1>5. ASSUME NEW p \in Proc, Remove(p) PROVE Inv'
  BY <1>5, RemoveInv
<1>6. ASSUME NEW p \in Proc, Commit(p) PROVE Inv'
  BY <1>6, CommitInv
<1>7. ASSUME NEW p \in Proc, Rollback(p) PROVE Inv'
  BY <1>7, RollbackInv
<1>8. CASE UNCHANGED vars
  BY <1>8 DEF vars, Inv, TypeOK, NoOverlap, DatesInWindow, Exclusive, AllSound, FreshPlans, Sound,
     SoundPlan, PlanFits, PlanTarget, PlanCloses, PlanDated, Touches, Reaches, EndsNoLaterThan,
     Holds, At
<1> QED BY <1>1, <1>2, <1>3, <1>4, <1>5, <1>6, <1>7, <1>8 DEF Next

LEMMA InitInv == Init => Inv
<1> SUFFICES ASSUME Init PROVE Inv
  OBVIOUS
<1>1. \A p \in Proc : ~At(p, "locked") /\ ~At(p, "decided")
  BY DEF Init, At
<1>2. TypeOK
  BY SchedulesAssumption DEF Init, TypeOK
<1>3. NoOverlap /\ DatesInWindow
  BY DEF Init, NoOverlap, DatesInWindow
<1> QED BY <1>1, <1>2, <1>3 DEF Inv, Exclusive, AllSound, FreshPlans, Holds

LEMMA InvAlways == Spec => []Inv
BY InitInv, NextInv, PTL DEF Spec

\* Every row, revision and transaction keeps its type, closed periods included:
\* pickClosablePrevious never leaves a period that ends before it starts.
THEOREM SchedulesTyped == Spec => []TypeOK
<1>1. Inv => TypeOK
  BY DEF Inv
<1> QED BY <1>1, InvAlways, PTL

\* Two schedules of one user never overlap, however many requests write at once
\* (lockUser and findOverlapping).
THEOREM NeverOverlapping == Spec => []NoOverlap
<1>1. Inv => NoOverlap
  BY DEF Inv
<1> QED BY <1>1, InvAlways, PTL

\* The dates of a variable schedule lie in its period after any sequence of edits
\* (assertDaysWithinWindow).
THEOREM DatesStayInWindow == Spec => []DatesInWindow
<1>1. Inv => DatesInWindow
  BY DEF Inv
<1> QED BY <1>1, InvAlways, PTL

-----------------------------------------------------------------------------
(* Days that have a schedule keep one.                                       *)

\* A day covered by the row that is closed is covered by what is left of it, or
\* by the row that takes its place.
LEMMA CommitCovers ==
    ASSUME Inv, NEW plan \in Plan, SoundPlan(plan), plan.action = "created",
           rows' = Written(plan),
           NEW u \in User, NEW d \in 1 .. LastDay + 1, Covers(rows, u, d)
    PROVE  Covers(rows', u, d)
<1> DEFINE W == Written(plan)
<1>1. PICK i \in Id : rows[i] # None /\ rows[i].user = u /\ rows[i].from <= d /\ Reaches(rows[i].to, d)
  BY DEF Covers
<1>2. /\ plan.row \in Row /\ plan.id \in Id /\ rows[plan.id] = None /\ W[plan.id] = plan.row
      /\ d \in Int
  BY PlanFields, WrittenRow, SchedulesAssumption DEF SoundPlan, PlanTarget, Inv
<1>3. i # plan.id
  BY <1>1, <1>2
<1>4. CASE i # plan.closes
  <2>1. W[i] = rows[i]
    BY <1>3, <1>4, WrittenRow DEF Inv
  <2> QED BY <1>1, <2>1 DEF Covers
<1>5. CASE i = plan.closes
  <2>1. /\ plan.closes # None /\ rows[i] \in Row /\ W[i] = Closed(rows[i], plan.row)
        /\ W[i] \in Row
    BY <1>3, <1>5, WrittenRow DEF Inv
  <2>2. /\ rows[i].user = plan.row.user /\ rows[i].from < plan.row.from
        /\ EndsNoLaterThan(rows[i].to, plan.row.to)
    BY <1>5, <2>1 DEF SoundPlan, PlanCloses
  <2>3. /\ W[i].to = plan.row.from - 1 /\ W[i].user = u /\ W[i].from = rows[i].from
        /\ plan.row.from \in Int
    BY <1>1, <1>2, <2>1, <2>2, ClosedRow, RowFields, SchedulesAssumption
  <2>4. CASE d <= plan.row.from - 1
    <3>1. W[i] # None
      BY <2>1, SchedulesAssumption
    <3>2. Reaches(W[i].to, d) /\ W[i].from <= d
      BY <1>1, <2>3, <2>4 DEF Reaches
    <3> QED BY <2>3, <3>1, <3>2 DEF Covers
  <2>5. CASE plan.row.from <= d
    <3>1. plan.row # None /\ plan.row.user = u
      BY <1>1, <1>2, <2>2, SchedulesAssumption
    <3>2. Reaches(plan.row.to, d)
      <4>1. CASE plan.row.to = None
        BY <4>1 DEF Reaches
      <4>2. CASE plan.row.to # None
        <5>1. rows[i].to # None /\ rows[i].to <= plan.row.to /\ d <= rows[i].to
          BY <1>1, <2>2, <4>2 DEF EndsNoLaterThan, Reaches
        <5>2. rows[i].to \in Int /\ plan.row.to \in Int
          BY <1>2, <2>1, <4>2, <5>1, RowFields, SchedulesAssumption
        <5> QED BY <1>2, <5>1, <5>2 DEF Reaches
      <4> QED BY <4>1, <4>2
    <3> QED BY <1>2, <2>5, <3>1, <3>2 DEF Covers
  <2> QED BY <1>2, <2>3, <2>4, <2>5
<1> QED BY <1>4, <1>5

\* A row appears by the commit of a plan that creates it, and by nothing else.
LEMMA AppearsByCommit ==
    ASSUME Inv, [Next]_vars, NEW i \in Id, rows[i] = None, rows'[i] # None
    PROVE  \E plan \in Plan :
                SoundPlan(plan) /\ plan.action = "created" /\ rows' = Written(plan)
<1>1. rows' # rows
  OBVIOUS
<1>2. PICK p \in Proc : Commit(p)
  BY <1>1 DEF Next, vars, Begin, Lock, Create, CreateBeside, CreateClosing, Update, Remove, Decide,
     Rollback
<1> DEFINE plan == tx[p].plan
<1>3. plan \in Plan /\ SoundPlan(plan) /\ rows' = Written(plan)
  BY <1>2, CommitPlan
<1> HIDE DEF plan
<1>4. plan.action = "created"
  <2>1. CASE i = plan.id
    BY <1>3, <2>1 DEF SoundPlan, PlanTarget
  <2>2. CASE i # plan.id /\ i = plan.closes
    BY <1>3, <2>2, WrittenRow DEF Inv
  <2>3. CASE i # plan.id /\ i # plan.closes
    BY <1>3, <2>3, WrittenRow DEF Inv
  <2> QED BY <1>3, <2>1, <2>2, <2>3 DEF SoundPlan, PlanTarget
<1> QED BY <1>3, <1>4

LEMMA StepCovers ==
    Inv /\ [Next]_vars =>
        ((\E i \in Id : rows[i] = None /\ rows'[i] # None)
            => \A u \in User, d \in 1 .. LastDay + 1 : Covers(rows, u, d) => Covers(rows', u, d))
BY AppearsByCommit, CommitCovers

\* Creating a schedule, with closePrevious or without, takes a schedule from no day
\* that had one (pickClosablePrevious and the shortened period of create).
THEOREM CreationKeepsCoverage == Spec => CoverageKept
<1>1. Inv /\ [Next]_vars =>
        [(\E i \in Id : rows[i] = None /\ rows'[i] # None)
            => \A u \in User, d \in 1 .. LastDay + 1 :
                    Covers(rows, u, d) => Covers(rows', u, d)]_vars
  BY StepCovers
<1> QED BY <1>1, InvAlways, PTL DEF Spec, CoverageKept

-----------------------------------------------------------------------------
(* The log agrees with the table.                                            *)

Log(i) == {k \in 1 .. Len(history) : history[k].id = i}

Says(e) == IF e.action = "deleted" THEN None ELSE e.row

\* The last revision of i is there and says what row i is.
Logged(i) ==
    \/ Log(i) = {} /\ rows[i] = None
    \/ \E k \in Log(i) : (\A l \in Log(i) : l <= k) /\ rows[i] = Says(history[k])

AllLogged == \A i \in Id : Logged(i)

LEMMA LoggedIsCurrent == ASSUME TypeOK, AllLogged PROVE HistoryIsCurrent
<1> SUFFICES ASSUME NEW i \in Id
             PROVE  IF Log(i) = {} THEN rows[i] = None
                    ELSE rows[i] = Says(history[CHOOSE k \in Log(i) : \A l \in Log(i) : l <= k])
  BY DEF HistoryIsCurrent, Log, Says
<1>1. Logged(i)
  BY DEF AllLogged
<1>2. CASE Log(i) = {}
  BY <1>1, <1>2 DEF Logged
<1>3. CASE Log(i) # {}
  <2>1. PICK k \in Log(i) : (\A l \in Log(i) : l <= k) /\ rows[i] = Says(history[k])
    BY <1>1, <1>3 DEF Logged
  <2> DEFINE m == CHOOSE n \in Log(i) : \A l \in Log(i) : l <= n
  <2>2. m \in Log(i) /\ \A l \in Log(i) : l <= m
    BY <2>1
  <2> HIDE DEF m
  <2>3. k <= m /\ m <= k
    BY <2>1, <2>2
  <2>5. k \in Int /\ m \in Int
    BY <2>2 DEF Log
  <2>4. k = m
    BY <2>3, <2>5
  <2> QED BY <1>3, <2>1, <2>4 DEF m
<1> QED BY <1>2, <1>3

\* What a commit appends: the old entries stay, the new ones follow.
LEMMA Appended ==
    ASSUME history \in Seq(Revision), NEW revs \in Seq(Revision), history' = history \o revs,
           NEW i \in Id
    PROVE  /\ \A k \in 1 .. Len(history) : history'[k] = history[k]
           /\ \A n \in 1 .. Len(revs) :
                /\ Len(history) + n \in 1 .. Len(history')
                /\ history'[Len(history) + n] = revs[n]
           /\ Log(i) \subseteq Log(i)'
           /\ \A k \in Log(i)' :
                \/ k \in Log(i)
                \/ /\ k \in Int /\ k - Len(history) \in 1 .. Len(revs)
                   /\ revs[k - Len(history)].id = i
<1> DEFINE N == Len(history)
<1>1. N \in Nat /\ Len(revs) \in Nat /\ Len(history') = N + Len(revs)
  BY ConcatProperties
<1>2. \A k \in 1 .. N + Len(revs) :
        history'[k] = IF k <= N THEN history[k] ELSE revs[k - N]
  BY ConcatProperties
<1>3. \A k \in 1 .. N : history'[k] = history[k]
  BY <1>1, <1>2
<1>4. \A n \in 1 .. Len(revs) : N + n \in 1 .. Len(history') /\ history'[N + n] = revs[n]
  <2> TAKE n \in 1 .. Len(revs)
  <2>1. N + n \in 1 .. N + Len(revs) /\ ~(N + n <= N) /\ (N + n) - N = n
    BY <1>1
  <2> QED BY <1>1, <1>2, <2>1
<1>5. \A k \in Log(i)' : k \in Log(i) \/ (k \in Int /\ k - N \in 1 .. Len(revs) /\ revs[k - N].id = i)
  BY <1>1, <1>2 DEF Log
<1>6. Log(i) \subseteq Log(i)'
  BY <1>1, <1>3 DEF Log
<1> QED BY <1>3, <1>4, <1>5, <1>6

\* A commit that says nothing of i and leaves row i alone.
LEMMA AppendSilent ==
    ASSUME history \in Seq(Revision), NEW revs \in Seq(Revision), history' = history \o revs,
           NEW i \in Id, Logged(i),
           \A n \in 1 .. Len(revs) : revs[n].id # i,
           rows'[i] = rows[i]
    PROVE  Logged(i)'
<1>1. Log(i)' = Log(i)
  BY Appended
<1>2. \A k \in Log(i) : history'[k] = history[k]
  BY Appended DEF Log
<1> QED BY <1>1, <1>2 DEF Logged

\* A commit whose last word on i is what row i becomes.
LEMMA AppendSays ==
    ASSUME history \in Seq(Revision), NEW revs \in Seq(Revision), history' = history \o revs,
           NEW i \in Id, NEW n \in 1 .. Len(revs), revs[n].id = i,
           \A l \in 1 .. Len(revs) : revs[l].id = i => l <= n,
           rows'[i] = IF revs[n].action = "deleted" THEN None ELSE revs[n].row
    PROVE  Logged(i)'
<1>1. Len(history) \in Nat /\ Len(revs) \in Nat
  OBVIOUS
<1>2. PICK m \in Int : m = Len(history) + n
  BY <1>1
<1>3. m \in 1 .. Len(history') /\ history'[m] = revs[n]
  BY <1>2, Appended
<1>4. m \in Log(i)'
  BY <1>3 DEF Log
<1>5. ASSUME NEW l \in Log(i)' PROVE l <= m
  <2>1. CASE l \in Log(i)
    <3>1. l \in Int /\ l <= Len(history)
      BY <2>1 DEF Log
    <3> QED BY <1>1, <1>2, <3>1
  <2>2. CASE l \in Int /\ l - Len(history) \in 1 .. Len(revs) /\ revs[l - Len(history)].id = i
    <3>1. l - Len(history) <= n
      BY <2>2
    <3> QED BY <1>1, <1>2, <2>2, <3>1
  <2> QED BY <2>1, <2>2, Appended
<1>6. rows'[i] = Says(history'[m])
  BY <1>3 DEF Says
<1> QED BY <1>4, <1>5, <1>6 DEF Logged

LEMMA CommitLogged ==
    ASSUME Inv, AllLogged, NEW p \in Proc, Commit(p)
    PROVE  AllLogged'
<1> DEFINE t == tx[p]
<1> DEFINE plan == t.plan
<1> DEFINE revs == Revisions(t)
<1>1. /\ plan \in Plan /\ SoundPlan(plan) /\ rows' = Written(plan)
      /\ history' = history \o revs /\ revs \in Seq(Revision) /\ history \in Seq(Revision)
  BY CommitPlan, CommitRevisions DEF Inv, TypeOK
<1> DEFINE last == RevisionOf(t, plan.id, plan.row, plan.action)
<1>2. last.id = plan.id /\ last.row = plan.row /\ last.action = plan.action
  BY DEF RevisionOf
<1>3. plan.id \in Id
  BY <1>1, PlanFields
<1> SUFFICES ASSUME NEW i \in Id PROVE Logged(i)'
  BY DEF AllLogged
<1>4. Logged(i)
  BY DEF AllLogged
<1>5. CASE plan.closes = None
  <2>1. revs = <<last>>
    BY <1>5 DEF Revisions
  <2>2. i # None
    BY SchedulesAssumption
  <2> HIDE DEF revs, last
  <2>3. Len(revs) = 1 /\ revs[1] = last
    BY <2>1
  <2> HIDE DEF plan
  <2>4. CASE i = plan.id
    <3>1. rows'[i] = IF last.action = "deleted" THEN None ELSE last.row
      BY <1>1, <1>2, <2>4, WrittenRow DEF Inv
    <3>2. 1 \in 1 .. Len(revs) /\ revs[1].id = i /\ (\A l \in 1 .. Len(revs) : l <= 1)
      BY <1>2, <2>3, <2>4
    <3> QED BY <1>1, <1>4, <2>3, <3>1, <3>2, AppendSays
  <2>5. CASE i # plan.id
    <3>1. rows'[i] = rows[i]
      BY <1>1, <1>5, <2>2, <2>5, WrittenRow DEF Inv
    <3>2. \A n \in 1 .. Len(revs) : revs[n].id # i
      BY <1>2, <2>3, <2>5
    <3> QED BY <1>1, <1>4, <3>1, <3>2, AppendSilent
  <2> QED BY <2>4, <2>5
<1>6. CASE plan.closes # None
  <2> DEFINE shut == RevisionOf(t, plan.closes, Closed(rows[plan.closes], plan.row), "closed")
  <2>1. revs = <<shut, last>>
    BY <1>6 DEF Revisions
  <2>2. /\ shut.id = plan.closes /\ shut.row = Closed(rows[plan.closes], plan.row)
        /\ shut.action = "closed"
    BY DEF RevisionOf
  <2>3. plan.closes # plan.id
    BY <1>1, <1>6 DEF SoundPlan, PlanCloses
  <2> HIDE DEF revs, last, shut
  <2>4. Len(revs) = 2 /\ revs[1] = shut /\ revs[2] = last
    BY <2>1
  <2> HIDE DEF plan
  <2>5. CASE i = plan.id
    <3>1. rows'[i] = IF last.action = "deleted" THEN None ELSE last.row
      BY <1>1, <1>2, <2>5, WrittenRow DEF Inv
    <3>2. 2 \in 1 .. Len(revs) /\ revs[2].id = i /\ (\A l \in 1 .. Len(revs) : l <= 2)
      BY <1>2, <2>4, <2>5
    <3> QED BY <1>1, <1>4, <2>4, <3>1, <3>2, AppendSays
  <2>6. CASE i = plan.closes
    <3>1. rows'[i] = shut.row /\ shut.action # "deleted"
      BY <1>1, <2>2, <2>3, <2>6, WrittenRow DEF Inv
    <3>2. /\ 1 \in 1 .. Len(revs) /\ revs[1].id = i
          /\ \A l \in 1 .. Len(revs) : revs[l].id = i => l <= 1
      BY <1>2, <2>2, <2>3, <2>4, <2>6
    <3> QED BY <1>1, <1>4, <2>4, <3>1, <3>2, AppendSays
  <2>7. CASE i # plan.id /\ i # plan.closes
    <3>1. rows'[i] = rows[i]
      BY <1>1, <2>7, WrittenRow DEF Inv
    <3>2. \A n \in 1 .. Len(revs) : revs[n].id # i
      BY <1>2, <2>2, <2>4, <2>7
    <3> QED BY <1>1, <1>4, <3>1, <3>2, AppendSilent
  <2> QED BY <2>5, <2>6, <2>7
<1> QED BY <1>5, <1>6

LEMMA NextLogged == Inv /\ AllLogged /\ [Next]_vars => AllLogged'
<1> SUFFICES ASSUME Inv, AllLogged, [Next]_vars PROVE AllLogged'
  OBVIOUS
<1>1. ASSUME NEW p \in Proc, Commit(p) PROVE AllLogged'
  BY <1>1, CommitLogged
<1>2. CASE rows' = rows /\ history' = history
  BY <1>2 DEF AllLogged, Logged, Log, Says
<1> QED
  BY <1>1, <1>2 DEF Next, vars, Begin, Lock, Create, CreateBeside, CreateClosing, Update, Remove,
     Decide, Rollback

\* The last revision of a schedule is the schedule, or says that it was deleted:
\* no commit writes the table without the log (recordRevision).
THEOREM LogIsCurrent == Spec => []HistoryIsCurrent
<1>1. Init => AllLogged
  BY DEF Init, AllLogged, Logged, Log
<1>2. Inv /\ AllLogged => HistoryIsCurrent
  BY LoggedIsCurrent DEF Inv
<1> QED BY <1>1, <1>2, NextLogged, InvAlways, PTL DEF Spec

-----------------------------------------------------------------------------
(* Serializability: what a transaction is about to write would be allowed   *)
(* now.  Its rows may be read again: nobody else has written them.          *)

PlanAllowed(plan) ==
    plan.action # "deleted" =>
        /\ Allowed(plan.row)
        /\ plan.action # "created" => plan.row.type = rows[plan.id].type
        /\ plan.closes # None => plan.row.type = "fixed"

AllAllowed == \A p \in Proc : At(p, "decided") => PlanAllowed(tx[p].plan)

\* The transactions but p are as they were.
LEMMA OthersAllowed ==
    ASSUME Inv, AllAllowed, rows' = rows, NEW p \in Proc,
           \A q \in Proc \ {p} : tx'[q] = tx[q],
           At(p, "decided")' => PlanAllowed(tx'[p].plan)
    PROVE  AllAllowed'
<1> SUFFICES ASSUME NEW q \in Proc, At(q, "decided")' PROVE PlanAllowed(tx[q].plan)'
  BY DEF AllAllowed
<1>1. CASE q = p
  BY <1>1 DEF PlanAllowed
<1>2. CASE q # p
  BY <1>2 DEF AllAllowed, At, PlanAllowed
<1> QED BY <1>1, <1>2

LEMMA DecideAllowed ==
    ASSUME Inv, AllAllowed, NEW p \in Proc, At(p, "locked"), NEW plan, Decide(p, plan),
           PlanAllowed(plan)
    PROVE  AllAllowed'
<1>1. rows' = rows /\ tx' = [tx EXCEPT ![p] = [tx[p] EXCEPT !.stage = "decided", !.plan = plan]]
  BY DEF Decide
<1>2. tx[p] \in Transaction
  BY TxFields DEF At, Inv
<1>3. tx'[p].plan = plan /\ \A q \in Proc \ {p} : tx'[q] = tx[q]
  BY <1>1, <1>2 DEF Inv, TypeOK, Transaction
<1> QED BY <1>1, <1>3, OthersAllowed

LEMMA CreateAllowed ==
    ASSUME Inv, AllAllowed, NEW p \in Proc, Create(p)
    PROVE  AllAllowed'
<1>1. At(p, "locked")
  BY DEF Create
<1>2. PICK i \in Id, r \in Row :
        Allowed(r) /\ (CreateBeside(p, i, r) \/ \E j \in Id : CreateClosing(p, i, r, j))
  BY DEF Create
<1>3. CASE CreateBeside(p, i, r)
  <2> DEFINE plan == [id |-> i, row |-> r, closes |-> None, action |-> "created"]
  <2>1. Decide(p, plan) /\ PlanAllowed(plan)
    BY <1>2, <1>3 DEF CreateBeside, PlanAllowed
  <2> HIDE DEF plan
  <2> QED BY <1>1, <2>1, DecideAllowed
<1>4. ASSUME NEW j \in Id, CreateClosing(p, i, r, j)
      PROVE  AllAllowed'
  <2> DEFINE plan == [id |-> i, row |-> r, closes |-> j, action |-> "created"]
  <2>1. Decide(p, plan) /\ r.type = "fixed"
    BY <1>4 DEF CreateClosing, Closable
  <2>2. PlanAllowed(plan)
    BY <1>2, <2>1 DEF PlanAllowed
  <2> HIDE DEF plan
  <2> QED BY <1>1, <2>1, <2>2, DecideAllowed
<1> QED BY <1>2, <1>3, <1>4

LEMMA UpdateRemoveAllowed ==
    ASSUME Inv, AllAllowed, NEW p \in Proc, Update(p) \/ Remove(p)
    PROVE  AllAllowed'
<1>1. At(p, "locked")
  BY DEF Update, Remove
<1>2. CASE Update(p)
  <2>1. PICK i \in Id, s \in Row :
          /\ s.type = rows[i].type /\ UpdateAllowed(rows[i], s)
          /\ Decide(p, [id |-> i, row |-> s, closes |-> None,
                        action |-> IF OnlyShortened(rows[i], s) THEN "closed" ELSE "updated"])
    BY <1>2 DEF Update
  <2> DEFINE plan == [id |-> i, row |-> s, closes |-> None,
                      action |-> IF OnlyShortened(rows[i], s) THEN "closed" ELSE "updated"]
  <2>2. Decide(p, plan) /\ PlanAllowed(plan)
    BY <2>1 DEF PlanAllowed, UpdateAllowed
  <2> HIDE DEF plan
  <2> QED BY <1>1, <2>2, DecideAllowed
<1>3. CASE Remove(p)
  <2>1. PICK i \in Id :
          Decide(p, [id |-> i, row |-> rows[i], closes |-> None, action |-> "deleted"])
    BY <1>3 DEF Remove
  <2> DEFINE plan == [id |-> i, row |-> rows[i], closes |-> None, action |-> "deleted"]
  <2>2. Decide(p, plan) /\ PlanAllowed(plan)
    BY <2>1 DEF PlanAllowed
  <2> HIDE DEF plan
  <2> QED BY <1>1, <2>2, DecideAllowed
<1> QED BY <1>2, <1>3

\* A commit writes no row of another transaction.
LEMMA CommitAllowed ==
    ASSUME Inv, AllAllowed, NEW p \in Proc, Commit(p)
    PROVE  AllAllowed'
<1> SUFFICES ASSUME NEW q \in Proc, At(q, "decided")' PROVE PlanAllowed(tx[q].plan)'
  BY DEF AllAllowed
<1> DEFINE mine == tx[q].plan
           plan == tx[p].plan
<1>1. /\ plan \in Plan /\ plan.row.user = tx[p].user /\ SoundPlan(plan)
      /\ rows' = Written(plan) /\ tx' = [tx EXCEPT ![p] = None] /\ At(p, "decided")
  BY CommitPlan
<1>2. q # p /\ tx'[q] = tx[q] /\ At(q, "decided")
  BY <1>1 DEF Inv, TypeOK, At
<1>3. /\ mine \in Plan /\ mine.row.user = tx[q].user /\ SoundPlan(mine)
      /\ PlanAllowed(mine) /\ tx[q].user # tx[p].user
  BY <1>1, <1>2 DEF Inv, AllSound, Sound, AllAllowed, Exclusive, Holds
<1> HIDE DEF mine, plan
<1>4. ASSUME mine.action # "created"
      PROVE  rows'[mine.id] = rows[mine.id]
  <2>1. /\ mine.id \in Id /\ rows[mine.id] # None /\ rows[mine.id].user = mine.row.user
    BY <1>3, <1>4, PlanFields DEF SoundPlan, PlanTarget
  <2> QED BY <1>1, <1>3, <2>1, WritesOwn DEF Inv
<1>5. tx'[q].plan = mine
  BY <1>2 DEF mine
<1> QED BY <1>3, <1>4, <1>5 DEF PlanAllowed

LEMMA NextAllowed == Inv /\ AllAllowed /\ [Next]_vars => AllAllowed'
<1> SUFFICES ASSUME Inv, AllAllowed, [Next]_vars PROVE AllAllowed'
  OBVIOUS
<1>1. ASSUME NEW p \in Proc, NEW u \in User, Begin(p, u) PROVE AllAllowed'
  <2> DEFINE t == [stage |-> "begun", user |-> u, began |-> now + 1, plan |-> None]
  <2>1. rows' = rows /\ tx' = [tx EXCEPT ![p] = t]
    BY <1>1 DEF Begin
  <2>2. tx'[p] = t /\ \A q \in Proc \ {p} : tx'[q] = tx[q]
    BY <2>1 DEF Inv, TypeOK
  <2>3. ~At(p, "decided")'
    BY <2>2 DEF At
  <2> QED BY <2>1, <2>2, <2>3, OthersAllowed
<1>2. ASSUME NEW p \in Proc, Lock(p) \/ Rollback(p) PROVE AllAllowed'
  <2>1. rows' = rows
    BY <1>2 DEF Lock, Rollback
  <2>2. \A q \in Proc \ {p} : tx'[q] = tx[q]
    BY <1>2 DEF Lock, Rollback, Inv, TypeOK
  <2>3. ~At(p, "decided")'
    <3>1. CASE Rollback(p)
      BY <3>1 DEF Rollback, At, Inv, TypeOK
    <3>2. CASE Lock(p)
      <4>1. tx[p] \in Transaction /\ tx' = [tx EXCEPT ![p] = [tx[p] EXCEPT !.stage = "locked"]]
        BY <3>2, TxFields DEF Lock, At, Inv
      <4>2. tx'[p].stage = "locked"
        BY <4>1 DEF Inv, TypeOK, Transaction
      <4> QED BY <4>2 DEF At
    <3> QED BY <1>2, <3>1, <3>2
  <2> QED BY <2>1, <2>2, <2>3, OthersAllowed
<1>3. ASSUME NEW p \in Proc, Create(p) PROVE AllAllowed'
  BY <1>3, CreateAllowed
<1>4. ASSUME NEW p \in Proc, Update(p) \/ Remove(p) PROVE AllAllowed'
  BY <1>4, UpdateRemoveAllowed
<1>5. ASSUME NEW p \in Proc, Commit(p) PROVE AllAllowed'
  BY <1>5, CommitAllowed
<1>6. CASE UNCHANGED vars
  BY <1>6 DEF vars, AllAllowed, At, PlanAllowed
<1> QED BY <1>1, <1>2, <1>3, <1>4, <1>5, <1>6 DEF Next

LEMMA AllowedAlways == Spec => []AllAllowed
<1>1. Init => AllAllowed
  BY DEF Init, AllAllowed, At
<1> QED BY <1>1, NextAllowed, InvAlways, PTL DEF Spec

\* The rows a sound plan touches are those it closes.
LEMMA PlanOverlaps ==
    ASSUME Inv, NEW plan \in Plan, SoundPlan(plan)
    PROVE  /\ Overlapping(plan.row) \subseteq {plan.id, plan.closes}
           /\ plan.closes # None => plan.closes \in Overlapping(plan.row)
<1>1. Overlapping(plan.row) \subseteq {plan.id, plan.closes}
  BY DEF Overlapping, SoundPlan, PlanFits
<1>2. ASSUME plan.closes # None
      PROVE  plan.closes \in Overlapping(plan.row)
  <2> DEFINE j == plan.closes
             r == rows[j]
             w == plan.row
  <2>1. /\ j \in Id /\ r # None /\ r.user = w.user /\ r.from < w.from /\ Reaches(r.to, w.from)
    BY <1>2 DEF SoundPlan, PlanCloses
  <2>2. r \in Row /\ w \in Row
    BY <2>1, RowOrNone, PlanFields DEF Inv
  <2> HIDE DEF r, w, j
  <2>3. r.from \in Int /\ w.from \in Int /\ (w.to # None => w.to \in Int /\ w.from <= w.to)
    BY <2>2, RowFields, SchedulesAssumption
  <2>4. Reaches(w.to, r.from)
    BY <2>1, <2>3 DEF Reaches
  <2>5. Touches(w, r)
    BY <2>1, <2>4 DEF Touches
  <2> QED BY <2>1, <2>5 DEF Overlapping, r, w, j
<1> QED BY <1>1, <1>2

\* What is committed is what the request would write if it were alone now.
LEMMA CommitSerial ==
    ASSUME Inv, NEW plan \in Plan, SoundPlan(plan), PlanAllowed(plan), rows' = Written(plan)
    PROVE  \E i \in Id :
                \/ rows'[i] # None /\ (CreatedNow(i, rows'[i]) \/ UpdatedNow(i, rows'[i]))
                \/ RemovedNow(i)
<1> DEFINE i == plan.id
           j == plan.closes
           r == plan.row
           W == Written(plan)
<1>1. i \in Id /\ r \in Row /\ r # None /\ j \in Id \cup {None} /\ i # None
  BY PlanFields, SchedulesAssumption
<1>2. Overlapping(r) \subseteq {i, j} /\ (j # None => j \in Overlapping(r))
  BY PlanOverlaps
<1>3. Overlapping(r) \subseteq Id /\ \A k \in Overlapping(r) : rows[k] # None
  BY DEF Overlapping
<1>4. rows \in [Id -> Row \cup {None}]
  BY DEF Inv, TypeOK
<1>5. W = [k \in Id |-> W[k]]
  BY DEF Written
<1>6. \A k \in Id : k # i /\ k # j => W[k] = rows[k]
  BY WrittenRow DEF Inv
<1>7. W[i] = IF plan.action = "deleted" THEN None ELSE r
  BY <1>1, WrittenRow DEF Inv
<1>8. None \notin Id
  BY SchedulesAssumption
<1>9. CASE plan.action = "created" /\ j = None
  <2>1. rows[i] = None /\ Allowed(r) /\ W[i] = r
    BY <1>7, <1>9 DEF SoundPlan, PlanTarget, PlanAllowed
  <2>2. Overlapping(r) = {}
    BY <1>2, <1>3, <1>8, <1>9, <2>1
  <2> HIDE DEF i, j, r, W
  <2>3. W = [rows EXCEPT ![i] = r]
    BY <1>1, <1>4, <1>5, <1>6, <1>8, <1>9, <2>1
  <2>4. rows' = W
    BY DEF W
  <2>5. rows'[i] # None /\ CreatedNow(i, rows'[i])
    BY <1>1, <2>1, <2>2, <2>3, <2>4 DEF CreatedNow
  <2> QED BY <1>1, <2>5
<1>10. CASE plan.action = "created" /\ j # None
  <2>1. rows[i] = None /\ Allowed(r) /\ W[i] = r /\ r.type = "fixed"
    BY <1>7, <1>10 DEF SoundPlan, PlanTarget, PlanAllowed
  <2>2. /\ j \in Id /\ j # i /\ rows[j].type = "fixed" /\ rows[j].from < r.from
        /\ EndsNoLaterThan(rows[j].to, r.to)
    BY <1>10 DEF SoundPlan, PlanCloses
  <2>3. Overlapping(r) = {j} /\ Closable(j, r)
    BY <1>2, <1>3, <1>10, <2>1, <2>2 DEF Closable
  <2>4. W[j] = Closed(rows[j], r)
    BY <2>2, WrittenRow DEF Inv
  <2> HIDE DEF i, j, r, W
  <2>5. W = [rows EXCEPT ![i] = r, ![j] = Closed(rows[j], r)]
    BY <1>1, <1>4, <1>5, <1>6, <2>1, <2>2, <2>4
  <2>6. rows' = W
    BY DEF W
  <2>7. rows'[i] # None /\ CreatedNow(i, rows'[i])
    BY <1>1, <2>1, <2>2, <2>3, <2>5, <2>6 DEF CreatedNow
  <2> QED BY <1>1, <2>7
<1>11. CASE plan.action # "created" /\ plan.action # "deleted"
  <2>1. /\ rows[i] # None /\ r.user = rows[i].user /\ r.type = rows[i].type /\ Allowed(r)
        /\ W[i] = r /\ j = None
    BY <1>7, <1>11 DEF SoundPlan, PlanTarget, PlanAllowed
  <2>2. Overlapping(r) \subseteq {i}
    BY <1>2, <1>3, <1>8, <2>1
  <2> HIDE DEF i, j, r, W
  <2>3. W = [rows EXCEPT ![i] = r]
    BY <1>1, <1>4, <1>5, <1>6, <1>8, <2>1
  <2>4. rows' = W
    BY DEF W
  <2>5. rows'[i] # None /\ UpdatedNow(i, rows'[i])
    BY <1>1, <2>1, <2>2, <2>3, <2>4 DEF UpdatedNow
  <2> QED BY <1>1, <2>5
<1>12. CASE plan.action = "deleted"
  <2>1. rows[i] # None /\ W[i] = None /\ j = None
    BY <1>7, <1>12 DEF SoundPlan, PlanTarget
  <2> HIDE DEF i, j, r, W
  <2>2. W = [rows EXCEPT ![i] = None]
    BY <1>1, <1>4, <1>5, <1>6, <1>8, <2>1
  <2>3. rows' = W
    BY DEF W
  <2>4. RemovedNow(i)
    BY <2>1, <2>2, <2>3 DEF RemovedNow
  <2> QED BY <1>1, <2>4
<1> QED BY <1>9, <1>10, <1>11, <1>12

\* Only commits write rows.
LEMMA WrittenByCommit ==
    ASSUME Inv, AllAllowed, [Next]_vars, rows' # rows
    PROVE  \E plan \in Plan : SoundPlan(plan) /\ PlanAllowed(plan) /\ rows' = Written(plan)
<1>1. ASSUME NEW p \in Proc,
             \/ \E u \in User : Begin(p, u)
             \/ Lock(p) \/ Create(p) \/ Update(p) \/ Remove(p) \/ Rollback(p)
      PROVE  rows' = rows
  BY <1>1 DEF Begin, Lock, Create, CreateBeside, CreateClosing, Update, Remove, Decide, Rollback
<1>2. PICK p \in Proc : Commit(p)
  BY <1>1 DEF Next, vars
<1> QED BY <1>2, CommitPlan DEF AllAllowed

\* Every commit does what its request, decided on rows read earlier, would do now, alone:
\* the row lock of lockUser makes the transactions serializable in the order they commit.
THEOREM CommitsAsIfAlone == Spec => Serializable
<1>1. Inv /\ AllAllowed /\ [Next]_vars =>
        [\E i \in Id :
            \/ rows'[i] # None /\ (CreatedNow(i, rows'[i]) \/ UpdatedNow(i, rows'[i]))
            \/ RemovedNow(i)]_rows
  BY WrittenByCommit, CommitSerial
<1> QED BY <1>1, InvAlways, AllowedAlways, PTL DEF Spec, Serializable

-----------------------------------------------------------------------------
(* The calendar: what the commits do to the days.                            *)

Span(r) ==
    IF r = None THEN {}
    ELSE {r.user} \X {d \in 1 .. LastDay + 1 : r.from <= d /\ Reaches(r.to, d)}

LEMMA SpanMember ==
    ASSUME NEW r \in Row
    PROVE  /\ \A x \in Span(r) :
                /\ x = <<x[1], x[2]>> /\ x[1] = r.user /\ x[2] \in 1 .. LastDay + 1
                /\ x[2] \in Int /\ r.from <= x[2] /\ Reaches(r.to, x[2])
           /\ \A d \in 1 .. LastDay + 1 :
                r.from <= d /\ Reaches(r.to, d) => <<r.user, d>> \in Span(r)
<1>1. r # None /\ LastDay \in Nat
  BY SchedulesAssumption
<1> QED BY <1>1 DEF Span

\* A schedule without an end fills the days up to LastDay + 1, any other its period.
LEMMA SpanIsPeriod ==
    ASSUME NEW r \in Row
    PROVE  Span(r) \in Days!Periods
<1>1. /\ r.user \in User /\ r.from \in 1 .. LastDay /\ r # None /\ LastDay \in Nat
      /\ r.to # None => r.to \in 1 .. LastDay /\ r.from <= r.to
  BY RowFields, SchedulesAssumption
<1>2. PICK b \in 1 .. LastDay + 1 : b = IF r.to = None THEN LastDay + 1 ELSE r.to
  BY <1>1
<1>3. r.from \in 1 .. LastDay + 1
  BY <1>1
<1>4. \A d \in 1 .. LastDay + 1 : Reaches(r.to, d) <=> d <= b
  BY <1>1, <1>2 DEF Reaches
<1>5. {d \in 1 .. LastDay + 1 : r.from <= d /\ Reaches(r.to, d)}
        = {d \in 1 .. LastDay + 1 : r.from <= d /\ d <= b}
  BY <1>4
<1>6. Span(r) = Days!Period(r.user, r.from, b)
  BY <1>1, <1>5 DEF Span, Days!Period
<1>7. <<r.user, r.from>> \in Span(r)
  <2>1. r.from <= r.from /\ Reaches(r.to, r.from)
    BY <1>1 DEF Reaches
  <2> QED BY <1>3, <2>1, SpanMember
<1> QED BY <1>1, <1>2, <1>3, <1>6, <1>7 DEF Days!Periods

\* Two schedules touch when they share a day of a user: assertNoOverlap decides by
\* comparing the ends of the two windows.
THEOREM OverlapIsSharedDay ==
    ASSUME NEW r \in Row, NEW v \in Row
    PROVE  Span(r) \cap Span(v) # {} <=> r.user = v.user /\ Touches(r, v)
<1>1. /\ r.from \in 1 .. LastDay /\ v.from \in 1 .. LastDay /\ LastDay \in Nat
      /\ r.to # None => r.to \in Int /\ r.from <= r.to
      /\ v.to # None => v.to \in Int /\ v.from <= v.to
  BY RowFields, SchedulesAssumption
<1>2. ASSUME NEW x \in Span(r) \cap Span(v)
      PROVE  r.user = v.user /\ Touches(r, v)
  <2>1. /\ x[1] = r.user /\ x[1] = v.user /\ x[2] \in Int
        /\ r.from <= x[2] /\ Reaches(r.to, x[2])
        /\ v.from <= x[2] /\ Reaches(v.to, x[2])
    BY SpanMember
  <2>2. Reaches(v.to, r.from) /\ Reaches(r.to, v.from)
    BY <1>1, <2>1 DEF Reaches
  <2> QED BY <2>1, <2>2 DEF Touches
<1>3. ASSUME r.user = v.user, Touches(r, v)
      PROVE  Span(r) \cap Span(v) # {}
  <2>1. PICK d \in 1 .. LastDay : d = IF r.from <= v.from THEN v.from ELSE r.from
    BY <1>1
  <2>2. d \in 1 .. LastDay + 1
    BY <1>1, <2>1
  <2>3. r.from <= d /\ v.from <= d
    BY <1>1, <2>1
  <2>4. Reaches(r.to, d) /\ Reaches(v.to, d)
    BY <1>1, <1>3, <2>1 DEF Touches, Reaches
  <2>5. <<r.user, d>> \in Span(r) /\ <<v.user, d>> \in Span(v)
    BY <2>2, <2>3, <2>4, SpanMember
  <2> QED BY <1>3, <2>5
<1> QED BY <1>2, <1>3

\* A schedule that is closed keeps the days before those of the new one.
LEMMA ClosedSpan ==
    ASSUME NEW r \in Row, NEW w \in Row, r.user = w.user, r.from < w.from,
           Reaches(r.to, w.from), EndsNoLaterThan(r.to, w.to)
    PROVE  /\ Span(Closed(r, w)) = Span(r) \ Span(w)
           /\ \A x \in Span(r) \ Span(w), y \in Span(w) : x[2] < y[2]
<1> DEFINE c == Closed(r, w)
<1>1. /\ r.from \in Int /\ w.from \in Int /\ LastDay \in Nat
      /\ r.to # None => r.to \in Int
      /\ w.to # None => w.to \in Int
  BY RowFields, SchedulesAssumption
<1>2. c \in Row /\ c.to = w.from - 1 /\ c.to # None /\ c.user = r.user /\ c.from = r.from
  BY ClosedRow
<1> HIDE DEF c
<1>3. ASSUME NEW x \in Span(c)
      PROVE  x \in Span(r) \ Span(w)
  <2>1. /\ x = <<r.user, x[2]>> /\ x[2] \in 1 .. LastDay + 1 /\ x[2] \in Int
        /\ r.from <= x[2] /\ x[2] <= w.from - 1
    BY <1>2, SpanMember DEF Reaches
  <2>2. Reaches(r.to, x[2])
    BY <1>1, <2>1 DEF Reaches
  <2>3. x \in Span(r)
    BY <2>1, <2>2, SpanMember
  <2>4. x \notin Span(w)
    <3>1. x \in Span(w) => w.from <= x[2]
      BY SpanMember
    <3> QED BY <1>1, <2>1, <3>1
  <2> QED BY <2>3, <2>4
<1>4. ASSUME NEW x \in Span(r) \ Span(w)
      PROVE  x[2] \in Int /\ x[2] < w.from /\ x \in Span(c)
  <2>1. /\ x = <<w.user, x[2]>> /\ x[2] \in 1 .. LastDay + 1 /\ x[2] \in Int
        /\ r.from <= x[2] /\ Reaches(r.to, x[2])
    BY SpanMember
  <2>2. Reaches(w.to, x[2])
    BY <1>1, <2>1 DEF Reaches, EndsNoLaterThan
  <2>3. ~(w.from <= x[2])
    BY <2>1, <2>2, SpanMember
  <2>4. c.from <= x[2] /\ Reaches(c.to, x[2])
    BY <1>1, <1>2, <2>1, <2>3 DEF Reaches
  <2>5. <<c.user, x[2]>> \in Span(c)
    BY <1>2, <2>1, <2>4, SpanMember
  <2> QED BY <1>1, <1>2, <2>1, <2>3, <2>5
<1>5. ASSUME NEW x \in Span(r) \ Span(w), NEW y \in Span(w)
      PROVE  x[2] < y[2]
  <2>1. w.from <= y[2] /\ y[2] \in Int
    BY SpanMember
  <2> QED BY <1>1, <1>4, <2>1
<1>6. Span(c) = Span(r) \ Span(w)
  BY <1>3, <1>4
<1> QED BY <1>5, <1>6 DEF c

LEMMA FilledIsSpan ==
    /\ DaysFilled = [i \in Id |-> Span(rows[i])]
    /\ DaysFilled' = [i \in Id |-> Span(rows'[i])]
BY DEF DaysFilled, Filled, Span, Reaches

LEMMA NoneFillsNothing == Span(None) = {} /\ \A r \in Row : Span(r) # {}
<1>1. {} \notin Days!Periods
  BY DEF Days!Periods
<1> QED BY <1>1, SpanIsPeriod DEF Span

\* The schedules that have a day of r are those r overlaps, but for itself.
LEMMA TakenOverlap ==
    ASSUME TypeOK, NEW i \in Id, NEW r \in Row
    PROVE  Days!Taken(Span(r), i) = Overlapping(r) \ {i}
<1>1. DaysFilled = [k \in Id |-> Span(rows[k])]
  BY FilledIsSpan
<1>2. ASSUME NEW k \in Id
      PROVE  DaysFilled[k] \cap Span(r) # {} <=> k \in Overlapping(r)
  <2>1. DaysFilled[k] = Span(rows[k])
    BY <1>1
  <2>2. CASE rows[k] = None
    BY <2>1, <2>2, NoneFillsNothing DEF Overlapping
  <2>3. CASE rows[k] # None
    <3>1. rows[k] \in Row
      BY <2>3, RowOrNone
    <3>2. Span(r) \cap Span(rows[k]) # {} <=> r.user = rows[k].user /\ Touches(r, rows[k])
      BY <3>1, OverlapIsSharedDay
    <3> QED BY <2>1, <2>3, <3>2 DEF Overlapping
  <2> QED BY <2>2, <2>3
<1>3. Overlapping(r) \subseteq Id
  BY DEF Overlapping
<1> QED BY <1>2, <1>3 DEF Days!Taken

\* What becomes of the days when rows i and j are written.
LEMMA FilledExcept ==
    ASSUME NEW i \in Id, NEW j \in Id, \A k \in Id \ {i, j} : rows'[k] = rows[k]
    PROVE  DaysFilled' = [DaysFilled EXCEPT ![i] = Span(rows'[i]), ![j] = Span(rows'[j])]
BY FilledIsSpan

\* When row i is.
LEMMA FilledExceptOne ==
    ASSUME NEW i \in Id, \A k \in Id \ {i} : rows'[k] = rows[k]
    PROVE  DaysFilled' = [DaysFilled EXCEPT ![i] = Span(rows'[i])]
BY FilledIsSpan

LEMMA CreatedEnters ==
    ASSUME TypeOK, NEW i \in Id, NEW r \in Row, CreatedNow(i, r)
    PROVE  DaysFilled'[i] = Span(r) /\ DaysFilled'[i] # DaysFilled[i]
           /\ (Days!Enter(i, Span(r)) \/ Days!Replace(i, Span(r)))
<1> DEFINE D == Span(r)
<1>1. rows[i] = None /\ D # {} /\ D \in Days!Periods
  BY NoneFillsNothing, SpanIsPeriod DEF CreatedNow
<1>2. /\ DaysFilled = [k \in Id |-> Span(rows[k])]
      /\ DaysFilled' = [k \in Id |-> Span(rows'[k])]
  BY FilledIsSpan
<1>3. DaysFilled[i] = {}
  BY <1>1, <1>2, NoneFillsNothing
<1>4. Days!Taken(D, i) = Overlapping(r) \ {i}
  BY TakenOverlap
<1>5. i \notin Overlapping(r)
  BY <1>1 DEF Overlapping
<1> HIDE DEF D
<1>6. CASE Overlapping(r) = {} /\ rows' = [rows EXCEPT ![i] = r]
  <2>1. rows'[i] = r /\ \A k \in Id \ {i} : rows'[k] = rows[k]
    BY <1>6 DEF TypeOK
  <2>2. DaysFilled' = [DaysFilled EXCEPT ![i] = D]
    BY <2>1, FilledExceptOne DEF D
  <2>3. DaysFilled'[i] = D
    BY <1>2, <2>2
  <2>4. Days!Taken(D, i) = {}
    BY <1>4, <1>6
  <2>5. Days!Enter(i, D)
    BY <1>1, <1>3, <2>2, <2>4 DEF Days!Enter
  <2> QED BY <1>1, <1>3, <2>3, <2>5 DEF D
<1>7. ASSUME NEW j \in Id, Overlapping(r) = {j}, Closable(j, r),
             rows' = [rows EXCEPT ![i] = r, ![j] = Closed(rows[j], r)]
      PROVE  DaysFilled'[i] = D /\ Days!Replace(i, D)
  <2> DEFINE v == rows[j]
  <2>1. v # None /\ v.user = r.user /\ Touches(r, v) /\ j # i
    BY <1>5, <1>7 DEF Overlapping
  <2>2. v \in Row
    BY <2>1, RowOrNone
  <2>3. v.from < r.from /\ Reaches(v.to, r.from) /\ EndsNoLaterThan(v.to, r.to)
    BY <1>7, <2>1 DEF Closable, Touches
  <2>4. DaysFilled' = [DaysFilled EXCEPT ![i] = D, ![j] = Span(Closed(v, r))]
    <3>1. rows'[i] = r /\ rows'[j] = Closed(v, r) /\ \A k \in Id \ {i, j} : rows'[k] = rows[k]
      BY <1>7, <2>1 DEF TypeOK
    <3> HIDE DEF v
    <3> QED BY <3>1, FilledExcept DEF D
  <2> HIDE DEF v
  <2>5. /\ Span(Closed(v, r)) = Span(v) \ D
        /\ \A x \in Span(v) \ D, y \in D : x[2] < y[2]
    BY <2>1, <2>2, <2>3, ClosedSpan DEF D
  <2>6. Span(v) \ D \in Days!Periods
    <3>1. Closed(v, r) \in Row
      BY <2>2, <2>3, ClosedRow
    <3> QED BY <2>5, <3>1, SpanIsPeriod
  <2>7. DaysFilled[j] = Span(v)
    BY <1>2 DEF v
  <2>8. Days!Taken(D, i) = {j}
    BY <1>4, <1>7, <2>1
  <2>9. DaysFilled'[i] = D
    BY <1>2, <2>1, <2>4
  <2>10. Days!Replace(i, D)
    BY <1>1, <1>3, <2>4, <2>5, <2>6, <2>7, <2>8 DEF Days!Replace
  <2> QED BY <2>9, <2>10
<1>8. CASE \E j \in Id : /\ Overlapping(r) = {j} /\ Closable(j, r)
                         /\ rows' = [rows EXCEPT ![i] = r, ![j] = Closed(rows[j], r)]
  BY <1>1, <1>3, <1>7, <1>8 DEF D
<1> QED BY <1>6, <1>8 DEF CreatedNow

LEMMA UpdatedMoves ==
    ASSUME TypeOK, NEW i \in Id, NEW r \in Row, UpdatedNow(i, r)
    PROVE  DaysFilled'[i] = Span(r) /\ Days!Move(i, Span(r))
<1> DEFINE D == Span(r)
           v == rows[i]
<1>1. v \in Row /\ r.user = v.user /\ v # None
  BY RowOrNone DEF UpdatedNow
<1>2. D \in Days!Periods
  BY SpanIsPeriod
<1>3. DaysFilled = [k \in Id |-> Span(rows[k])]
  BY FilledIsSpan
<1>4. Days!Taken(D, i) = {}
  BY TakenOverlap DEF UpdatedNow
<1>5. rows'[i] = r /\ \A k \in Id \ {i} : rows'[k] = rows[k]
  BY DEF UpdatedNow, TypeOK
<1>6. DaysFilled' = [DaysFilled EXCEPT ![i] = D]
  BY <1>5, FilledExceptOne
<1>7. DaysFilled[i] = Span(v) /\ Span(v) # {}
  BY <1>1, <1>3, NoneFillsNothing
<1>8. Span(v) \cup D \subseteq {r.user} \X (1 .. LastDay + 1) /\ r.user \in User
  BY <1>1, RowFields, SchedulesAssumption DEF Span
<1>9. DaysFilled'[i] = D
  BY <1>3, <1>6
<1> HIDE DEF D, v
<1>10. Days!Move(i, D)
  BY <1>2, <1>4, <1>6, <1>7, <1>8 DEF Days!Move
<1> QED BY <1>9, <1>10 DEF D

LEMMA RemovedLeaves ==
    ASSUME TypeOK, NEW i \in Id, RemovedNow(i)
    PROVE  DaysFilled'[i] = {} /\ Days!Leave(i)
<1>1. rows'[i] = None /\ \A k \in Id \ {i} : rows'[k] = rows[k]
  BY DEF RemovedNow, TypeOK
<1>2. DaysFilled' = [DaysFilled EXCEPT ![i] = Span(None)]
  BY <1>1, FilledExceptOne
<1>3. Span(None) = {} /\ DaysFilled = [k \in Id |-> Span(rows[k])]
  BY NoneFillsNothing, FilledIsSpan
<1> QED BY <1>2, <1>3 DEF Days!Leave

\* A serial step is a step of the calendar, or fills the days as before.
LEMMA StepOnCalendar ==
    ASSUME Inv, AllAllowed, [Next]_vars
    PROVE  [Days!Next]_DaysFilled
<1> SUFFICES ASSUME DaysFilled' # DaysFilled PROVE Days!Next
  OBVIOUS
<1>1. rows' # rows
  BY FilledIsSpan
<1>2. TypeOK /\ TypeOK'
  <2>1. Inv'
    BY NextInv
  <2> QED BY <2>1 DEF Inv
<1>3. PICK i \in Id :
        \/ rows'[i] # None /\ (CreatedNow(i, rows'[i]) \/ UpdatedNow(i, rows'[i]))
        \/ RemovedNow(i)
  BY <1>1, WrittenByCommit, CommitSerial
<1> SUFFICES /\ DaysFilled'[i] # DaysFilled[i]
             /\ \/ Days!Enter(i, DaysFilled'[i]) \/ Days!Replace(i, DaysFilled'[i])
                \/ Days!Move(i, DaysFilled'[i]) \/ Days!Leave(i)
  BY DEF Days!Next
<1>4. CASE rows'[i] # None /\ CreatedNow(i, rows'[i])
  <2>1. rows'[i] \in Row
    BY <1>2, <1>4 DEF TypeOK
  <2> QED BY <1>2, <1>4, <2>1, CreatedEnters
<1>5. CASE rows'[i] # None /\ UpdatedNow(i, rows'[i])
  <2>1. rows'[i] \in Row
    BY <1>2, <1>5 DEF TypeOK
  <2>2. DaysFilled'[i] = Span(rows'[i]) /\ Days!Move(i, Span(rows'[i]))
    BY <1>2, <1>5, <2>1, UpdatedMoves
  <2>3. DaysFilled'[i] # DaysFilled[i]
    <3>1. DaysFilled' = [DaysFilled EXCEPT ![i] = Span(rows'[i])]
      BY <2>2 DEF Days!Move
    <3> QED BY <2>2, <3>1, FilledIsSpan
  <2> QED BY <2>2, <2>3
<1>6. CASE RemovedNow(i)
  <2>1. DaysFilled'[i] = {} /\ Days!Leave(i)
    BY <1>2, <1>6, RemovedLeaves
  <2>2. DaysFilled'[i] # DaysFilled[i]
    <3>1. DaysFilled' = [DaysFilled EXCEPT ![i] = {}]
      BY <2>1 DEF Days!Leave
    <3> QED BY <2>1, <3>1, FilledIsSpan
  <2> QED BY <2>1, <2>2
<1> QED BY <1>3, <1>4, <1>5, <1>6

LEMMA StartsOnCalendar == Init => Days!Init
BY NoneFillsNothing, FilledIsSpan DEF Init, Days!Init

\* The service implements the calendar: two transactions that run at once never give
\* one day to two schedules of a user, nor does one take a day from another's, but
\* for the end that closePrevious gives up.
THEOREM ServiceFollowsCalendar == Spec => FollowsCalendar
<1>1. Init => Days!Init
  BY StartsOnCalendar
<1>2. Inv /\ AllAllowed /\ [Next]_vars => [Days!Next]_DaysFilled
  BY StepOnCalendar
<1> QED BY <1>1, <1>2, InvAlways, AllowedAlways, PTL DEF Spec, FollowsCalendar, Days!Spec

-----------------------------------------------------------------------------
(* The weekdays of a period.                                                 *)

LEMMA DivMod ==
    ASSUME NEW x \in Int, NEW w \in Nat \ {0}
    PROVE  /\ x % w \in 0 .. w - 1 /\ x \div w \in Int
           /\ x = w * (x \div w) + (x % w)
OBVIOUS

LEMMA ModUnique ==
    ASSUME NEW w \in Nat \ {0}, NEW q \in Int, NEW r \in 0 .. w - 1
    PROVE  (w * q + r) % w = r
OBVIOUS

\* A day has the weekday of one of the first days since a.
LEMMA SameWeekday ==
    ASSUME NEW w \in Nat \ {0}, NEW a \in Nat, NEW d \in Nat, a <= d
    PROVE  \E e \in Nat : a <= e /\ e <= d /\ e < a + w /\ e % w = d % w
<1>1. PICK x \in Nat : x = d - a
  OBVIOUS
<1>2. PICK k \in Int, r \in 0 .. w - 1 : x = w * k + r
  <2>1. x % w \in 0 .. w - 1 /\ x \div w \in Int /\ x = w * (x \div w) + (x % w)
    BY DivMod
  <2> QED BY <2>1
<1>3. w * k >= 0
  <2>1. ASSUME k <= -1 PROVE FALSE
    <3>1. w * k <= -w
      BY <2>1
    <3> QED BY <1>2, <3>1
  <2> QED BY <2>1
<1>4. PICK e \in Nat : e = a + r
  BY <1>2
<1>5. a <= e /\ e < a + w /\ e <= d
  BY <1>1, <1>2, <1>3, <1>4
<1>6. PICK j \in Int, s \in 0 .. w - 1 : e = w * j + s /\ s = e % w
  BY DivMod
<1>7. d = w * (j + k) + s
  <2>1. w * (j + k) = w * j + w * k
    OBVIOUS
  <2> QED BY <1>1, <1>2, <1>4, <1>6, <2>1
<1>8. d % w = s
  BY <1>7, ModUnique
<1> QED BY <1>5, <1>6, <1>8

\* Looking at one week of the period is enough: weekdaysInRange may stop after seven
\* days and still finds every weekday of the period.
THEOREM WeekIsEnough ==
    ASSUME NEW from \in Date, NEW to \in Date
    PROVE  WeekdaysInRange(from, to) = {WeekdayOf(d) : d \in from .. to}
<1>1. from \in Nat /\ to \in Nat /\ Week \in Nat \ {0}
  BY SchedulesAssumption DEF Date
<1>2. ASSUME NEW d \in from .. to
      PROVE  WeekdayOf(d) \in WeekdaysInRange(from, to)
  <2>1. d \in Nat /\ from <= d /\ d <= to
    BY <1>1
  <2>2. PICK e \in Nat : from <= e /\ e <= d /\ e < from + Week /\ e % Week = d % Week
    BY <1>1, <2>1, SameWeekday
  <2>3. e \in from .. to /\ e < from + Week
    BY <1>1, <2>1, <2>2
  <2> QED BY <2>2, <2>3 DEF WeekdaysInRange, WeekdayOf
<1> QED BY <1>2 DEF WeekdaysInRange

\* No block of a schedule with an end is idle: its weekday, or its date, comes in the
\* period (assertDaysWithinWindow).
THEOREM EveryBlockHasADay ==
    ASSUME NEW r \in Row, Allowed(r), r.to # None, NEW b \in r.days
    PROVE  \E d \in r.from .. r.to : b = IF r.type = "fixed" THEN WeekdayOf(d) ELSE d
<1>1. r.from \in Date /\ r.to \in Date /\ r.type \in {"fixed", "variable"}
  BY RowFields DEF Date
<1>2. CASE r.type = "fixed"
  <2>1. b \in WeekdaysInRange(r.from, r.to)
    BY <1>2 DEF Allowed, DaysWithin
  <2>2. b \in {WeekdayOf(d) : d \in r.from .. r.to}
    BY <1>1, <2>1, WeekIsEnough
  <2> QED BY <1>2, <2>2
<1>3. CASE r.type = "variable"
  BY <1>3 DEF Allowed, DaysWithin
<1> QED BY <1>1, <1>2, <1>3

LEMMA CalendarStep == Days!OneScheduleADay /\ [Days!Next]_DaysFilled => Days!OneScheduleADay'
<1> SUFFICES ASSUME Days!OneScheduleADay, [Days!Next]_DaysFilled PROVE Days!OneScheduleADay'
  OBVIOUS
<1> DEFINE F == DaysFilled
           G == DaysFilled'
<1>1. /\ F = [k \in Id |-> F[k]] /\ G = [k \in Id |-> G[k]]
      /\ \A j, k \in Id : j # k => F[j] \cap F[k] = {}
  BY DEF DaysFilled, Days!OneScheduleADay
<1>2. CASE G = F
  BY <1>2 DEF Days!OneScheduleADay
<1>3. ASSUME NEW i \in Id, NEW D, Days!Enter(i, D) \/ Days!Move(i, D)
      PROVE  \A j, k \in Id : j # k => G[j] \cap G[k] = {}
  <2>1. /\ G = [F EXCEPT ![i] = D]
        /\ \A k \in Id \ {i} : F[k] \cap D = {}
    BY <1>3 DEF Days!Enter, Days!Move, Days!Taken
  <2> HIDE DEF F, G
  <2> QED BY <1>1, <2>1
<1>4. ASSUME NEW i \in Id, NEW D, Days!Replace(i, D)
      PROVE  \A j, k \in Id : j # k => G[j] \cap G[k] = {}
  <2>1. PICK l \in Id : /\ Days!Taken(D, i) = {l}
                        /\ G = [F EXCEPT ![i] = D, ![l] = F[l] \ D]
    BY <1>4 DEF Days!Replace
  <2>2. l # i /\ \A k \in Id : k # i /\ k # l => F[k] \cap D = {}
    BY <2>1 DEF Days!Taken
  <2> HIDE DEF F, G
  <2>3. /\ G[i] = D /\ G[l] = F[l] \ D
        /\ \A k \in Id : k # i /\ k # l => G[k] = F[k]
    BY <1>1, <2>1, <2>2
  <2> QED BY <1>1, <2>2, <2>3
<1>5. ASSUME NEW i \in Id, Days!Leave(i)
      PROVE  \A j, k \in Id : j # k => G[j] \cap G[k] = {}
  <2>1. G = [F EXCEPT ![i] = {}]
    BY <1>5 DEF Days!Leave
  <2> HIDE DEF F, G
  <2> QED BY <1>1, <2>1
<1>6. CASE Days!Next
  <2>1. \A j, k \in Id : j # k => G[j] \cap G[k] = {}
    BY <1>3, <1>4, <1>5, <1>6 DEF Days!Next
  <2> QED BY <2>1 DEF Days!OneScheduleADay
<1> QED BY <1>2, <1>6

\* The calendar alone already keeps every day of a user to one schedule: what the
\* service promises as a whole, whatever the rules and the rows look like.
THEOREM CalendarKeepsDaysApart == FollowsCalendar => []Days!OneScheduleADay
<1>1. Days!Init => Days!OneScheduleADay
  BY DEF Days!Init, Days!OneScheduleADay
<1> QED BY <1>1, CalendarStep, PTL DEF FollowsCalendar, Days!Spec

=============================================================================
