------------------------------ MODULE Schedules ------------------------------
(***************************************************************************)
(* SchedulesService: the work schedules of the users and the log of their  *)
(* revisions.  Every write is a transaction that locks the user's row,     *)
(* reads, decides, writes and commits; several run at once.  A calendar    *)
(* date is a number; the hours of a block are left out, so that the blocks *)
(* of a schedule are a set of weekdays (fixed) or of dates (variable).     *)
(***************************************************************************)
EXTENDS Integers, Sequences

CONSTANTS
    User, Id, Notes,
    Proc,         \* requests the server works on at once
    LastDay,      \* the dates are 1 .. LastDay
    Week,         \* days of a week
    MaxVariable,  \* MAX_VARIABLE_DAYS
    MaxTransactions,  \* bound: transactions begun
    None

VARIABLES
    rows,     \* employee_schedules with its days: rows[i] is a row or None
    history,  \* employee_schedule_revisions, in the order they are committed
    tx,       \* tx[p]: the transaction p is in
    now       \* the clock of the database: transactions begun

vars == <<rows, history, tx, now>>

Date == 1 .. LastDay
Weekday == 0 .. Week - 1
WeekdayOf(d) == d % Week
DaysOf(type) == IF type = "fixed" THEN SUBSET Weekday ELSE SUBSET Date

Row == {r \in [user: User, type: {"fixed", "variable"},
               from: Date, to: Date \cup {None},  \* None: no end date
               days: SUBSET (Weekday \cup Date), notes: Notes] :
            r.to # None => r.from <= r.to}

ASSUME SchedulesAssumption ==
    /\ LastDay \in Nat \ {0} /\ Week \in Nat \ {0}
    /\ MaxVariable \in Nat \ {0} /\ MaxTransactions \in Nat
    /\ None \notin Int \cup Id \cup Row

Revision == [id: Id, user: User, row: Row, changedAt: Nat,
             action: {"created", "updated", "closed", "deleted"}]

\* What a transaction is about to write; closes is the schedule that a create
\* shortens so that it ends the day before row.from.
Plan == [id: Id, row: Row, closes: Id \cup {None},
         action: {"created", "updated", "closed", "deleted"}]

Transaction == [stage: {"begun", "locked", "decided"},
                user: User, began: Nat, plan: Plan \cup {None}]

TypeOK ==
    /\ rows \in [Id -> Row \cup {None}]
    /\ history \in Seq(Revision)
    /\ tx \in [Proc -> Transaction \cup {None}]
    /\ now \in 0 .. MaxTransactions

Init ==
    /\ rows = [i \in Id |-> None]
    /\ history = <<>>
    /\ tx = [p \in Proc |-> None]
    /\ now = 0

-----------------------------------------------------------------------------
\* The rules of schedule-rules.ts.  A window has a from and a to.
Reaches(to, d) == to # None => d <= to
Touches(w, v) == Reaches(v.to, w.from) /\ Reaches(w.to, v.from)

EndsNoLaterThan(a, b) == b # None => a # None /\ a <= b

\* resolveWindow accepts.
WindowAllowed(type, from, to) ==
    IF to = None
    THEN type = "fixed"
    ELSE /\ from <= to
         /\ type = "variable" => to - from + 1 <= MaxVariable

WeekdaysInRange(from, to) ==
    {WeekdayOf(d) : d \in {e \in from .. to : e < from + Week}}

\* assertDaysWithinWindow accepts.
DaysWithin(r) ==
    r.to # None =>
        r.days \subseteq IF r.type = "fixed" THEN WeekdaysInRange(r.from, r.to)
                         ELSE r.from .. r.to

Allowed(r) ==
    /\ WindowAllowed(r.type, r.from, r.to)
    /\ r.days \in DaysOf(r.type) \ {{}}
    /\ DaysWithin(r)

\* findOverlapping: the schedules of r's user that touch r's window.
Overlapping(r) == {i \in Id : rows[i] # None /\ rows[i].user = r.user /\ Touches(r, rows[i])}

\* Mutants: close a schedule that goes on after the new one; one that starts on
\* the same day.
ClosableAnyEnd(i, r) ==
    r.type = "fixed" /\ rows[i].type = "fixed" /\ rows[i].from < r.from
ClosableSameDay(i, r) ==
    /\ r.type = "fixed" /\ rows[i].type = "fixed"
    /\ rows[i].from <= r.from /\ EndsNoLaterThan(rows[i].to, r.to)

\* pickClosablePrevious: may schedule i be shortened to make room for r?
Closable(i, r) ==
    /\ r.type = "fixed" /\ rows[i].type = "fixed"
    /\ rows[i].from < r.from
    /\ EndsNoLaterThan(rows[i].to, r.to)

-----------------------------------------------------------------------------
At(p, stage) == tx[p] # None /\ tx[p].stage = stage
Holds(p) == At(p, "locked") \/ At(p, "decided")

Begin(p, u) ==
    /\ tx[p] = None
    /\ now < MaxTransactions
    /\ now' = now + 1
    /\ tx' = [tx EXCEPT ![p] = [stage |-> "begun", user |-> u, began |-> now + 1, plan |-> None]]
    /\ UNCHANGED <<rows, history>>

\* Mutant: a lock that others share.
LockShared(p) ==
    /\ At(p, "begun")
    /\ tx' = [tx EXCEPT ![p].stage = "locked"]
    /\ UNCHANGED <<rows, history, now>>

\* lockUser: SELECT ... FOR UPDATE on the row of the user.
Lock(p) ==
    /\ At(p, "begun")
    /\ \A q \in Proc : Holds(q) => tx[q].user # tx[p].user
    /\ tx' = [tx EXCEPT ![p].stage = "locked"]
    /\ UNCHANGED <<rows, history, now>>

Decide(p, plan) ==
    /\ tx' = [tx EXCEPT ![p].stage = "decided", ![p].plan = plan]
    /\ UNCHANGED <<rows, history, now>>

\* The uuid of a new row: nobody has it, had it or is about to get it.
Fresh(i) ==
    /\ rows[i] = None
    /\ \A k \in 1 .. Len(history) : history[k].id # i
    /\ \A q \in Proc : At(q, "decided") => tx[q].plan.id # i

\* create: r fits beside the other schedules ...
CreateBeside(p, i, r) ==
    /\ Overlapping(r) = {}
    /\ Decide(p, [id |-> i, row |-> r, closes |-> None, action |-> "created"])

\* ... or replaces one of them, with closePrevious.
CreateClosing(p, i, r, j) ==
    /\ Overlapping(r) = {j}
    /\ Closable(j, r)
    /\ Decide(p, [id |-> i, row |-> r, closes |-> j, action |-> "created"])

Create(p) ==
    /\ At(p, "locked")
    /\ \E i \in Id, r \in Row :
        /\ Fresh(i)
        /\ r.user = tx[p].user
        /\ Allowed(r)
        /\ \/ CreateBeside(p, i, r)
           \/ \E j \in Id : CreateClosing(p, i, r, j)

\* Mutant: the days are checked only when they change.
UpdateAllowedLax(r, s) ==
    WindowAllowed(s.type, s.from, s.to) /\ (s.days # r.days => Allowed(s))

\* update accepts s in place of r.
UpdateAllowed(r, s) == Allowed(s)

OnlyShortened(r, s) ==
    /\ s.to # None /\ s = [r EXCEPT !.to = s.to]
    /\ r.to # None => s.to < r.to

\* loadSchedule: schedule i is one of the user's.
Mine(p, i) == rows[i] # None /\ rows[i].user = tx[p].user

\* update: schedule i becomes s.
Update(p) ==
    /\ At(p, "locked")
    /\ \E i \in Id, s \in Row :
        /\ Mine(p, i)
        /\ s.user = rows[i].user /\ s.type = rows[i].type
        /\ s # rows[i]
        /\ UpdateAllowed(rows[i], s)
        /\ (s.from # rows[i].from \/ s.to # rows[i].to) => Overlapping(s) \subseteq {i}
        /\ Decide(p, [id |-> i, row |-> s, closes |-> None,
                      action |-> IF OnlyShortened(rows[i], s) THEN "closed" ELSE "updated"])

Remove(p) ==
    /\ At(p, "locked")
    /\ \E i \in Id :
        /\ Mine(p, i)
        /\ Decide(p, [id |-> i, row |-> rows[i], closes |-> None, action |-> "deleted"])

Closed(r, w) == [r EXCEPT !.to = w.from - 1]

Written(plan) ==
    [i \in Id |->
        IF i = plan.id THEN (IF plan.action = "deleted" THEN None ELSE plan.row)
        ELSE IF i = plan.closes THEN Closed(rows[i], plan.row)
        ELSE rows[i]]

\* recordRevision: changed_at defaults to now(), when the transaction began.
RevisionOf(t, i, r, action) ==
    [id |-> i, user |-> t.user, row |-> r, changedAt |-> t.began, action |-> action]

\* Mutant: no revision of the schedule that is closed.
RevisionsOfNew(t) == <<RevisionOf(t, t.plan.id, t.plan.row, t.plan.action)>>

Revisions(t) ==
    LET last == RevisionOf(t, t.plan.id, t.plan.row, t.plan.action)
        shut == t.plan.closes
    IN  IF shut = None THEN <<last>>
        ELSE <<RevisionOf(t, shut, Closed(rows[shut], t.plan.row), "closed"), last>>

\* The writes of the transaction, and its commit, which frees the lock.
Commit(p) ==
    /\ At(p, "decided")
    /\ rows' = Written(tx[p].plan)
    /\ history' = history \o Revisions(tx[p])
    /\ tx' = [tx EXCEPT ![p] = None]
    /\ UNCHANGED now

\* A refusal (400, 404, 409), an update that changes nothing, a lost connection.
Rollback(p) ==
    /\ tx[p] # None
    /\ tx' = [tx EXCEPT ![p] = None]
    /\ UNCHANGED <<rows, history, now>>

Next == \E p \in Proc :
    \/ \E u \in User : Begin(p, u)
    \/ Lock(p)
    \/ Create(p)
    \/ Update(p)
    \/ Remove(p)
    \/ Commit(p)
    \/ Rollback(p)

Spec == Init /\ [][Next]_vars

-----------------------------------------------------------------------------
(* Correctness *)

\* Two schedules of one user never overlap, whoever writes at the same time
\* (employee-schedule.entity.ts: "Dos horarios de un mismo usuario nunca se
\* traslapan en el tiempo").
NoOverlap ==
    \A i, j \in Id :
        i # j /\ rows[i] # None /\ rows[j] # None /\ rows[i].user = rows[j].user
            => ~Touches(rows[i], rows[j])

\* The dates of a variable schedule lie in its period, after any sequence of
\* edits of its days and of its window.
DatesInWindow ==
    \A i \in Id : rows[i] # None /\ rows[i].type = "variable"
        => rows[i].days \subseteq rows[i].from .. rows[i].to

Covers(R, u, d) ==
    \E i \in Id : R[i] # None /\ R[i].user = u /\ R[i].from <= d /\ Reaches(R[i].to, d)

\* Creating a schedule, with or without closing the previous one, leaves no day
\* without a schedule that had one (pickClosablePrevious); LastDay + 1 stands
\* for all the days after the last.
CoverageKept ==
    [][(\E i \in Id : rows[i] = None /\ rows'[i] # None)
        => \A u \in User, d \in 1 .. LastDay + 1 : Covers(rows, u, d) => Covers(rows', u, d)]_vars

\* The log explains the table: the last revision committed of a schedule holds
\* the schedule as it is, or says that it was deleted.
HistoryIsCurrent ==
    \A i \in Id :
        LET K == {k \in 1 .. Len(history) : history[k].id = i}
        IN  IF K = {} THEN rows[i] = None
            ELSE LET last == history[CHOOSE k \in K : \A l \in K : l <= k]
                 IN  rows[i] = IF last.action = "deleted" THEN None ELSE last.row

\* What a transaction decided still holds when it commits: the request, all by
\* itself, could write just that into the table as it is then, though it read
\* the rows before and others have committed since.
CreatedNow(i, r) ==
    /\ rows[i] = None /\ Allowed(r)
    /\ \/ Overlapping(r) = {} /\ rows' = [rows EXCEPT ![i] = r]
       \/ \E j \in Id :
            /\ Overlapping(r) = {j} /\ Closable(j, r)
            /\ rows' = [rows EXCEPT ![i] = r, ![j] = Closed(rows[j], r)]
UpdatedNow(i, r) ==
    /\ rows[i] # None /\ r.user = rows[i].user /\ r.type = rows[i].type
    /\ Allowed(r) /\ Overlapping(r) \subseteq {i}
    /\ rows' = [rows EXCEPT ![i] = r]
RemovedNow(i) == rows[i] # None /\ rows' = [rows EXCEPT ![i] = None]
Serializable ==
    [][\E i \in Id :
        \/ rows'[i] # None /\ (CreatedNow(i, rows'[i]) \/ UpdatedNow(i, rows'[i]))
        \/ RemovedNow(i)]_rows

\* The days schedule i fills; LastDay + 1 stands for all the days after the last.
Filled(i) ==
    IF rows[i] = None THEN {}
    ELSE {rows[i].user} \X {d \in 1 .. LastDay + 1 :
                               rows[i].from <= d /\ Reaches(rows[i].to, d)}

DaysFilled == [i \in Id |-> Filled(i)]

Days == INSTANCE Calendar WITH Day <- 1 .. LastDay + 1, days <- DaysFilled

\* Whatever is written at the same time, each commit changes the days of one
\* schedule; no other loses any of its days to it, unless it is new and takes the
\* end of the previous one, which keeps its beginning.
FollowsCalendar == Days!Spec
=============================================================================
