------------------------------- MODULE Calendar -------------------------------
(***************************************************************************)
(* What the schedules promise about the days of the users: a schedule      *)
(* fills a period of its user's days; no step gives it a day of another    *)
(* schedule, but that a new one may take the end of one that began before, *)
(* which keeps its beginning.                                              *)
(***************************************************************************)
EXTENDS Integers

CONSTANTS
    User, Id,
    Day    \* numbers; the last of them stands for all days from then on

VARIABLE days   \* days[i]: the days schedule i fills, as pairs of a user and a day

Period(u, a, b) == {u} \X {d \in Day : a <= d /\ d <= b}
Periods == {Period(u, a, b) : u \in User, a \in Day, b \in Day} \ {{}}

Init == days = [i \in Id |-> {}]

Taken(D, i) == {j \in Id \ {i} : days[j] \cap D # {}}

\* Schedule i appears and fills D, whose days are free ...
Enter(i, D) ==
    /\ days[i] = {} /\ D \in Periods
    /\ Taken(D, i) = {}
    /\ days' = [days EXCEPT ![i] = D]

\* ... or the last ones of schedule j.
Replace(i, D) ==
    /\ days[i] = {} /\ D \in Periods
    /\ \E j \in Id :
        /\ Taken(D, i) = {j}
        /\ days[j] \ D \in Periods
        /\ \A x \in days[j] \ D, y \in D : x[2] < y[2]
        /\ days' = [days EXCEPT ![i] = D, ![j] = days[j] \ D]

\* Schedule i moves, for the same user, to days that are free or its own.
Move(i, D) ==
    /\ D \in Periods
    /\ \E u \in User : days[i] \cup D \subseteq {u} \X Day /\ days[i] # {}
    /\ Taken(D, i) = {}
    /\ days' = [days EXCEPT ![i] = D]

Leave(i) == days' = [days EXCEPT ![i] = {}]

\* D: what schedule i fills afterwards.
Next == \E i \in Id :
    /\ days'[i] # days[i]
    /\ \E D \in {days'[i]} : Enter(i, D) \/ Replace(i, D) \/ Move(i, D) \/ Leave(i)

Spec == Init /\ [][Next]_days

\* What follows: no day of a user has two schedules.
OneScheduleADay == \A i, j \in Id : i # j => days[i] \cap days[j] = {}
=============================================================================
