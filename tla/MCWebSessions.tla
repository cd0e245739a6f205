---- MODULE MCWebSessions ----
EXTENDS WebSessions, TLC

\* A row with everything left out that the bodies below do not set.
Blank == [email |-> None, userName |-> None, employee_number |-> None,
          external_employee_number |-> None, activity_linked |-> FALSE,
          dev_activity_bot |-> FALSE, devtools_enabled |-> FALSE, password |-> "old",
          roles |-> {"customer"}, isActive |-> TRUE, refreshTokenHash |-> FALSE,
          fullName |-> FALSE]

\* Nobody; an account of before the numbers, alone or next to one that has all.
Old == [Blank EXCEPT !.fullName = TRUE]
Full == [Old EXCEPT !.employee_number = "n1", !.external_employee_number = "x1"]
Start == {[u \in User |-> None]} \cup {[u \in User |-> IF u = v THEN Old ELSE None] : v \in User}
            \cup {[u \in User |-> IF u = v THEN Old ELSE Full] : v \in User}

First == [password |-> "old", roles |-> {"super_admin"}, fullName |-> TRUE]

New == {[password |-> "old", email |-> "a", userName |-> "b",
         external_employee_number |-> "x1", dev_activity_bot |-> TRUE]}

Edits == {[email |-> "a", userName |-> "b", external_employee_number |-> "x1",
           dev_activity_bot |-> TRUE],
          [isActive |-> FALSE, dev_activity_bot |-> FALSE, employee_number |-> None],
          [employee_number |-> "n2"]}

Symmetry == Permutations(User) \cup Permutations(Request)
====
