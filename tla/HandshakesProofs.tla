-------------------------- MODULE HandshakesProofs --------------------------
(***************************************************************************)
(* Proofs about Handshakes, for any number of captures and of requests in  *)
(* flight, and any length of the window.  One inductive invariant (Inv)    *)
(* says what a handler holds at each stage, that a timer never ends before *)
(* the window, and that no pending row is without a watcher.               *)
(***************************************************************************)
EXTENDS Handshakes, TLAPS

-----------------------------------------------------------------------------
(* The invariant.                                                           *)

\* A handler at work has a capture with a row; only what finish() writes is an
\* answer, and only the callback of a timer marks, and marks its own capture.
Stages ==
    /\ \A w \in Worker : proc[w].at # "idle" =>
            proc[w].capture \in Capture /\ row[proc[w].capture] # None
    /\ \A w \in Worker : proc[w].at = "finish" => proc[w].status \in Resolved
    /\ \A p \in Proc : proc[p].at # "mark"
    /\ \A c \in Capture : proc[c].at = "mark" => proc[c].capture = c

\* What a timer has left and the age of its row make up the window.
Windows ==
    \A c \in Capture :
        /\ left[c] # None => age[c] + left[c] >= Timeout
        /\ proc[c].at = "mark" => age[c] >= Timeout

\* A timer runs for a row that exists.
Timed == \A c \in Capture : left[c] # None => row[c] # None

Inv ==
    /\ TypeOK
    /\ Stages
    /\ Windows
    /\ Timed
    /\ ErrorMatchesStatus
    /\ PendingIsWatched

LEMMA Numbers ==
    /\ Timeout \in Nat /\ Timeout > 0 /\ Margin \in Nat
    /\ None \notin Nat /\ None \notin 0 .. Timeout /\ None \notin Capture /\ None \notin Row
    /\ Capture \cap Proc = {} /\ Oldest \in Nat /\ Oldest > Timeout
BY HandshakesAssumption DEF Oldest

LEMMA Rows ==
    /\ NewRow \in Row /\ TimedOut \in Row
    /\ NewRow.status = "pending" /\ TimedOut.status = "timeout"
    /\ \A r \in Row, status \in Resolved :
            Answered(r, status) \in Row /\ Answered(r, status).status = status
    /\ Idle \in Handler /\ Idle.at = "idle"
BY DEF NewRow, TimedOut, Row, Status, Answered, Resolved, Handler, Idle

\* What each variable is.
LEMMA Typed ==
    ASSUME Inv
    PROVE  /\ row \in [Capture -> Row \cup {None}]
           /\ age \in [Capture -> 0 .. Oldest]
           /\ left \in [Capture -> 0 .. Timeout \cup {None}]
           /\ proc \in [Worker -> Handler]
           /\ \A c \in Capture : c \in Worker
           /\ \A p \in Proc : p \in Worker /\ p \notin Capture
BY Numbers DEF Inv, TypeOK, Worker

LEMMA InitInv == Init => Inv
<1> SUFFICES ASSUME Init PROVE Inv
  OBVIOUS
<1>1. \A w \in Worker : proc[w] = Idle
  BY DEF Init
<1>2. \A w \in Worker : proc[w].at = "idle"
  BY <1>1, Rows
<1>3. TypeOK
  <2>1. 0 \in 0 .. Oldest
    BY Numbers
  <2>2. age \in [Capture -> 0 .. Oldest]
    BY <2>1 DEF Init
  <2>3. proc \in [Worker -> Handler]
    BY Rows DEF Init
  <2> HIDE DEF Oldest
  <2> QED BY <2>2, <2>3 DEF Init, TypeOK
<1>4. Stages /\ Windows /\ Timed
  BY <1>2 DEF Init, Stages, Windows, Timed, Worker
<1>5. ErrorMatchesStatus /\ PendingIsWatched
  BY DEF Init, ErrorMatchesStatus, PendingIsWatched, Is
<1> QED BY <1>3, <1>4, <1>5 DEF Inv

-----------------------------------------------------------------------------
(* Handlers.                                                                *)

\* A worker that neither starts nor ends a watch takes a step of its own.
LEMMA QuietKeepsInv ==
    ASSUME Inv, NEW w \in Worker, NEW h \in Handler, Become(w, h),
           proc[w].at \notin {"send", "mark"}, h.at # "mark",
           h.at # "idle" => h.capture \in Capture /\ row[h.capture] # None,
           h.at = "finish" => h.status \in Resolved,
           UNCHANGED <<row, age, left, told, up, spoilt>>
    PROVE  Inv'
<1>1. proc'[w] = h /\ \A v \in Worker \ {w} : proc'[v] = proc[v]
  BY Typed DEF Become
<1>2. TypeOK'
  BY Typed DEF Inv, TypeOK, Become
<1>3. Stages'
  BY <1>1, Typed DEF Inv, Stages
<1>4. Windows' /\ Timed'
  BY <1>1, Typed DEF Inv, Windows, Timed
<1>5. ErrorMatchesStatus'
  BY DEF Inv, ErrorMatchesStatus
<1>6. PendingIsWatched'
  <2> SUFFICES ASSUME up, ~spoilt, NEW c \in Capture, Is(c, "pending")
               PROVE  \/ left'[c] # None \/ proc'[c].at = "mark"
                      \/ \E p \in Proc : proc'[p].at = "send" /\ proc'[p].capture = c
    BY DEF PendingIsWatched, Is
  <2>1. \/ left[c] # None \/ proc[c].at = "mark"
        \/ \E p \in Proc : proc[p].at = "send" /\ proc[p].capture = c
    BY DEF Inv, PendingIsWatched
  <2> QED BY <1>1, <2>1, Typed
<1> QED BY <1>2, <1>3, <1>4, <1>5, <1>6 DEF Inv

LEMMA RequestKeepsInv ==
    ASSUME Inv, NEW p \in Proc, NEW c \in Capture, Request(p, c)
    PROVE  Inv'
<1> DEFINE h == At("send", c, None)
<1>1. /\ proc' = [proc EXCEPT ![p] = h]
      /\ row' = [row EXCEPT ![c] = NewRow] /\ row[c] = None
      /\ UNCHANGED <<age, left, told, up, spoilt>>
  BY DEF Request, Become
<1>2. h.at = "send" /\ h.capture = c /\ h \in Handler
  BY DEF At, Handler
<1> HIDE DEF h
<1>3. proc'[p] = h /\ \A w \in Worker \ {p} : proc'[w] = proc[w]
  BY <1>1, Typed
<1>4. row'[c] = NewRow /\ \A d \in Capture \ {c} : row'[d] = row[d]
  BY <1>1, Typed
<1>5. NewRow # None
  BY Rows, Numbers
<1>6. TypeOK'
  BY <1>1, <1>2, Rows, Typed DEF Inv, TypeOK
<1>7. Stages'
  BY <1>2, <1>3, <1>4, <1>5, Typed DEF Inv, Stages
<1>8. Windows' /\ Timed'
  BY <1>1, <1>3, <1>4, <1>5, Typed DEF Inv, Windows, Timed
<1>9. ErrorMatchesStatus'
  BY <1>4 DEF Inv, ErrorMatchesStatus, NewRow
<1>10. PendingIsWatched'
  <2> SUFFICES ASSUME up, ~spoilt, NEW d \in Capture, row'[d] # None,
                      row'[d].status = "pending"
               PROVE  \/ left'[d] # None \/ proc'[d].at = "mark"
                      \/ \E q \in Proc : proc'[q].at = "send" /\ proc'[q].capture = d
    BY <1>1 DEF PendingIsWatched, Is
  <2>1. CASE d = c
    BY <1>2, <1>3, <2>1
  <2>2. CASE d # c
    <3>1. \/ left[d] # None \/ proc[d].at = "mark"
          \/ \E q \in Proc : proc[q].at = "send" /\ proc[q].capture = d
      BY <1>4, <2>2 DEF Inv, PendingIsWatched, Is
    <3>2. proc[p].at = "idle"
      BY DEF Request
    <3> QED BY <1>1, <1>3, <3>1, <3>2, Typed
  <2> QED BY <2>1, <2>2
<1> QED BY <1>6, <1>7, <1>8, <1>9, <1>10 DEF Inv

LEMMA SendKeepsInv ==
    ASSUME Inv, NEW p \in Proc, Send(p)
    PROVE  Inv'
<1> DEFINE c == proc[p].capture
<1>1. /\ proc[p].at = "send"
      /\ told' = told \cup {c}
      /\ left' = [left EXCEPT ![c] = Timeout]
      /\ proc' = [proc EXCEPT ![p] = Idle]
      /\ UNCHANGED <<row, age, up, spoilt>>
  BY DEF Send, Become
<1>2. c \in Capture /\ row[c] # None
  BY <1>1, Typed DEF Inv, Stages
<1> HIDE DEF c
<1>3. proc'[p] = Idle /\ \A w \in Worker \ {p} : proc'[w] = proc[w]
  BY <1>1, Typed
<1>4. left'[c] = Timeout /\ \A d \in Capture \ {c} : left'[d] = left[d]
  BY <1>1, <1>2, Typed
<1>5. TypeOK'
  <2>1. Timeout \in 0 .. Timeout
    BY Numbers
  <2>2. left' \in [Capture -> 0 .. Timeout \cup {None}]
    BY <1>1, <2>1, Typed
  <2>3. proc' \in [Worker -> Handler]
    BY <1>1, Rows, Typed
  <2> QED BY <1>1, <1>2, <2>2, <2>3 DEF Inv, TypeOK
<1>6. Stages'
  BY <1>1, <1>3, Rows, Typed DEF Inv, Stages
<1>7. Windows'
  <2>1. age[c] \in Nat /\ Timeout \in Nat
    BY <1>2, Typed, Numbers
  <2>2. age[c] + Timeout >= Timeout
    BY <2>1
  <2> QED BY <1>1, <1>3, <1>4, <2>2, Typed DEF Inv, Windows
<1>8. Timed'
  BY <1>1, <1>2, <1>4 DEF Inv, Timed
<1>9. ErrorMatchesStatus'
  BY <1>1 DEF Inv, ErrorMatchesStatus
<1>10. PendingIsWatched'
  <2> SUFFICES ASSUME up, ~spoilt, NEW d \in Capture, row[d] # None,
                      row[d].status = "pending"
               PROVE  \/ left'[d] # None \/ proc'[d].at = "mark"
                      \/ \E q \in Proc : proc'[q].at = "send" /\ proc'[q].capture = d
    BY <1>1 DEF PendingIsWatched, Is
  <2>1. CASE d = c
    BY <1>4, <2>1, Numbers
  <2>2. CASE d # c
    <3>1. \/ left[d] # None \/ proc[d].at = "mark"
          \/ \E q \in Proc : proc[q].at = "send" /\ proc[q].capture = d
      BY DEF Inv, PendingIsWatched, Is
    <3> QED BY <1>3, <1>4, <2>2, <3>1, Typed DEF c
  <2> QED BY <2>1, <2>2
<1> QED BY <1>5, <1>6, <1>7, <1>8, <1>9, <1>10 DEF Inv

LEMMA AnswerLoadKeepsInv ==
    ASSUME Inv, NEW p \in Proc, NEW c \in Capture, NEW status \in Resolved,
           AnswerLoad(p, c, status)
    PROVE  Inv'
<1> DEFINE h == At("finish", c, status)
<1>1. h \in Handler /\ h.at = "finish" /\ h.capture = c /\ h.status = status
  BY DEF At, Handler, Resolved, Status
<1>2. /\ proc[p].at = "idle" /\ Become(p, h) /\ row[c] # None
      /\ UNCHANGED <<row, age, left, told, up, spoilt>>
  BY DEF AnswerLoad, Is
<1>3. p \in Worker
  BY <1>2, Typed
<1> HIDE DEF h
<1> QED BY <1>1, <1>2, <1>3, QuietKeepsInv

\* finish() clears the timer of a row that it closes, whoever else is at it.
LEMMA FinishKeepsInv ==
    ASSUME Inv, NEW p \in Proc, Finish(p) \/ FinishFails(p)
    PROVE  Inv'
<1> DEFINE c == proc[p].capture
           status == proc[p].status
<1>1. /\ proc[p].at = "finish"
      /\ left' = [left EXCEPT ![c] = None]
      /\ \/ /\ row' = [row EXCEPT ![c] = Answered(row[c], status)]
            /\ proc' = [proc EXCEPT ![p] = At("notify", c, None)]
            /\ spoilt' = spoilt
         \/ /\ row' = row
            /\ proc' = [proc EXCEPT ![p] = Idle]
            /\ spoilt' = TRUE
      /\ UNCHANGED <<age, told, up>>
  BY DEF Finish, FinishFails, Become
<1>2. c \in Capture /\ row[c] \in Row /\ row[c] # None /\ status \in Resolved
  BY <1>1, Typed DEF Inv, Stages
<1>3. At("notify", c, None) \in Handler /\ At("notify", c, None).at = "notify"
      /\ At("notify", c, None).capture = c
  BY <1>2 DEF At, Handler
<1>4. PICK h \in Handler : /\ proc' = [proc EXCEPT ![p] = h]
                           /\ h.at \in {"notify", "idle"}
                           /\ h.at # "idle" => h.capture = c
  BY <1>1, <1>3, Rows
<1>5. PICK r \in Row : /\ row' = [row EXCEPT ![c] = r]
                       /\ r.responded <=> r.status # "pending"
                       /\ r.error <=> r.status \in {"timeout", "failed"}
                       /\ spoilt' \/ r.status # "pending"
  <2>1. CASE row' = [row EXCEPT ![c] = Answered(row[c], status)]
    BY <1>2, <2>1, Rows DEF Answered, Resolved
  <2>2. CASE row' = row /\ spoilt' = TRUE
    <3>1. row' = [row EXCEPT ![c] = row[c]]
      BY <1>2, <2>2, Typed
    <3>2. /\ row[c].responded <=> row[c].status # "pending"
          /\ row[c].error <=> row[c].status \in {"timeout", "failed"}
      BY <1>2 DEF Inv, ErrorMatchesStatus
    <3> QED BY <1>2, <2>2, <3>1, <3>2
  <2> QED BY <1>1, <2>1, <2>2
<1> HIDE DEF c, status
<1>6. proc'[p] = h /\ \A w \in Worker \ {p} : proc'[w] = proc[w]
  BY <1>4, Typed
<1>7. row'[c] = r /\ r # None /\ \A d \in Capture \ {c} : row'[d] = row[d]
  BY <1>2, <1>5, Typed, Numbers
<1>8. left'[c] = None /\ \A d \in Capture \ {c} : left'[d] = left[d]
  BY <1>1, <1>2, Typed
<1>9. TypeOK'
  BY <1>1, <1>2, <1>4, <1>5, Typed DEF Inv, TypeOK
<1>10. Stages'
  BY <1>2, <1>4, <1>6, <1>7, Typed DEF Inv, Stages
<1>11. Windows' /\ Timed'
  BY <1>1, <1>6, <1>7, <1>8, Typed DEF Inv, Windows, Timed
<1>12. ErrorMatchesStatus'
  BY <1>5, <1>7 DEF Inv, ErrorMatchesStatus
<1>13. PendingIsWatched'
  <2> SUFFICES ASSUME up, ~spoilt', NEW d \in Capture, row'[d] # None,
                      row'[d].status = "pending"
               PROVE  \/ left'[d] # None \/ proc'[d].at = "mark"
                      \/ \E q \in Proc : proc'[q].at = "send" /\ proc'[q].capture = d
    BY <1>1 DEF PendingIsWatched, Is
  <2>1. d # c /\ ~spoilt /\ row'[d] = row[d]
    BY <1>1, <1>5, <1>7
  <2>2. \/ left[d] # None \/ proc[d].at = "mark"
        \/ \E q \in Proc : proc[q].at = "send" /\ proc[q].capture = d
    BY <2>1 DEF Inv, PendingIsWatched, Is
  <2> QED BY <1>1, <1>6, <1>8, <2>1, <2>2, Typed
<1> QED BY <1>9, <1>10, <1>11, <1>12, <1>13 DEF Inv

-----------------------------------------------------------------------------
(* Timers, queries, the process and the clock.                              *)

LEMMA FireTimerKeepsInv ==
    ASSUME Inv, NEW c \in Capture, FireTimer(c)
    PROVE  Inv'
<1> DEFINE h == At("mark", c, None)
<1>1. /\ left[c] = 0
      /\ left' = [left EXCEPT ![c] = None]
      /\ proc' = [proc EXCEPT ![c] = h]
      /\ UNCHANGED <<row, age, told, up, spoilt>>
  BY DEF FireTimer, Become
<1>2. h \in Handler /\ h.at = "mark" /\ h.capture = c
  BY DEF At, Handler
<1> HIDE DEF h
<1>3. proc'[c] = h /\ \A w \in Worker \ {c} : proc'[w] = proc[w]
  BY <1>1, Typed
<1>4. left'[c] = None /\ \A d \in Capture \ {c} : left'[d] = left[d]
  BY <1>1, Typed
<1>5. row[c] # None /\ age[c] >= Timeout
  <2>1. left[c] # None
    BY <1>1, Numbers
  <2>2. age[c] + left[c] >= Timeout /\ age[c] \in Nat /\ Timeout \in Nat
    BY <2>1, Typed, Numbers DEF Inv, Windows
  <2>3. row[c] # None
    BY <2>1 DEF Inv, Timed
  <2> QED BY <1>1, <2>2, <2>3
<1>6. TypeOK'
  BY <1>1, <1>2, Typed DEF Inv, TypeOK
<1>7. Stages'
  BY <1>1, <1>2, <1>3, <1>5, Typed DEF Inv, Stages
<1>8. Windows' /\ Timed'
  BY <1>1, <1>3, <1>4, <1>5, Typed DEF Inv, Windows, Timed
<1>9. ErrorMatchesStatus'
  BY <1>1 DEF Inv, ErrorMatchesStatus
<1>10. PendingIsWatched'
  <2> SUFFICES ASSUME up, ~spoilt, NEW d \in Capture, row[d] # None,
                      row[d].status = "pending"
               PROVE  \/ left'[d] # None \/ proc'[d].at = "mark"
                      \/ \E q \in Proc : proc'[q].at = "send" /\ proc'[q].capture = d
    BY <1>1 DEF PendingIsWatched, Is
  <2>1. \/ left[d] # None \/ proc[d].at = "mark"
        \/ \E q \in Proc : proc[q].at = "send" /\ proc[q].capture = d
    BY DEF Inv, PendingIsWatched, Is
  <2> QED BY <1>2, <1>3, <1>4, <2>1, Typed
<1> QED BY <1>6, <1>7, <1>8, <1>9, <1>10 DEF Inv

\* A row that is closed as timed out, as expireStale and markTimeout do it.
LEMMA TimedOutRows ==
    ASSUME Inv, NEW C \in SUBSET Capture, \A c \in C : Is(c, "pending"),
           row' = [c \in Capture |-> IF c \in C THEN TimedOut ELSE row[c]]
    PROVE  /\ row' \in [Capture -> Row \cup {None}]
           /\ ErrorMatchesStatus'
           /\ \A c \in Capture : row'[c] # None <=> row[c] # None
           /\ \A c \in Capture : row'[c] # None /\ row'[c].status = "pending"
                => row'[c] = row[c] /\ c \notin C
<1>1. \A c \in Capture : row'[c] = IF c \in C THEN TimedOut ELSE row[c]
  OBVIOUS
<1>2. row' \in [Capture -> Row \cup {None}]
  BY Rows, Typed
<1>3. ErrorMatchesStatus'
  <2> SUFFICES ASSUME NEW c \in Capture, row'[c] # None
               PROVE  /\ row'[c].responded <=> row'[c].status # "pending"
                      /\ row'[c].error <=> row'[c].status \in {"timeout", "failed"}
    BY DEF ErrorMatchesStatus
  <2>1. CASE c \in C
    BY <1>1, <2>1 DEF TimedOut
  <2>2. CASE c \notin C
    BY <1>1, <2>2 DEF Inv, ErrorMatchesStatus
  <2> QED BY <2>1, <2>2
<1>4. \A c \in Capture : row'[c] # None <=> row[c] # None
  BY <1>1, Rows, Numbers DEF Is
<1> QED BY <1>1, <1>2, <1>3, <1>4, Rows

LEMMA MarkTimeoutKeepsInv ==
    ASSUME Inv, NEW c \in Capture, MarkTimeout(c)
    PROVE  Inv'
<1> DEFINE C == IF Is(c, "pending") THEN {c} ELSE {}
<1>1. /\ proc[c].at = "mark" /\ UNCHANGED <<age, left, told, up, spoilt>>
      /\ \/ Is(c, "pending") /\ row' = [row EXCEPT ![c] = TimedOut]
         \/ ~Is(c, "pending") /\ row' = row
  BY DEF MarkTimeout
<1>2. PICK h \in Handler : /\ proc' = [proc EXCEPT ![c] = h]
                           /\ h.at \in {"notify", "idle"}
                           /\ h.at # "idle" => h.capture = c
  <2>1. At("notify", c, None) \in Handler /\ At("notify", c, None).at = "notify"
        /\ At("notify", c, None).capture = c
    BY DEF At, Handler
  <2> QED BY <2>1, Rows DEF MarkTimeout, Become
<1>3. row' = [d \in Capture |-> IF d \in C THEN TimedOut ELSE row[d]]
  BY <1>1, Typed
<1>4. proc'[c] = h /\ \A w \in Worker \ {c} : proc'[w] = proc[w]
  BY <1>2, Typed
<1>5. C \in SUBSET Capture /\ \A d \in C : Is(d, "pending")
  OBVIOUS
<1>6. c \in C \/ ~Is(c, "pending")
  OBVIOUS
<1> HIDE DEF C
<1>7. /\ row' \in [Capture -> Row \cup {None}] /\ ErrorMatchesStatus'
      /\ \A d \in Capture : row'[d] # None <=> row[d] # None
      /\ \A d \in Capture : row'[d] # None /\ row'[d].status = "pending"
                => row'[d] = row[d] /\ d \notin C
  BY <1>3, <1>5, TimedOutRows
<1>8. TypeOK'
  BY <1>1, <1>2, <1>7, Typed DEF Inv, TypeOK
<1>9. proc[c].capture = c /\ row[c] # None
  BY <1>1, Typed DEF Inv, Stages
<1>10. Stages'
  BY <1>2, <1>4, <1>7, <1>9, Typed DEF Inv, Stages
<1>11. Windows' /\ Timed'
  BY <1>1, <1>2, <1>4, <1>7, Typed DEF Inv, Windows, Timed
<1>12. PendingIsWatched'
  <2> SUFFICES ASSUME up, ~spoilt, NEW d \in Capture, row'[d] # None,
                      row'[d].status = "pending"
               PROVE  \/ left'[d] # None \/ proc'[d].at = "mark"
                      \/ \E q \in Proc : proc'[q].at = "send" /\ proc'[q].capture = d
    BY <1>1 DEF PendingIsWatched, Is
  <2>1. row'[d] = row[d] /\ d # c
    BY <1>6, <1>7 DEF Is
  <2>2. \/ left[d] # None \/ proc[d].at = "mark"
        \/ \E q \in Proc : proc[q].at = "send" /\ proc[q].capture = d
    BY <2>1 DEF Inv, PendingIsWatched, Is
  <2> QED BY <1>1, <1>4, <2>1, <2>2, Typed
<1> QED BY <1>7, <1>8, <1>10, <1>11, <1>12 DEF Inv

\* expireStale, as part of whatever step.
LEMMA ExpiredRows ==
    ASSUME Inv, row' = Expired
    PROVE  /\ row' \in [Capture -> Row \cup {None}]
           /\ ErrorMatchesStatus'
           /\ \A c \in Capture : row'[c] # None <=> row[c] # None
           /\ \A c \in Capture : row'[c] # None /\ row'[c].status = "pending"
                => row'[c] = row[c]
<1> DEFINE C == {c \in Capture : Is(c, "pending") /\ age[c] > Timeout + Margin}
<1>1. row' = [c \in Capture |-> IF c \in C THEN TimedOut ELSE row[c]]
  BY DEF Expired
<1>2. C \in SUBSET Capture /\ \A c \in C : Is(c, "pending")
  OBVIOUS
<1> HIDE DEF C
<1> QED BY <1>1, <1>2, TimedOutRows

LEMMA ListKeepsInv ==
    ASSUME Inv, List
    PROVE  Inv'
<1>1. row' = Expired /\ UNCHANGED <<age, left, told, proc, up, spoilt>>
  BY DEF List
<1>2. /\ row' \in [Capture -> Row \cup {None}] /\ ErrorMatchesStatus'
      /\ \A c \in Capture : row'[c] # None <=> row[c] # None
      /\ \A c \in Capture : row'[c] # None /\ row'[c].status = "pending"
                => row'[c] = row[c]
  BY <1>1, ExpiredRows
<1>3. TypeOK'
  BY <1>1, <1>2 DEF Inv, TypeOK
<1>4. Stages' /\ Windows' /\ Timed'
  BY <1>1, <1>2 DEF Inv, Stages, Windows, Timed
<1>5. PendingIsWatched'
  <2> SUFFICES ASSUME up, ~spoilt, NEW d \in Capture, row'[d] # None,
                      row'[d].status = "pending"
               PROVE  \/ left'[d] # None \/ proc'[d].at = "mark"
                      \/ \E q \in Proc : proc'[q].at = "send" /\ proc'[q].capture = d
    BY <1>1 DEF PendingIsWatched, Is
  <2>1. row'[d] = row[d]
    BY <1>2
  <2>2. \/ left[d] # None \/ proc[d].at = "mark"
        \/ \E q \in Proc : proc[q].at = "send" /\ proc[q].capture = d
    BY <2>1 DEF Inv, PendingIsWatched, Is
  <2> QED BY <1>1, <2>2
<1> QED BY <1>2, <1>3, <1>4, <1>5 DEF Inv

LEMMA NotifyKeepsInv ==
    ASSUME Inv, NEW w \in Worker, Notify(w)
    PROVE  Inv'
<1>1. /\ proc[w].at = "notify" /\ Become(w, Idle)
      /\ UNCHANGED <<row, age, left, told, up, spoilt>>
  BY DEF Notify
<1>2. Idle \in Handler /\ Idle.at = "idle"
  BY Rows
<1> QED BY <1>1, <1>2, QuietKeepsInv

LEMMA CrashKeepsInv ==
    ASSUME Inv, Crash
    PROVE  Inv'
<1>1. /\ up' = FALSE
      /\ left' = [c \in Capture |-> None]
      /\ proc' = [w \in Worker |-> Idle]
      /\ UNCHANGED <<row, age, told, spoilt>>
  BY DEF Crash
<1>2. \A w \in Worker : proc'[w].at = "idle"
  BY <1>1, Rows
<1>3. TypeOK'
  <2>1. proc' \in [Worker -> Handler]
    BY <1>1, Rows
  <2> QED BY <1>1, <2>1 DEF Inv, TypeOK
<1>4. Stages' /\ Windows' /\ Timed'
  BY <1>1, <1>2 DEF Stages, Windows, Timed, Worker
<1>5. ErrorMatchesStatus' /\ PendingIsWatched'
  BY <1>1 DEF Inv, ErrorMatchesStatus, PendingIsWatched
<1> QED BY <1>3, <1>4, <1>5 DEF Inv

LEMMA BootKeepsInv ==
    ASSUME Inv, Boot
    PROVE  Inv'
<1>1. CASE OnModuleInitFails
  <2>1. up' = TRUE /\ spoilt' = TRUE /\ UNCHANGED <<row, age, left, told, proc>>
    BY <1>1 DEF OnModuleInitFails
  <2>2. TypeOK' /\ Stages' /\ Windows' /\ Timed' /\ ErrorMatchesStatus' /\ PendingIsWatched'
    BY <2>1 DEF Inv, TypeOK, Stages, Windows, Timed, ErrorMatchesStatus, PendingIsWatched
  <2> QED BY <2>2 DEF Inv
<1>2. CASE OnModuleInit
  <2>1. /\ row' = Expired /\ up' = TRUE /\ UNCHANGED <<age, told, proc>>
        /\ left' = [c \in Capture |->
              IF row'[c] # None /\ row'[c].status = "pending"
              THEN IF age[c] < Timeout THEN Timeout - age[c] ELSE 0
              ELSE None]
        /\ spoilt' = FALSE
    BY <1>2 DEF OnModuleInit
  <2>2. /\ row' \in [Capture -> Row \cup {None}] /\ ErrorMatchesStatus'
        /\ \A c \in Capture : row'[c] # None <=> row[c] # None
    BY <2>1, ExpiredRows
  <2>3. ASSUME NEW c \in Capture
        PROVE  /\ left'[c] \in 0 .. Timeout \cup {None}
               /\ left'[c] # None => row'[c] # None /\ age[c] + left'[c] >= Timeout
               /\ row'[c] # None /\ row'[c].status = "pending" => left'[c] # None
    <3>1. age[c] \in Nat /\ Timeout \in Nat /\ None \notin Nat
      BY Typed, Numbers
    <3>2. CASE row'[c] # None /\ row'[c].status = "pending"
      <4> DEFINE k == IF age[c] < Timeout THEN Timeout - age[c] ELSE 0
      <4>1. k \in 0 .. Timeout /\ k \in Nat /\ age[c] + k >= Timeout
        BY <3>1
      <4>2. left'[c] = k
        BY <2>1, <3>2
      <4> HIDE DEF k
      <4> QED BY <3>1, <3>2, <4>1, <4>2
    <3>3. CASE ~(row'[c] # None /\ row'[c].status = "pending")
      <4>1. left'[c] = None
        BY <2>1, <3>3
      <4> QED BY <3>3, <4>1
    <3> QED BY <3>2, <3>3
  <2>4. left' \in [Capture -> 0 .. Timeout \cup {None}]
    <3>1. \A c \in Capture : left'[c] \in 0 .. Timeout \cup {None}
      BY <2>3
    <3> QED BY <2>1, <3>1
  <2>5. TypeOK'
    BY <2>1, <2>2, <2>4 DEF Inv, TypeOK
  <2>6. Stages'
    BY <2>1, <2>2 DEF Inv, Stages
  <2>7. Windows' /\ Timed'
    BY <2>1, <2>3 DEF Inv, Windows, Timed
  <2>8. PendingIsWatched'
    BY <2>3 DEF PendingIsWatched, Is
  <2> QED BY <2>2, <2>5, <2>6, <2>7, <2>8 DEF Inv
<1> QED BY <1>1, <1>2 DEF Boot

LEMMA TickKeepsInv ==
    ASSUME Inv, Tick
    PROVE  Inv'
<1>1. /\ age' = [c \in Capture |->
              IF row[c] = None THEN age[c] ELSE Min2(age[c] + 1, Oldest)]
      /\ left' = [c \in Capture |-> IF left[c] \in {None, 0} THEN left[c] ELSE left[c] - 1]
      /\ UNCHANGED <<row, told, proc, up, spoilt>>
  BY DEF Tick
<1>2. ASSUME NEW c \in Capture
      PROVE  /\ age'[c] \in 0 .. Oldest
             /\ age'[c] = age[c] \/ age'[c] = age[c] + 1 \/ age'[c] >= Timeout
             /\ row[c] # None => age'[c] = age[c] + 1 \/ age'[c] >= Timeout
             /\ age'[c] \in Nat
  <2>1. age[c] \in 0 .. Oldest /\ Oldest \in Nat /\ Oldest > Timeout /\ Timeout \in Nat
    BY Typed, Numbers
  <2>2. age'[c] = IF row[c] = None THEN age[c]
                  ELSE IF age[c] + 1 < Oldest THEN age[c] + 1 ELSE Oldest
    BY <1>1 DEF Min2
  <2> HIDE DEF Oldest
  <2> QED BY <2>1, <2>2
<1>3. ASSUME NEW c \in Capture
      PROVE  /\ left'[c] \in 0 .. Timeout \cup {None}
             /\ left'[c] = None <=> left[c] = None
             /\ left[c] # None => /\ left[c] \in Nat /\ left'[c] \in Nat
                                  /\ left'[c] = left[c] \/ left'[c] = left[c] - 1
  <2>1. left[c] \in 0 .. Timeout \cup {None} /\ Timeout \in Nat /\ None \notin Nat
    BY Typed, Numbers
  <2>2. left'[c] = IF left[c] \in {None, 0} THEN left[c] ELSE left[c] - 1
    BY <1>1
  <2>3. CASE left[c] \in {None, 0}
    BY <2>1, <2>2, <2>3
  <2>4. CASE left[c] \notin {None, 0}
    <3>1. left[c] \in 1 .. Timeout
      BY <2>1, <2>4
    <3>2. left[c] - 1 \in 0 .. Timeout /\ left[c] - 1 \in Nat
      BY <2>1, <3>1
    <3>3. left'[c] = left[c] - 1
      BY <2>2, <2>4
    <3> QED BY <2>1, <3>1, <3>2, <3>3
  <2> QED BY <2>3, <2>4
<1>4. TypeOK'
  <2>1. age' \in [Capture -> 0 .. Oldest]
    BY <1>1, <1>2
  <2>2. left' \in [Capture -> 0 .. Timeout \cup {None}]
    BY <1>1, <1>3
  <2> QED BY <1>1, <2>1, <2>2 DEF Inv, TypeOK
<1>5. Windows'
  <2> SUFFICES ASSUME NEW c \in Capture
               PROVE  /\ left'[c] # None => age'[c] + left'[c] >= Timeout
                      /\ proc[c].at = "mark" => age'[c] >= Timeout
    BY <1>1 DEF Windows
  <2>1. /\ age[c] \in Nat /\ age'[c] \in Nat /\ Timeout \in Nat
        /\ age'[c] = age[c] \/ age'[c] = age[c] + 1 \/ age'[c] >= Timeout
    BY <1>2, Typed, Numbers
  <2>2. ASSUME left'[c] # None PROVE age'[c] + left'[c] >= Timeout
    <3>1. left[c] # None /\ row[c] # None
      BY <1>3, <2>2 DEF Inv, Timed
    <3>2. age[c] + left[c] >= Timeout /\ left[c] \in Nat /\ left'[c] \in Nat
          /\ (left'[c] = left[c] \/ left'[c] = left[c] - 1)
          /\ (age'[c] = age[c] + 1 \/ age'[c] >= Timeout)
      BY <1>2, <1>3, <3>1 DEF Inv, Windows
    <3> QED BY <2>1, <3>2
  <2>3. ASSUME proc[c].at = "mark" PROVE age'[c] >= Timeout
    <3>1. age[c] >= Timeout
      BY <2>3 DEF Inv, Windows
    <3> QED BY <2>1, <3>1
  <2> QED BY <2>2, <2>3
<1>6. Stages' /\ Timed' /\ ErrorMatchesStatus' /\ PendingIsWatched'
  BY <1>1, <1>3 DEF Inv, Stages, Timed, ErrorMatchesStatus, PendingIsWatched, Is
<1> QED BY <1>4, <1>5, <1>6 DEF Inv

LEMMA InvHolds == Spec => []Inv
<1>1. Inv /\ [Next]_vars => Inv'
  <2> SUFFICES ASSUME Inv, [Next]_vars PROVE Inv'
    OBVIOUS
  <2>1. ASSUME NEW p \in Proc, NEW c \in Capture,
               Request(p, c) \/ \E status \in Resolved : AnswerLoad(p, c, status)
        PROVE  Inv'
    BY <2>1, RequestKeepsInv, AnswerLoadKeepsInv
  <2>3. ASSUME NEW w \in Worker, Notify(w) PROVE Inv'
    BY <2>3, NotifyKeepsInv
  <2>2. ASSUME NEW p \in Proc, Steps(p) PROVE Inv'
    BY <2>2, <2>3, SendKeepsInv, FinishKeepsInv DEF Steps, Worker
  <2>4. ASSUME NEW c \in Capture, TimerSteps(c) PROVE Inv'
    BY <2>3, <2>4, FireTimerKeepsInv, MarkTimeoutKeepsInv DEF TimerSteps, Worker
  <2>5. CASE List \/ Crash \/ Boot \/ Tick
    BY <2>5, ListKeepsInv, CrashKeepsInv, BootKeepsInv, TickKeepsInv
  <2>6. CASE UNCHANGED vars
    BY <2>6 DEF vars, Inv, TypeOK, Stages, Windows, Timed, ErrorMatchesStatus,
                PendingIsWatched, Is
  <2> QED BY <2>1, <2>2, <2>3, <2>4, <2>5, <2>6 DEF Next
<1> QED BY <1>1, InitInv, PTL DEF Spec

-----------------------------------------------------------------------------
(* The theorems.                                                            *)

\* Rows, timers and handlers are well formed, whatever races, fails or restarts.
THEOREM HandshakesTyped == Spec => []TypeOK
<1>1. Inv => TypeOK
  BY DEF Inv
<1> QED BY <1>1, InvHolds, PTL

\* A row has an answer date and an error as its status says, whoever of the app,
\* the timer and a query wrote it last.
THEOREM ErrorAlwaysMatches == Spec => []ErrorMatchesStatus
<1>1. Inv => ErrorMatchesStatus
  BY DEF Inv
<1> QED BY <1>1, InvHolds, PTL

\* While the process runs and no query failed, each pending row has a timer or a
\* handler that will start it or close the row.
THEOREM AlwaysWatched == Spec => []PendingIsWatched
<1>1. Inv => PendingIsWatched
  BY DEF Inv
<1> QED BY <1>1, InvHolds, PTL

\* Nothing but an answer that was under way writes a row that is answered.
THEOREM AnswersStay == Spec => ResolvedStays
<1>1. ASSUME Inv, Next, NEW c \in Capture, row[c] # None, row[c].status \in Resolved
      PROVE  \/ row'[c] = row[c]
             \/ \E p \in Proc : /\ proc[p].at = "finish" /\ proc[p].capture = c
                                /\ proc'[p].at = "notify"
  <2>1. ~Is(c, "pending")
    BY <1>1 DEF Is, Resolved
  <2>2. ASSUME NEW p \in Proc, NEW d \in Capture, Request(p, d) PROVE row'[c] = row[c]
    BY <1>1, <2>2, Typed DEF Request
  <2>3. ASSUME NEW p \in Proc, Finish(p), row'[c] # row[c]
        PROVE  /\ proc[p].at = "finish" /\ proc[p].capture = c
               /\ proc'[p].at = "notify"
    <3>1. proc[p].at = "finish" /\ proc' = [proc EXCEPT ![p] = At("notify", proc[p].capture, None)]
      BY <2>3 DEF Finish, Become
    <3>2. proc'[p].at = "notify"
      BY <1>1, <3>1, Typed DEF At
    <3>3. proc[p].capture = c
      BY <1>1, <2>3, Typed DEF Finish
    <3> QED BY <3>1, <3>2, <3>3
  <2>4. ASSUME NEW d \in Capture, MarkTimeout(d) PROVE row'[c] = row[c]
    BY <1>1, <2>1, <2>4, Typed DEF MarkTimeout
  <2>5. ASSUME row' = Expired PROVE row'[c] = row[c]
    BY <2>1, <2>5 DEF Expired
  <2>6. ASSUME NEW p \in Proc, Send(p) \/ FinishFails(p)
        PROVE  row' = row
    BY <2>6 DEF Send, FinishFails
  <2>7. ASSUME NEW p \in Proc, NEW d \in Capture, NEW status \in Resolved,
               AnswerLoad(p, d, status)
        PROVE  row' = row
    BY <2>7 DEF AnswerLoad
  <2>8. ASSUME NEW w, Notify(w) PROVE row' = row
    BY <2>8 DEF Notify
  <2>9. ASSUME NEW d \in Capture, FireTimer(d) PROVE row' = row
    BY <2>9 DEF FireTimer
  <2>10. CASE Crash \/ OnModuleInitFails \/ Tick
    BY <2>10 DEF Crash, OnModuleInitFails, Tick
  <2>11. CASE List \/ OnModuleInit
    BY <2>5, <2>11 DEF List, OnModuleInit
  <2> QED BY <1>1, <2>2, <2>3, <2>4, <2>6, <2>7, <2>8, <2>9, <2>10, <2>11
          DEF Next, Steps, TimerSteps, Boot
<1>2. Inv /\ [Next]_vars
        => [\A c \in Capture : row[c] # None /\ row[c].status \in Resolved =>
                \/ row'[c] = row[c]
                \/ \E p \in Proc : proc[p].at = "finish" /\ proc[p].capture = c
                                   /\ proc'[p].at = "notify"]_vars
  BY <1>1
<1> QED BY <1>2, InvHolds, PTL DEF Spec, ResolvedStays

\* No row is closed as timed out before its window is over: the timer and the
\* restart count from requestedAt, and expireStale waits longer still.
THEOREM WindowAlwaysRespected == Spec => WindowRespected
<1>1. ASSUME Inv, Next, NEW c \in Capture, Is(c, "pending"), row'[c].status = "timeout"
      PROVE  age[c] >= Timeout
  <2>0. /\ row[c] # None /\ row[c].status = "pending" /\ row'[c] # row[c]
        /\ age[c] \in Nat /\ Timeout \in Nat /\ Margin \in Nat
    BY <1>1, Typed, Numbers DEF Is
  <2>1. ASSUME NEW p \in Proc, NEW d \in Capture, Request(p, d) PROVE FALSE
    BY <1>1, <2>0, <2>1, Typed DEF Request
  <2>2. ASSUME NEW p \in Proc, Finish(p) PROVE FALSE
    <3>1. proc[p].at = "finish" /\ p \in Worker
      BY <1>1, <2>2, Typed DEF Finish
    <3>2. proc[p].status \in Resolved
      BY <1>1, <3>1 DEF Inv, Stages
    <3>3. row' = [row EXCEPT ![proc[p].capture] = Answered(row[proc[p].capture], proc[p].status)]
      BY <2>2 DEF Finish
    <3>4. row'[c] = Answered(row[c], proc[p].status)
      BY <1>1, <2>0, <3>3, Typed
    <3> QED BY <1>1, <3>2, <3>4 DEF Answered, Resolved
  <2>3. ASSUME NEW d \in Capture, MarkTimeout(d) PROVE age[c] >= Timeout
    <3>1. d = c /\ proc[d].at = "mark"
      BY <1>1, <2>0, <2>3, Typed DEF MarkTimeout
    <3> QED BY <1>1, <3>1 DEF Inv, Windows
  <2>4. ASSUME row' = Expired PROVE age[c] >= Timeout
    <3>1. age[c] > Timeout + Margin
      BY <2>0, <2>4 DEF Expired
    <3> QED BY <2>0, <3>1
  <2>6. ASSUME NEW p \in Proc, Send(p) \/ FinishFails(p)
        PROVE  row' = row
    BY <2>6 DEF Send, FinishFails
  <2>7. ASSUME NEW p \in Proc, NEW d \in Capture, NEW status \in Resolved,
               AnswerLoad(p, d, status)
        PROVE  row' = row
    BY <2>7 DEF AnswerLoad
  <2>8. ASSUME NEW w, Notify(w) PROVE row' = row
    BY <2>8 DEF Notify
  <2>9. ASSUME NEW d \in Capture, FireTimer(d) PROVE row' = row
    BY <2>9 DEF FireTimer
  <2>10. CASE Crash \/ OnModuleInitFails \/ Tick
    BY <2>0, <2>10 DEF Crash, OnModuleInitFails, Tick
  <2>11. CASE List \/ OnModuleInit
    BY <2>4, <2>11 DEF List, OnModuleInit
  <2> QED BY <1>1, <2>0, <2>1, <2>2, <2>3, <2>6, <2>7, <2>8, <2>9, <2>10, <2>11
          DEF Next, Steps, TimerSteps, Boot
<1>2. Inv /\ [Next]_vars
        => [\A c \in Capture : Is(c, "pending") /\ row'[c].status = "timeout"
                => age[c] >= Timeout]_vars
  BY <1>1
<1> QED BY <1>2, InvHolds, PTL DEF Spec, WindowRespected
=============================================================================
