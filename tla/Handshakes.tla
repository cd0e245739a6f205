----------------------------- MODULE Handshakes -----------------------------
(***************************************************************************)
(* HandshakesService: an admin asks a desktop app for a capture; the app   *)
(* answers over HTTP, or a timer in memory, a restart or a later query     *)
(* closes the request as timed out.                                        *)
(*                                                                         *)
(* Each query is a step of its own, so handlers overlap between queries.   *)
(* Time is kept as ages: age[c] since requestedAt, left[c] of the timer;   *)
(* both saturate, and no bound on the length of a run is needed.           *)
(*                                                                         *)
(* Requests and answers that are refused change nothing and are left out,  *)
(* as is a failed delivery: emitToRoom fails only before the server is up. *)
(***************************************************************************)
EXTENDS Integers

CONSTANTS
    Capture,   \* ids of handshake_captures
    Proc,      \* HTTP handlers that may be in flight together
    Timeout,   \* HANDSHAKE_TIMEOUT_MS, in ticks
    Margin,    \* what expireStale adds to it
    None

Status == {"pending", "completed", "timeout", "failed"}
Resolved == {"completed", "failed"}
Row == [status: Status, responded: BOOLEAN, error: BOOLEAN]

ASSUME HandshakesAssumption ==
    /\ None \notin Capture \cup Proc \cup Nat \cup Row
    /\ Capture \cap Proc = {}
    /\ Timeout \in Nat \ {0} /\ Margin \in Nat

VARIABLES
    row,    \* row[c]: the row of the table, or None
    age,    \* age[c]: time since requestedAt, once the row exists
    left,   \* left[c]: what the timer of c has left, None without a timer
    told,   \* the captures whose 'handshake:request' was sent
    proc,   \* the handlers in flight; worker c is the callback of timer c
    up,     \* onModuleInit is done
    spoilt  \* history: a query failed since the last onModuleInit that succeeded

vars == <<row, age, left, told, proc, up, spoilt>>

-----------------------------------------------------------------------------
Worker == Proc \cup Capture
Handler == [at: {"idle", "send", "finish", "mark", "notify"},
            capture: Capture \cup {None},
            status: Status \cup {None}]   \* to be written
Idle == [at |-> "idle", capture |-> None, status |-> None]
At(stage, c, status) == [at |-> stage, capture |-> c, status |-> status]

\* expireStale closes what is older than Timeout + Margin.
Oldest == Timeout + Margin + 1
Min2(a, b) == IF a < b THEN a ELSE b

TypeOK ==
    /\ row \in [Capture -> Row \cup {None}]
    /\ age \in [Capture -> 0 .. Oldest]
    /\ left \in [Capture -> 0 .. Timeout \cup {None}]
    /\ told \subseteq Capture
    /\ proc \in [Worker -> Handler]
    /\ up \in BOOLEAN
    /\ spoilt \in BOOLEAN

Init ==
    /\ row = [c \in Capture |-> None]
    /\ age = [c \in Capture |-> 0]
    /\ left = [c \in Capture |-> None]
    /\ told = {}
    /\ proc = [w \in Worker |-> Idle]
    /\ up = TRUE
    /\ spoilt = FALSE

Is(c, status) == row[c] # None /\ row[c].status = status
Become(w, h) == proc' = [proc EXCEPT ![w] = h]

NewRow == [status |-> "pending", responded |-> FALSE, error |-> FALSE]
TimedOut == [status |-> "timeout", responded |-> TRUE, error |-> TRUE]

-----------------------------------------------------------------------------
(* request().                                                               *)

\* The INSERT.
Request(p, c) ==
    /\ up /\ proc[p].at = "idle"
    /\ row[c] = None
    /\ row' = [row EXCEPT ![c] = NewRow]
    /\ Become(p, At("send", c, None))
    /\ UNCHANGED <<age, left, told, up, spoilt>>

\* Mutant: the timer is not started.
SendUnscheduled(p) ==
    /\ proc[p].at = "send"
    /\ told' = told \cup {proc[p].capture}
    /\ Become(p, Idle)
    /\ UNCHANGED <<row, age, left, up, spoilt>>

\* The device is told and schedule() starts the timer; the row read at the end
\* is the answer.
Send(p) ==
    /\ proc[p].at = "send"
    /\ told' = told \cup {proc[p].capture}
    /\ left' = [left EXCEPT ![proc[p].capture] = Timeout]
    /\ Become(p, Idle)
    /\ UNCHANGED <<row, age, up, spoilt>>

-----------------------------------------------------------------------------
(* complete() and fail().                                                   *)

\* loadOwned lets a pending row and a timed out one pass.
AnswerLoad(p, c, status) ==
    /\ up /\ proc[p].at = "idle" /\ c \in told
    /\ Is(c, "pending") \/ Is(c, "timeout")
    /\ Become(p, At("finish", c, status))
    /\ UNCHANGED <<row, age, left, told, up, spoilt>>

\* Mutant: the error of a timeout stays on the late answer.
AnsweredKeepingError(r, status) ==
    [status |-> status, responded |-> TRUE, error |-> r.error \/ status = "failed"]

Answered(r, status) ==
    [status |-> status, responded |-> TRUE, error |-> status = "failed"]

\* finish(): the timer is cleared and the row written, whatever it holds by now.
Finish(p) ==
    LET c == proc[p].capture IN
    /\ proc[p].at = "finish"
    /\ left' = [left EXCEPT ![c] = None]
    /\ row' = [row EXCEPT ![c] = Answered(row[c], proc[p].status)]
    /\ Become(p, At("notify", c, None))
    /\ UNCHANGED <<age, told, up, spoilt>>

\* The UPDATE of finish() fails, the timer already cleared.
FinishFails(p) ==
    /\ proc[p].at = "finish"
    /\ left' = [left EXCEPT ![proc[p].capture] = None]
    /\ Become(p, Idle)
    /\ spoilt' = TRUE
    /\ UNCHANGED <<row, age, told, up>>

-----------------------------------------------------------------------------
(* The timeouts.                                                            *)

\* Mutant: the timer starts again instead of closing.
FireTimerAgain(c) ==
    /\ left[c] = 0
    /\ left' = [left EXCEPT ![c] = Timeout]
    /\ UNCHANGED <<row, age, told, proc, up, spoilt>>

\* The timer of c fires and markTimeout sends its UPDATE.
FireTimer(c) ==
    /\ left[c] = 0
    /\ left' = [left EXCEPT ![c] = None]
    /\ Become(c, At("mark", c, None))
    /\ UNCHANGED <<row, age, told, up, spoilt>>

\* Mutant: the UPDATE without the condition on the status.
MarkTimeoutAlways(c) ==
    /\ proc[c].at = "mark"
    /\ row' = [row EXCEPT ![c] = TimedOut]
    /\ Become(c, At("notify", c, None))
    /\ UNCHANGED <<age, left, told, up, spoilt>>

\* The UPDATE closes a row that is pending still.  Should it fail, nobody handles
\* the rejection and Node stops: that is a Crash.
MarkTimeout(c) ==
    /\ proc[c].at = "mark"
    /\ IF Is(c, "pending")
       THEN row' = [row EXCEPT ![c] = TimedOut] /\ Become(c, At("notify", c, None))
       ELSE row' = row /\ Become(c, Idle)
    /\ UNCHANGED <<age, left, told, up, spoilt>>

\* Mutant: every pending row is stale.
ExpiredAtOnce == [c \in Capture |-> IF Is(c, "pending") THEN TimedOut ELSE row[c]]

\* expireStale.
Expired ==
    [c \in Capture |->
        IF Is(c, "pending") /\ age[c] > Timeout + Margin THEN TimedOut ELSE row[c]]

\* list() and get() run expireStale first; what they read changes nothing.
List ==
    /\ up
    /\ row' = Expired
    /\ UNCHANGED <<age, left, told, proc, up, spoilt>>

-----------------------------------------------------------------------------
(* notify(): the row is read and pushed to the admin, or the query fails;  *)
(* what the admin sees is not modelled.                                    *)

Notify(w) ==
    /\ proc[w].at = "notify"
    /\ Become(w, Idle)
    /\ UNCHANGED <<row, age, left, told, up, spoilt>>

-----------------------------------------------------------------------------
(* The process and the clock.                                               *)

\* The timers and the handlers in flight are lost; PostgreSQL keeps the rows.
Crash ==
    /\ up
    /\ up' = FALSE
    /\ left' = [c \in Capture |-> None]
    /\ proc' = [w \in Worker |-> Idle]
    /\ UNCHANGED <<row, age, told, spoilt>>

\* onModuleInit, before any request is served.
OnModuleInit ==
    /\ ~up
    /\ up' = TRUE
    /\ row' = Expired
    /\ left' = [c \in Capture |->
            IF Expired[c] # None /\ Expired[c].status = "pending"
            THEN IF age[c] < Timeout THEN Timeout - age[c] ELSE 0
            ELSE None]
    /\ spoilt' = FALSE
    /\ UNCHANGED <<age, told, proc>>

\* Its queries fail, and the process starts all the same.
OnModuleInitFails ==
    /\ ~up
    /\ up' = TRUE
    /\ spoilt' = TRUE
    /\ UNCHANGED <<row, age, left, told, proc>>

Tick ==
    /\ age' = [c \in Capture |->
            IF row[c] = None THEN age[c] ELSE Min2(age[c] + 1, Oldest)]
    /\ left' = [c \in Capture |-> IF left[c] \in {None, 0} THEN left[c] ELSE left[c] - 1]
    /\ UNCHANGED <<row, told, proc, up, spoilt>>

Steps(p) == Send(p) \/ Finish(p) \/ FinishFails(p) \/ Notify(p)
TimerSteps(c) == FireTimer(c) \/ MarkTimeout(c) \/ Notify(c)
Boot == OnModuleInit \/ OnModuleInitFails

Next ==
    \/ \E p \in Proc :
        \/ \E c \in Capture :
            \/ Request(p, c)
            \/ \E status \in Resolved : AnswerLoad(p, c, status)
        \/ Steps(p)
    \/ \E c \in Capture : TimerSteps(c)
    \/ List \/ Crash \/ Boot \/ Tick

Spec == Init /\ [][Next]_vars

\* The event loop serves timers and answered queries, time passes, and the
\* container is restarted when it stops.
Fairness ==
    /\ \A p \in Proc : WF_vars(Steps(p))
    /\ \A c \in Capture : WF_vars(TimerSteps(c))
    /\ WF_vars(Boot) /\ WF_vars(Tick)
FairSpec == Spec /\ Fairness

-----------------------------------------------------------------------------
(* Properties.                                                              *)

\* A row has an answer date exactly when it is closed and an error exactly when
\* it was not completed, however late the answer came and whoever closed it.
ErrorMatchesStatus ==
    \A c \in Capture : row[c] # None =>
        /\ row[c].responded <=> row[c].status # "pending"
        /\ row[c].error <=> row[c].status \in {"timeout", "failed"}

\* An answered handshake is changed by nothing but an answer that was under way
\* already: not by the timer, a restart, a query, or an answer that came later.
ResolvedStays ==
    [][\A c \in Capture : row[c] # None /\ row[c].status \in Resolved =>
        \/ row'[c] = row[c]
        \/ \E p \in Proc : proc[p].at = "finish" /\ proc[p].capture = c /\ proc'[p].at = "notify"
      ]_vars

\* No handshake is closed as timed out before its device had the whole window,
\* even when the timer was started again by a restart.
WindowRespected ==
    [][\A c \in Capture : Is(c, "pending") /\ row'[c].status = "timeout"
            => age[c] >= Timeout]_vars

\* While the process runs, every pending handshake has a timer, or a handler that
\* is about to start it or to close it: none is left to wait for ever.  A query
\* that fails may spoil this, and a restart makes up for it.
PendingIsWatched ==
    up /\ ~spoilt => \A c \in Capture : Is(c, "pending") =>
        \/ left[c] # None \/ proc[c].at = "mark"
        \/ \E p \in Proc : proc[p].at = "send" /\ proc[p].capture = c

\* Every pending handshake is closed in the end, however often the process dies,
\* unless a query fails meanwhile.
EventuallyClosed == \A c \in Capture : Is(c, "pending") ~> ~Is(c, "pending") \/ spoilt
=============================================================================
