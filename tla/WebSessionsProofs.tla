-------------------------- MODULE WebSessionsProofs --------------------------
(***************************************************************************)
(* Proofs about WebSessions and Users, for any number of users, bodies,    *)
(* overlapping requests and restarts.  The invariant says how the object   *)
(* that a handler will save is related to the row as it is now (Current).  *)
(***************************************************************************)
EXTENDS WebSessions, TLAPS

-----------------------------------------------------------------------------
(* The invariant.                                                           *)

Working == {"lookup", "insert", "claim", "select", "write"}

\* What a handler holds at each stage.
Holding(p) ==
    LET h == handler[p] IN
    /\ h.stage \in Working => h.entity \in Row
    /\ h.stage \in {"claim", "select", "write", "notify"} => h.user \in User
    /\ h.stage = "lookup" => h.lookups # <<>>

AsksForBot(dto) == "dev_activity_bot" \in DOMAIN dto /\ dto["dev_activity_bot"]

\* The policies were obeyed when the request began.
Permitted(p) ==
    LET h == handler[p] IN
    h.entity # None /\ AsksForBot(h.dto) => botEnabled /\ "super_admin" \in h.actor

\* A new user has no session, and the bot only if the body asks for it.
Fresh(p) ==
    LET h == handler[p] IN
    h.entity # None /\ h.user = None =>
        /\ ~h.entity["refreshTokenHash"]
        /\ h.entity["dev_activity_bot"] => AsksForBot(h.dto)

\* No object about to be saved brings a closed session back.
KeepsClosed(p) ==
    LET h == handler[p] IN
    h.entity # None /\ h.user \in closed => ~h.entity["refreshTokenHash"]

\* The object of an update is the row as it is now, but for what the body asks
\* for and a number still to be claimed, unless somebody wrote the row meanwhile.
Current(p) ==
    LET h == handler[p]
        row == users[h.user]
    IN
    h.entity # None /\ h.user \in User \ overlapped =>
        /\ row # None
        /\ h.stage # "insert"
        /\ \A c \in Column \ {"employee_number"} :
                h.entity[c] = IF c \in DOMAIN h.dto THEN h.dto[c] ELSE row[c]
        /\ "employee_number" \notin DOMAIN h.dto =>
             /\ h.stage # "claim" => h.entity["employee_number"] = row["employee_number"]
             /\ h.stage = "claim" => row["employee_number"] = None
             /\ (h.stage = "lookup"
                    /\ \E i \in 1..Len(h.lookups) : h.lookups[i] = "employee_number")
                 => row["employee_number"] = None
        /\ h.stage = "write" => h.dirty = Differs(row, h.entity)

HandlerOK(p) == Holding(p) /\ Permitted(p) /\ Fresh(p) /\ KeepsClosed(p) /\ Current(p)

\* A request about to store a hash is of a session that is not closed.
WebOK(q) ==
    /\ web[q].stage = "store" => web[q].user \in User \ closed
    /\ web[q].ok => web[q].user \in User

Inv ==
    /\ TypeOK
    /\ \A p \in Request : HandlerOK(p)
    /\ \A q \in Client : WebOK(q)
    /\ AsAsked
    /\ LogoutLasts
    /\ AppInformed

-----------------------------------------------------------------------------
(* Rows and bodies.                                                         *)

ColumnType(c) ==
    CASE c = "email" -> Email \cup {None}
      [] c = "userName" -> Name \cup {None}
      [] c = "employee_number" -> Number \cup {None}
      [] c = "external_employee_number" -> External \cup {None}
      [] c = "password" -> Password
      [] c = "roles" -> Roles
      [] OTHER -> BOOLEAN

LEMMA RowIff ==
    ASSUME NEW r
    PROVE  r \in Row <=> r = [c \in Column |-> r[c]] /\ \A c \in Column : r[c] \in ColumnType(c)
  BY DEF Row, Column, UniqueColumn, Flag, ColumnType

LEMMA Columns ==
    /\ UniqueColumn \subseteq Column /\ Flag \subseteq Column
    /\ {"employee_number", "refreshTokenHash", "dev_activity_bot"} \subseteq Column
    /\ "employee_number" \notin Flag /\ "refreshTokenHash" # "employee_number"
    /\ "refreshTokenHash" # "dev_activity_bot" /\ "employee_number" # "dev_activity_bot"
    /\ "dev_activity_bot" \in Flag
  BY DEF UniqueColumn, Flag, Column

LEMMA Nulls == None \notin User /\ None \notin Row /\ None \notin Request
  BY AccountsAssumption

\* A body sets columns to values of theirs, and not the hash.
LEMMA Bodies ==
    ASSUME NEW dto \in Registrations \cup Changes \cup {Admin, <<>>}
    PROVE  /\ DOMAIN dto \subseteq Column \ {"refreshTokenHash"}
           /\ \A c \in DOMAIN dto : dto[c] \in ColumnType(c)
<1>1. CASE dto = <<>>
  <2>1. DOMAIN dto = {}
    BY <1>1
  <2> QED BY <2>1
<1>2. CASE dto # <<>>
  <2>1. Body(dto)
    BY <1>2, AccountsAssumption
  <2>2. \A c \in DOMAIN dto : InRow(dto, c)
    BY <2>1 DEF Body
  <2> QED BY <2>2 DEF InRow, Column, UniqueColumn, Flag, ColumnType
<1> QED BY <1>1, <1>2

LEMMA WithTyped ==
    ASSUME NEW r \in Row, NEW change,
           \A c \in DOMAIN change : c \in Column => change[c] \in ColumnType(c)
    PROVE  /\ With(r, change) \in Row
           /\ \A c \in Column :
                With(r, change)[c] = IF c \in DOMAIN change THEN change[c] ELSE r[c]
<1>0. \A c \in Column : r[c] \in ColumnType(c)
  BY RowIff
<1>1. \A c \in Column : With(r, change)[c] = IF c \in DOMAIN change THEN change[c] ELSE r[c]
  BY DEF With
<1>2. With(r, change) = [c \in Column |-> With(r, change)[c]]
  BY DEF With
<1>3. \A c \in Column : With(r, change)[c] \in ColumnType(c)
  BY <1>0, <1>1
<1> HIDE DEF With
<1>4. With(r, change) \in Row
  BY <1>2, <1>3, RowIff
<1> QED BY <1>1, <1>4

LEMMA WrittenTyped ==
    ASSUME NEW r \in Row, NEW e \in Row, NEW cs
    PROVE  /\ Written(r, e, cs) \in Row
           /\ \A c \in Column : Written(r, e, cs)[c] = IF c \in cs THEN e[c] ELSE r[c]
<1>0. \A c \in Column : r[c] \in ColumnType(c) /\ e[c] \in ColumnType(c)
  BY RowIff
<1>1. \A c \in Column : Written(r, e, cs)[c] = IF c \in cs THEN e[c] ELSE r[c]
  BY DEF Written
<1>2. Written(r, e, cs) = [c \in Column |-> Written(r, e, cs)[c]]
  BY DEF Written
<1>3. \A c \in Column : Written(r, e, cs)[c] \in ColumnType(c)
  BY <1>0, <1>1
<1> HIDE DEF Written
<1>4. Written(r, e, cs) \in Row
  BY <1>2, <1>3, RowIff
<1> QED BY <1>1, <1>4

\* Two rows with the same columns are one.
LEMMA SameRow ==
    ASSUME NEW r \in Row, NEW s \in Row, \A c \in Column : r[c] = s[c]
    PROVE  r = s
<1>1. r = [c \in Column |-> r[c]] /\ s = [c \in Column |-> s[c]]
  BY RowIff
<1> QED BY <1>1

\* A single column replaced.
LEMMA NumberTyped ==
    ASSUME NEW r \in Row, NEW n \in Number \cup {None}
    PROVE  LET w == With(r, [employee_number |-> n]) IN
           /\ w \in Row
           /\ \A c \in Column : w[c] = IF c = "employee_number" THEN n ELSE r[c]
<1> DEFINE change == [employee_number |-> n]
<1>1. DOMAIN change = {"employee_number"} /\ change["employee_number"] = n
  OBVIOUS
<1>2. \A c \in DOMAIN change : c \in Column => change[c] \in ColumnType(c)
  BY <1>1 DEF ColumnType
<1> HIDE DEF change
<1>3. /\ With(r, change) \in Row
      /\ \A c \in Column : With(r, change)[c] = IF c \in DOMAIN change THEN change[c] ELSE r[c]
  BY <1>2, WithTyped
<1>4. \A c \in Column : With(r, change)[c] = IF c = "employee_number" THEN n ELSE r[c]
  BY <1>1, <1>3
<1> QED BY <1>3, <1>4 DEF change

LEMMA HashTyped ==
    ASSUME NEW r \in Row, NEW b \in BOOLEAN
    PROVE  LET w == With(r, [refreshTokenHash |-> b]) IN
           /\ w \in Row
           /\ \A c \in Column : w[c] = IF c = "refreshTokenHash" THEN b ELSE r[c]
<1> DEFINE change == [refreshTokenHash |-> b]
<1>1. DOMAIN change = {"refreshTokenHash"} /\ change["refreshTokenHash"] = b
  OBVIOUS
<1>2. \A c \in DOMAIN change : c \in Column => change[c] \in ColumnType(c)
  BY <1>1 DEF ColumnType
<1> HIDE DEF change
<1>3. /\ With(r, change) \in Row
      /\ \A c \in Column : With(r, change)[c] = IF c \in DOMAIN change THEN change[c] ELSE r[c]
  BY <1>2, WithTyped
<1>4. \A c \in Column : With(r, change)[c] = IF c = "refreshTokenHash" THEN b ELSE r[c]
  BY <1>1, <1>3
<1> QED BY <1>3, <1>4 DEF change

-----------------------------------------------------------------------------
(* Handlers.                                                                *)

\* A slot whose handler has given up its object.
LEMMA EndedOK ==
    ASSUME NEW p \in Request,
           handler'[p].entity = None,
           handler'[p].stage \in {"idle", "done", "notify"},
           handler'[p].stage = "notify" => handler'[p].user \in User
    PROVE  HandlerOK(p)'
  BY DEF HandlerOK, Holding, Permitted, Fresh, KeepsClosed, Current, Working

\* A handler that rests, while others write.
LEMMA OthersKeepHandler ==
    ASSUME Inv, NEW q \in Request, handler'[q] = handler[q], UNCHANGED botEnabled,
           overlapped \subseteq overlapped',
           \A u \in User : users'[u] # users[u] /\ Holds(q, u) => u \in overlapped',
           \A u \in closed' : u \in closed \/ ~Holds(q, u)
    PROVE  HandlerOK(q)'
<1> DEFINE h == handler[q]
<1>0. HandlerOK(q) /\ handler'[q] = h
  BY DEF Inv
<1>1. Holding(q)' /\ Permitted(q)' /\ Fresh(q)'
  BY <1>0 DEF HandlerOK, Holding, Permitted, Fresh
<1>2. KeepsClosed(q)'
  BY <1>0 DEF HandlerOK, KeepsClosed, Holds
<1>3. ASSUME h.entity # None, h.user \in User \ overlapped'
      PROVE  users'[h.user] = users[h.user] /\ h.user \in User \ overlapped
  BY <1>3 DEF Holds
<1>4. Current(q)'
  BY <1>0, <1>3 DEF HandlerOK, Current
<1> QED BY <1>1, <1>2, <1>4 DEF HandlerOK

LEMMA Handlers ==
    ASSUME Inv, NEW p \in Request
    PROVE  /\ handler \in [Request -> Handler]
           /\ handler[p] \in Handler
           /\ HandlerOK(p)
  BY DEF Inv, TypeOK, UsersTypeOK

\* A handler goes on, and no row is written.
LEMMA RowsStayKeepsInv ==
    ASSUME Inv, NEW p \in Request, NEW h \in Handler, Become(p, h), WritesNothing,
           UNCHANGED <<botEnabled, born, web, held, closed>>,
           served' \in Nat, booting' \in BOOLEAN, behind' \subseteq User,
           HandlerOK(p)', AppInformed'
    PROVE  Inv'
<1>1. handler' \in [Request -> Handler] /\ handler'[p] = h
      /\ \A q \in Request \ {p} : handler'[q] = handler[q]
  BY Handlers DEF Become
<1>2. UNCHANGED <<users, overlapped, meant>>
  BY DEF WritesNothing
<1>3. TypeOK'
  BY <1>1, <1>2 DEF Inv, TypeOK, UsersTypeOK
<1>4. ASSUME NEW q \in Request PROVE HandlerOK(q)'
  <2>1. CASE q = p
    BY <2>1
  <2>2. CASE q # p
    BY <1>1, <1>2, <2>2, OthersKeepHandler
  <2> QED BY <2>1, <2>2
<1>5. \A q \in Client : WebOK(q)'
  BY DEF Inv, WebOK
<1>6. AsAsked' /\ LogoutLasts'
  BY <1>2 DEF Inv, AsAsked, LogoutLasts
<1> QED BY <1>3, <1>4, <1>5, <1>6 DEF Inv

\* The signals to the apps stay, too.
LEMMA QuietKeepsInv ==
    ASSUME Inv, NEW p \in Request, NEW h \in Handler, Become(p, h), WritesNothing,
           UNCHANGED <<botEnabled, behind, born, web, held, closed>>,
           served' \in Nat, booting' \in BOOLEAN,
           HandlerOK(p)', handler[p].stage # "notify"
    PROVE  Inv'
<1>1. \A q \in Request \ {p} : handler'[q] = handler[q]
  BY Handlers DEF Become
<1>2. AppInformed'
  BY <1>1 DEF Inv, AppInformed, WritesNothing
<1>3. behind' \subseteq User
  BY DEF Inv, TypeOK, UsersTypeOK
<1> QED BY <1>2, <1>3, RowsStayKeepsInv

\* What a statement leaves in the tables and in the history.
LEMMA WriteKeepsTables ==
    ASSUME Inv, NEW p \in Request \cup {None}, NEW u \in User, NEW new \in Row \cup {None},
           NEW asked, Write(p, u, new, asked), u \notin overlapped' => asked = new
    PROVE  /\ users' = [users EXCEPT ![u] = new]
           /\ users' \in [User -> Row \cup {None}]
           /\ meant' \in [User -> Row \cup {None}]
           /\ overlapped' \subseteq User
           /\ overlapped \subseteq overlapped'
           /\ AsAsked'
           /\ \A q \in Request \ {p} : Holds(q, u) => u \in overlapped'
<1> DEFINE Crossed == u \in overlapped \/ \E q \in Request \ {p} : Holds(q, u)
<1>1. /\ users' = [users EXCEPT ![u] = new]
      /\ overlapped' = IF Crossed THEN overlapped \cup {u} ELSE overlapped
      /\ meant' = [meant EXCEPT ![u] = IF Crossed THEN None ELSE asked]
  BY DEF Write
<1>2. /\ users \in [User -> Row \cup {None}] /\ meant \in [User -> Row \cup {None}]
      /\ overlapped \subseteq User /\ AsAsked
  BY DEF Inv, TypeOK, UsersTypeOK
<1>3. Crossed <=> u \in overlapped'
  BY <1>1
<1>4. /\ overlapped' \subseteq User /\ overlapped \subseteq overlapped'
      /\ \A q \in Request \ {p} : Holds(q, u) => u \in overlapped'
  BY <1>1, <1>2
<1> HIDE DEF Crossed
<1>5. users' \in [User -> Row \cup {None}] /\ users'[u] = new
      /\ \A w \in User \ {u} : users'[w] = users[w]
  BY <1>1, <1>2
<1>6. meant' \in [User -> Row \cup {None}] /\ meant'[u] = (IF Crossed THEN None ELSE asked)
      /\ \A w \in User \ {u} : meant'[w] = meant[w]
  BY <1>1, <1>2, <1>3
<1>7. AsAsked'
  BY <1>2, <1>3, <1>4, <1>5, <1>6 DEF AsAsked
<1> QED BY <1>1, <1>4, <1>5, <1>6, <1>7

\* A handler writes the row of u.
LEMMA WriteKeepsInv ==
    ASSUME Inv, NEW p \in Request, NEW h \in Handler, Become(p, h),
           NEW u \in User, NEW new \in Row \cup {None}, NEW asked,
           Write(p, u, new, asked), u \notin overlapped' => asked = new,
           UNCHANGED <<botEnabled, booting, served, web, held, closed>>,
           born' \subseteq User, behind' \subseteq User,
           new # None /\ u \in closed => ~new["refreshTokenHash"],
           HandlerOK(p)', AppInformed'
    PROVE  Inv'
<1>1. handler' \in [Request -> Handler] /\ handler'[p] = h
      /\ \A q \in Request \ {p} : handler'[q] = handler[q]
  BY Handlers DEF Become
<1>2. /\ users' = [users EXCEPT ![u] = new]
      /\ users' \in [User -> Row \cup {None}]
      /\ meant' \in [User -> Row \cup {None}]
      /\ overlapped' \subseteq User
      /\ overlapped \subseteq overlapped'
      /\ AsAsked'
      /\ \A q \in Request \ {p} : Holds(q, u) => u \in overlapped'
  BY WriteKeepsTables
<1>3. TypeOK'
  BY <1>1, <1>2 DEF Inv, TypeOK, UsersTypeOK
<1>4. ASSUME NEW q \in Request PROVE HandlerOK(q)'
  <2>1. CASE q = p
    BY <2>1
  <2>2. CASE q # p
    <3>1. handler'[q] = handler[q]
      BY <1>1, <2>2
    <3>2. \A w \in User : users'[w] # users[w] /\ Holds(q, w) => w \in overlapped'
      <4>1. \A w \in User \ {u} : users'[w] = users[w]
        BY <1>2 DEF Inv, TypeOK, UsersTypeOK
      <4> QED BY <1>2, <2>2, <4>1
    <3>3. \A w \in closed' : w \in closed \/ ~Holds(q, w)
      OBVIOUS
    <3> QED BY <1>2, <3>1, <3>2, <3>3, OthersKeepHandler
  <2> QED BY <2>1, <2>2
<1>5. \A q \in Client : WebOK(q)'
  BY DEF Inv, WebOK
<1>6. LogoutLasts'
  <2>1. closed \subseteq User /\ users \in [User -> Row \cup {None}]
    BY DEF Inv, TypeOK, UsersTypeOK
  <2> QED BY <1>2, <2>1 DEF Inv, LogoutLasts
<1> QED BY <1>2, <1>3, <1>4, <1>5, <1>6 DEF Inv

-----------------------------------------------------------------------------
(* The handlers of UsersService, one lemma per step.                        *)

LEMMA Idles ==
    /\ Idle \in Handler
    /\ Done \in Handler
<1>1. <<>> \in Seq(UniqueColumn)
  OBVIOUS
<1>2. {} \in SUBSET Column
  OBVIOUS
<1>3. {"customer"} \in Roles
  BY AccountsAssumption
<1>4. <<>> \in Registrations \cup Changes \cup {Admin, <<>>}
  OBVIOUS
<1>5. Idle \in Handler
  BY <1>1, <1>2, <1>3, <1>4 DEF Idle, Handler, Stage
<1>6. Done = [Idle EXCEPT !.stage = "done"]
  BY DEF Done
<1> HIDE DEF Idle
<1>7. Done \in Handler
  BY <1>5, <1>6 DEF Handler, Stage
<1> QED BY <1>5, <1>7

LEMMA InitInv == WebInit => Inv
<1> SUFFICES ASSUME WebInit PROVE Inv
  OBVIOUS
<1>1. users \in [User -> Row \cup {None}]
  BY AccountsAssumption DEF WebInit, UsersInit
<1>2. Idle \in Handler
  BY Idles
<1>3. TypeOK
  BY <1>1, <1>2 DEF WebInit, UsersInit, TypeOK, UsersTypeOK, WebHandler, NoCall
<1>4. ASSUME NEW p \in Request PROVE HandlerOK(p)
  <2>1. handler[p] = Idle
    BY DEF WebInit, UsersInit
  <2> QED BY <2>1 DEF Idle, HandlerOK, Holding, Permitted, Fresh, KeepsClosed, Current,
                      Working
<1>5. \A q \in Client : WebOK(q)
  BY DEF WebInit, WebOK, NoCall
<1>6. AsAsked /\ LogoutLasts /\ AppInformed
  BY DEF WebInit, UsersInit, AsAsked, LogoutLasts, AppInformed
<1> QED BY <1>3, <1>4, <1>5, <1>6 DEF Inv

\* A handler that answers with an error.
LEMMA RefusedKeepsInv ==
    ASSUME Inv, NEW p \in Request, Become(p, Done), WritesNothing,
           UNCHANGED <<botEnabled, behind, born, web, held, closed, booting>>,
           served' \in Nat, handler[p].stage # "notify"
    PROVE  Inv'
<1>1. Done \in Handler /\ Done.entity = None /\ Done.stage = "done"
  BY Idles DEF Done, Idle
<1>2. handler'[p] = Done
  BY Handlers DEF Become
<1>3. HandlerOK(p)'
  BY <1>1, <1>2, EndedOK
<1>4. booting' \in BOOLEAN
  BY DEF Inv, TypeOK, UsersTypeOK
<1> QED BY <1>1, <1>3, <1>4, QuietKeepsInv

\* LookedUp keeps all but the stage.
LEMMA LookedUpTyped ==
    ASSUME NEW h \in Handler
    PROVE  LET k == LookedUp(h) IN
           /\ k \in Handler
           /\ k.stage = IF h.lookups # <<>> THEN "lookup"
                        ELSE IF h.user = None THEN "insert" ELSE "select"
           /\ k.user = h.user /\ k.dto = h.dto /\ k.actor = h.actor /\ k.entity = h.entity
           /\ k.lookups = h.lookups /\ k.dirty = h.dirty
  BY DEF LookedUp, Handler, Stage

\* The columns that are looked up: a number only for whoever has none.
LEMMA OptionalTyped ==
    ASSUME NEW b, NEW c \in UniqueColumn
    PROVE  /\ Optional(b, c) \in Seq(UniqueColumn)
           /\ \A i \in 1..Len(Optional(b, c)) : Optional(b, c)[i] = c
           /\ ~b => Optional(b, c) = <<>>
  BY DEF Optional

LEMMA Concat ==
    ASSUME NEW s \in Seq(UniqueColumn), NEW t \in Seq(UniqueColumn), NEW v,
           \A i \in 1..Len(s) : s[i] # v, \A i \in 1..Len(t) : t[i] # v
    PROVE  \A i \in 1..Len(s \o t) : (s \o t)[i] # v
<1> SUFFICES ASSUME NEW i \in 1..Len(s \o t) PROVE (s \o t)[i] # v
  OBVIOUS
<1>1. Len(s) \in Nat /\ Len(t) \in Nat /\ Len(s \o t) = Len(s) + Len(t)
  OBVIOUS
<1>2. CASE i <= Len(s)
  <2>1. i \in 1..Len(s) /\ (s \o t)[i] = s[i]
    BY <1>1, <1>2
  <2> QED BY <2>1
<1>3. CASE i > Len(s)
  <2>1. i - Len(s) \in 1..Len(t) /\ (s \o t)[i] = t[i - Len(s)]
    BY <1>1, <1>3
  <2> QED BY <2>1
<1> QED BY <1>1, <1>2, <1>3

LEMMA CreateLookups ==
    ASSUME NEW dto
    PROVE  LookupsOfCreate(dto) \in Seq(UniqueColumn)
<1>0. {"email", "userName", "employee_number", "external_employee_number"} = UniqueColumn
  BY DEF UniqueColumn
<1>1. <<"employee_number">> \in Seq(UniqueColumn)
  BY <1>0
<1> QED BY <1>0, <1>1, OptionalTyped DEF LookupsOfCreate

LEMMA UpdateLookups ==
    ASSUME NEW e, NEW dto
    PROVE  /\ LookupsOfUpdate(e, dto) \in Seq(UniqueColumn)
           /\ \A i \in 1..Len(LookupsOfUpdate(e, dto)) :
                LookupsOfUpdate(e, dto)[i] = "employee_number"
                    => Assigned(e, dto)["employee_number"] = None
<1> DEFINE email == Optional(Names(dto, e, "email"), "email")
           name == Optional(Names(dto, e, "userName"), "userName")
           external == Optional("external_employee_number" \in DOMAIN dto
                                    /\ dto["external_employee_number"] # None,
                                "external_employee_number")
           number == Optional(/\ Assigned(e, dto)["employee_number"] = None
                              /\ Assigned(e, dto)["fullName"],
                              "employee_number")
<1>0. {"email", "userName", "employee_number", "external_employee_number"} = UniqueColumn
  BY DEF UniqueColumn
<1>1. /\ email \in Seq(UniqueColumn)
      /\ \A i \in 1..Len(email) : email[i] = "email"
  BY <1>0, OptionalTyped
<1>2. /\ name \in Seq(UniqueColumn)
      /\ \A i \in 1..Len(name) : name[i] = "userName"
  BY <1>0, OptionalTyped
<1>3. /\ external \in Seq(UniqueColumn)
      /\ \A i \in 1..Len(external) : external[i] = "external_employee_number"
  BY <1>0, OptionalTyped
<1>4. /\ number \in Seq(UniqueColumn)
      /\ Assigned(e, dto)["employee_number"] # None => number = <<>>
  BY <1>0, OptionalTyped
<1>5. LookupsOfUpdate(e, dto) = email \o name \o external \o number
  BY DEF LookupsOfUpdate
<1> HIDE DEF email, name, external, number
<1>6. /\ email \o name \in Seq(UniqueColumn)
      /\ (email \o name) \o external \in Seq(UniqueColumn)
      /\ LookupsOfUpdate(e, dto) \in Seq(UniqueColumn)
  BY <1>1, <1>2, <1>3, <1>4, <1>5
<1>7. ASSUME Assigned(e, dto)["employee_number"] # None
      PROVE  \A i \in 1..Len(LookupsOfUpdate(e, dto)) :
                LookupsOfUpdate(e, dto)[i] # "employee_number"
  <2>1. /\ \A i \in 1..Len(email) : email[i] # "employee_number"
        /\ \A i \in 1..Len(name) : name[i] # "employee_number"
        /\ \A i \in 1..Len(external) : external[i] # "employee_number"
    BY <1>1, <1>2, <1>3
  <2>2. \A i \in 1..Len(email \o name) : (email \o name)[i] # "employee_number"
    BY <1>1, <1>2, <2>1, Concat
  <2>3. \A i \in 1..Len((email \o name) \o external) :
            ((email \o name) \o external)[i] # "employee_number"
    BY <1>3, <1>6, <2>1, <2>2, Concat
  <2>4. \A i \in 1..Len(number) : number[i] # "employee_number"
    BY <1>4, <1>7
  <2>5. \A i \in 1..Len(((email \o name) \o external) \o number) :
            (((email \o name) \o external) \o number)[i] # "employee_number"
    BY <1>4, <1>6, <2>3, <2>4, Concat
  <2> QED BY <1>5, <2>5
<1> QED BY <1>6, <1>7

\* What is left of the lookups after the first.
LEMMA TailTyped ==
    ASSUME NEW s \in Seq(UniqueColumn), s # <<>>
    PROVE  /\ Head(s) \in UniqueColumn
           /\ Tail(s) \in Seq(UniqueColumn)
           /\ \A i \in 1..Len(Tail(s)) : i + 1 \in 1..Len(s) /\ Tail(s)[i] = s[i + 1]
           /\ \E i \in 1..Len(s) : s[i] = Head(s)
  OBVIOUS

\* create() begins, or the bootstrap.
LEMMA RegisteredOK ==
    ASSUME Inv, NEW p \in Request, NEW actor \in Roles,
           NEW dto \in Registrations \cup {Admin},
           AsksForBot(dto) => botEnabled /\ "super_admin" \in actor,
           Become(p, Registered(actor, dto)), UNCHANGED <<botEnabled, closed>>
    PROVE  Registered(actor, dto) \in Handler /\ HandlerOK(p)'
<1> DEFINE blank == [email |-> None, userName |-> None, employee_number |-> None,
                     external_employee_number |-> None, activity_linked |-> FALSE,
                     dev_activity_bot |-> FALSE, devtools_enabled |-> FALSE,
                     password |-> dto["password"], roles |-> {"customer"},
                     isActive |-> TRUE, refreshTokenHash |-> FALSE, fullName |-> FALSE]
           h == [Idle EXCEPT !.dto = dto, !.actor = actor, !.entity = Created(dto),
                             !.lookups = LookupsOfCreate(dto)]
           k == LookedUp(h)
<1>1. /\ DOMAIN dto \subseteq Column \ {"refreshTokenHash"}
      /\ \A c \in DOMAIN dto : dto[c] \in ColumnType(c)
      /\ dto \in Registrations \cup Changes \cup {Admin, <<>>}
  BY Bodies
<1>2. dto["password"] \in Password /\ {"customer"} \in Roles
  BY <1>1, AccountsAssumption DEF ColumnType
<1>3. blank \in Row
  BY <1>2 DEF Row
<1>4. ~blank["refreshTokenHash"] /\ ~blank["dev_activity_bot"]
  OBVIOUS
<1>5. Created(dto) = With(blank, dto)
  BY DEF Created
<1> HIDE DEF blank
<1>6. /\ Created(dto) \in Row
      /\ \A c \in Column :
            Created(dto)[c] = IF c \in DOMAIN dto THEN dto[c] ELSE blank[c]
  BY <1>1, <1>3, <1>5, WithTyped
<1>7. /\ ~Created(dto)["refreshTokenHash"]
      /\ Created(dto)["dev_activity_bot"] => AsksForBot(dto)
  BY <1>1, <1>4, <1>6, Columns DEF AsksForBot
<1>8. LookupsOfCreate(dto) \in Seq(UniqueColumn)
  BY CreateLookups
<1>9. h \in Handler
  <2>1. Idle \in Handler
    BY Idles
  <2> HIDE DEF Created
  <2> QED BY <1>1, <1>6, <1>8, <2>1 DEF Handler
<1>10. h.user = None /\ h.entity = Created(dto) /\ h.dto = dto /\ h.actor = actor
       /\ h.lookups = LookupsOfCreate(dto)
  BY DEF Idle
<1> HIDE DEF h
<1>11. /\ k \in Handler
       /\ k.stage = IF k.lookups # <<>> THEN "lookup" ELSE "insert"
       /\ k.user = None /\ k.entity = Created(dto) /\ k.dto = dto /\ k.actor = actor
  BY <1>9, <1>10, LookedUpTyped
<1>12. Registered(actor, dto) = k
  BY DEF Registered, h
<1> HIDE DEF k
<1>13. handler'[p] = k
  BY <1>12, Handlers DEF Become
<1>14. Holding(p)'
  BY <1>6, <1>11, <1>13 DEF Holding
<1>15. Permitted(p)' /\ Fresh(p)'
  BY <1>7, <1>11, <1>13 DEF Permitted, Fresh
<1>16. None \notin closed' /\ None \notin User
  BY Nulls DEF Inv, TypeOK
<1> QED BY <1>11, <1>12, <1>13, <1>14, <1>15, <1>16 DEF HandlerOK, KeepsClosed, Current

LEMMA CreateStartKeepsInv ==
    ASSUME Inv, NEW p \in Request, NEW dto \in Registrations, NEW actor \in Callers(dto),
           CreateStart(p, actor, dto), UNCHANGED <<web, held, closed>>
    PROVE  Inv'
<1>1. actor \in Roles
  BY AccountsAssumption DEF Callers
<1>2. AsksForBot(dto) => botEnabled /\ "super_admin" \in actor
  BY DEF CreateStart, Allowed, BotChangeAllowed, AsksForBot
<1>3. /\ Become(p, Registered(actor, dto)) /\ WritesNothing
      /\ UNCHANGED <<born, botEnabled, booting, behind>>
      /\ handler[p].stage = "idle" /\ served' = served + 1
  BY DEF CreateStart, Begins
<1>4. Registered(actor, dto) \in Handler /\ HandlerOK(p)'
  BY <1>1, <1>2, <1>3, RegisteredOK
<1>5. served' \in Nat /\ booting' \in BOOLEAN
  BY <1>3 DEF Inv, TypeOK, UsersTypeOK
<1> QED BY <1>3, <1>4, <1>5, QuietKeepsInv

LEMMA BootCreateKeepsInv ==
    ASSUME Inv, NEW p \in Request, BootCreate(p), UNCHANGED <<web, held, closed>>
    PROVE  Inv'
<1>1. {"customer"} \in Roles /\ ~AsksForBot(Admin)
  BY AccountsAssumption DEF AsksForBot, Flag
<1>2. /\ Become(p, Registered({"customer"}, Admin)) /\ WritesNothing
      /\ UNCHANGED <<born, botEnabled, booting, served, behind>>
      /\ handler[p].stage = "idle"
  BY DEF BootCreate
<1>3. Registered({"customer"}, Admin) \in Handler /\ HandlerOK(p)'
  BY <1>1, <1>2, RegisteredOK
<1>4. served' \in Nat /\ booting' \in BOOLEAN
  BY <1>2 DEF Inv, TypeOK, UsersTypeOK
<1> QED BY <1>2, <1>3, <1>4, QuietKeepsInv

LEMMA LookupKeepsInv ==
    ASSUME Inv, NEW p \in Request, Lookup(p), UNCHANGED <<web, held, closed>>
    PROVE  Inv'
<1> DEFINE h == handler[p]
           c == Head(h.lookups)
           self == IF c = "external_employee_number" THEN h.user ELSE None
           g == [h EXCEPT !.lookups = Tail(@)]
           k == LookedUp(g)
<1>1. h \in Handler /\ HandlerOK(p) /\ h.stage = "lookup"
  BY Handlers DEF Lookup
<1>2. WritesNothing /\ UNCHANGED <<born, botEnabled, booting, served, behind>>
  BY DEF Lookup
<1>3. served' \in Nat /\ booting' \in BOOLEAN
  BY <1>2 DEF Inv, TypeOK, UsersTypeOK
<1>4. CASE Become(p, Done)
  BY <1>1, <1>2, <1>3, <1>4, RefusedKeepsInv
<1>5. CASE Become(p, k)
  <2>1. h.lookups \in Seq(UniqueColumn) /\ h.lookups # <<>>
    BY <1>1 DEF HandlerOK, Holding, Handler
  <2>2. /\ Tail(h.lookups) \in Seq(UniqueColumn)
        /\ \A i \in 1..Len(Tail(h.lookups)) :
                i + 1 \in 1..Len(h.lookups) /\ Tail(h.lookups)[i] = h.lookups[i + 1]
    BY <2>1, TailTyped
  <2>3. /\ g \in Handler
        /\ g.lookups = Tail(h.lookups) /\ g.user = h.user /\ g.entity = h.entity
        /\ g.dto = h.dto /\ g.actor = h.actor
    BY <1>1, <2>2 DEF Handler
  <2> HIDE DEF g
  <2>4. /\ k \in Handler
        /\ k.stage = IF k.lookups # <<>> THEN "lookup"
                     ELSE IF h.user = None THEN "insert" ELSE "select"
        /\ k.lookups = Tail(h.lookups) /\ k.user = h.user /\ k.entity = h.entity
        /\ k.dto = h.dto /\ k.actor = h.actor
    BY <2>3, LookedUpTyped
  <2> HIDE DEF k
  <2>5. handler'[p] = k /\ handler[p] = h
    BY <1>5, Handlers DEF Become
  <2>6. h.user \in User \cup {None} /\ h.entity \in Row
    BY <1>1 DEF HandlerOK, Holding, Handler, Working
  <2> HIDE DEF h
  <2>7. Holding(p)'
    BY <1>1, <2>4, <2>5, <2>6 DEF HandlerOK, Holding, Working
  <2>8. Permitted(p)' /\ Fresh(p)' /\ KeepsClosed(p)'
    BY <1>1, <1>2, <2>4, <2>5 DEF HandlerOK, Permitted, Fresh, KeepsClosed
  <2>9. Current(p)'
    <3>1. (\E i \in 1..Len(k.lookups) : k.lookups[i] = "employee_number")
            => \E i \in 1..Len(h.lookups) : h.lookups[i] = "employee_number"
      BY <2>2, <2>4
    <3>2. users' = users /\ overlapped' = overlapped
      BY <1>2 DEF WritesNothing
    <3>3. k.stage \notin {"claim", "write"} /\ (h.user # None => k.stage # "insert")
      BY <2>4
    <3>4. None \notin User
      BY Nulls
    <3> QED BY <1>1, <2>4, <2>5, <3>1, <3>2, <3>3, <3>4 DEF HandlerOK, Current
  <2> QED BY <1>1, <1>2, <1>3, <1>5, <2>4, <2>5, <2>7, <2>8, <2>9, QuietKeepsInv DEF HandlerOK
<1> QED BY <1>4, <1>5 DEF Lookup

LEMMA NumberLookupKeepsInv ==
    ASSUME Inv, NEW p \in Request, NumberLookup(p), UNCHANGED <<web, held, closed>>
    PROVE  Inv'
<1> DEFINE h == handler[p]
<1>1. h \in Handler /\ HandlerOK(p) /\ h.stage = "lookup"
      /\ Head(h.lookups) = "employee_number"
  BY Handlers DEF NumberLookup
<1>2. WritesNothing /\ UNCHANGED <<born, botEnabled, booting, served, behind>>
  BY DEF NumberLookup
<1>3. served' \in Nat /\ booting' \in BOOLEAN
  BY <1>2 DEF Inv, TypeOK, UsersTypeOK
<1>4. CASE Become(p, Done)
  BY <1>1, <1>2, <1>3, <1>4, RefusedKeepsInv
<1>5. ASSUME NEW n \in Number,
             LET numbered == [h EXCEPT !.lookups = Tail(@),
                                       !.entity = With(@, [employee_number |-> n])]
             IN  Become(p, IF h.user = None THEN LookedUp(numbered)
                           ELSE [numbered EXCEPT !.stage = "claim"])
      PROVE  Inv'
  <2> DEFINE e == With(h.entity, [employee_number |-> n])
             g == [h EXCEPT !.lookups = Tail(@), !.entity = With(@, [employee_number |-> n])]
             k == IF h.user = None THEN LookedUp(g) ELSE [g EXCEPT !.stage = "claim"]
  <2>1. /\ h.lookups \in Seq(UniqueColumn) /\ h.lookups # <<>> /\ h.entity \in Row
        /\ h.user \in User \cup {None}
    BY <1>1 DEF HandlerOK, Holding, Handler, Working
  <2>2. /\ Tail(h.lookups) \in Seq(UniqueColumn)
        /\ \E i \in 1..Len(h.lookups) : h.lookups[i] = "employee_number"
    BY <1>1, <2>1, TailTyped
  <2>3. /\ e \in Row
        /\ \A c \in Column : e[c] = IF c = "employee_number" THEN n ELSE h.entity[c]
    BY <2>1, NumberTyped
  <2>4. g = [h EXCEPT !.lookups = Tail(h.lookups), !.entity = e]
    BY <1>1 DEF Handler
  <2> HIDE DEF e
  <2>5. /\ g \in Handler /\ g.user = h.user /\ g.entity = e /\ g.dto = h.dto
        /\ g.actor = h.actor
    BY <1>1, <2>2, <2>3, <2>4 DEF Handler
  <2>6. Become(p, k)
    BY <1>5
  <2> HIDE DEF g
  <2>7. /\ k \in Handler
        /\ h.user = None => k.stage \in {"lookup", "insert"}
                            /\ (k.stage = "lookup" => k.lookups # <<>>)
        /\ h.user # None => k.stage = "claim"
        /\ k.user = h.user /\ k.entity = e /\ k.dto = h.dto /\ k.actor = h.actor
    <3>1. CASE h.user = None
      BY <2>5, <3>1, LookedUpTyped
    <3>2. CASE h.user # None
      BY <2>5, <3>2 DEF Handler, Stage
    <3> QED BY <3>1, <3>2
  <2> HIDE DEF k
  <2>8. handler'[p] = k /\ handler[p] = h
    BY <2>6, Handlers DEF Become
  <2> HIDE DEF h
  <2>9. /\ users' = users /\ overlapped' = overlapped /\ None \notin User /\ None \notin Row
        /\ None \notin closed
    BY <1>2, Nulls DEF WritesNothing, Inv, TypeOK
  <2>10. e["refreshTokenHash"] = h.entity["refreshTokenHash"]
         /\ e["dev_activity_bot"] = h.entity["dev_activity_bot"]
         /\ \A c \in Column \ {"employee_number"} : e[c] = h.entity[c]
    BY <2>3, Columns
  <2>11. Holding(p)'
    BY <1>1, <2>1, <2>3, <2>7, <2>8 DEF HandlerOK, Holding
  <2>12. Permitted(p)' /\ Fresh(p)' /\ KeepsClosed(p)'
    BY <1>1, <1>2, <2>1, <2>7, <2>8, <2>9, <2>10
       DEF HandlerOK, Permitted, Fresh, KeepsClosed
  <2>13. Current(p)'
    <3>1. h.user # None => k.stage = "claim"
      BY <2>7
    <3> QED BY <1>1, <2>1, <2>2, <2>7, <2>8, <2>9, <2>10, <3>1 DEF HandlerOK, Current
  <2>14. handler[p].stage # "notify" /\ HandlerOK(p)'
    BY <1>1, <2>8, <2>11, <2>12, <2>13 DEF HandlerOK
  <2>15. k \in Handler
    BY <2>7
  <2> QED BY <1>2, <1>3, <2>6, <2>14, <2>15, QuietKeepsInv
<1> QED BY <1>4, <1>5 DEF NumberLookup

LEMMA UpdateLoadKeepsInv ==
    ASSUME Inv, NEW p \in Request, NEW u \in User, NEW dto \in Changes,
           NEW actor \in Callers(dto), UpdateLoad(p, u, actor, dto),
           UNCHANGED <<web, held, closed>>
    PROVE  Inv'
<1> DEFINE row == users[u]
           h == [Idle EXCEPT !.user = u, !.actor = actor, !.dto = dto]
           g == [h EXCEPT !.entity = Assigned(row, dto),
                          !.lookups = LookupsOfUpdate(row, dto)]
           k == LookedUp(g)
<1>1. /\ WritesNothing /\ UNCHANGED <<born, botEnabled, booting, behind>>
      /\ handler[p].stage = "idle" /\ served' = served + 1
      /\ AsksForBot(dto) => botEnabled /\ "super_admin" \in actor
  BY DEF UpdateLoad, Begins, Allowed, BotChangeAllowed, AsksForBot
<1>2. served' \in Nat /\ booting' \in BOOLEAN
  BY <1>1 DEF Inv, TypeOK, UsersTypeOK
<1>3. actor \in Roles /\ dto \in Registrations \cup Changes \cup {Admin, <<>>}
  BY AccountsAssumption DEF Callers
<1>4. h \in Handler /\ h.user = u /\ h.dto = dto /\ h.actor = actor
  <2>1. Idle \in Handler
    BY Idles
  <2> HIDE DEF Idle
  <2> QED BY <1>3, <2>1 DEF Handler
<1> HIDE DEF h
<1>5. CASE Become(p, Done)
  <2>1. handler[p].stage # "notify"
    BY <1>1
  <2> QED BY <1>1, <1>2, <1>4, <1>5, <2>1, RefusedKeepsInv
<1>6. CASE row # None /\ Become(p, k)
  <2>1. row \in Row
    BY <1>6 DEF Inv, TypeOK, UsersTypeOK
  <2>2. /\ DOMAIN dto \subseteq Column \ {"refreshTokenHash"}
        /\ \A c \in DOMAIN dto : dto[c] \in ColumnType(c)
    BY <1>3, Bodies
  <2> DEFINE e == Assigned(row, dto)
             l == LookupsOfUpdate(row, dto)
  <2>3. /\ e \in Row
        /\ \A c \in Column : e[c] = IF c \in DOMAIN dto THEN dto[c] ELSE row[c]
    BY <2>1, <2>2, WithTyped DEF Assigned
  <2>4. /\ l \in Seq(UniqueColumn)
        /\ \A i \in 1..Len(l) : l[i] = "employee_number" => e["employee_number"] = None
    BY UpdateLookups
  <2>5. g = [h EXCEPT !.entity = e, !.lookups = l]
    OBVIOUS
  <2> HIDE DEF e, l
  <2>6. /\ g \in Handler /\ g.user = u /\ g.dto = dto /\ g.actor = actor
        /\ g.entity = e /\ g.lookups = l
    BY <1>4, <2>3, <2>4, <2>5 DEF Handler
  <2> HIDE DEF g
  <2>7. None \notin User /\ None \notin Row
    BY Nulls
  <2>8. /\ k \in Handler
        /\ k.stage \in {"lookup", "select"} /\ (k.stage = "lookup" => k.lookups # <<>>)
        /\ k.user = u /\ k.dto = dto /\ k.actor = actor
        /\ k.entity = e /\ k.lookups = l
    BY <2>6, <2>7, LookedUpTyped
  <2> HIDE DEF k
  <2>9. handler'[p] = k
    BY <1>6, Handlers DEF Become
  <2>10. UNCHANGED <<users, overlapped, botEnabled, closed>>
    BY <1>1 DEF WritesNothing
  <2>11. Holding(p)'
    BY <2>3, <2>8, <2>9 DEF Holding
  <2>12. Permitted(p)' /\ Fresh(p)'
    BY <1>1, <2>7, <2>8, <2>9, <2>10 DEF Permitted, Fresh
  <2>13. KeepsClosed(p)'
    <3>1. u \in closed => ~e["refreshTokenHash"]
      BY <1>6, <2>2, <2>3, Columns DEF Inv, LogoutLasts
    <3> QED BY <2>8, <2>9, <2>10, <3>1 DEF KeepsClosed
  <2>14. Current(p)'
    <3>1. "employee_number" \notin DOMAIN dto => e["employee_number"] = row["employee_number"]
      BY <2>3, Columns
    <3> QED BY <1>6, <2>3, <2>4, <2>8, <2>9, <2>10, <3>1 DEF Current
  <2>15. k \in Handler /\ HandlerOK(p)'
    BY <2>8, <2>11, <2>12, <2>13, <2>14 DEF HandlerOK
  <2> QED BY <1>1, <1>2, <1>6, <2>15, QuietKeepsInv
<1> QED BY <1>5, <1>6 DEF UpdateLoad, h

LEMMA ClaimKeepsInv ==
    ASSUME Inv, NEW p \in Request, Claim(p), UNCHANGED <<web, held, closed>>
    PROVE  Inv'
<1> DEFINE h == handler[p]
           u == h.user
           n == h.entity["employee_number"]
           number == [employee_number |-> n]
<1>1. /\ h \in Handler /\ HandlerOK(p) /\ h.stage = "claim" /\ u \in User /\ h.entity \in Row
     
  BY Handlers DEF Claim, HandlerOK, Holding, Working
<1>2. n \in Number \cup {None}
  BY <1>1, RowIff, Columns DEF ColumnType
<1>3. UNCHANGED <<born, botEnabled, booting, served, behind>>
  BY DEF Claim
<1>4. served' \in Nat /\ booting' \in BOOLEAN
  BY <1>3 DEF Inv, TypeOK, UsersTypeOK
<1>5. CASE /\ users[u] # None
           /\ Write(p, u, With(users[u], number), With(meant[u], number))
           /\ Become(p, [h EXCEPT !.stage = "select"])
  <2> DEFINE k == [h EXCEPT !.stage = "select"]
             new == With(users[u], number)
             asked == With(meant[u], number)
  <2>1. users[u] \in Row /\ AsAsked /\ closed \subseteq User
    BY <1>1, <1>5 DEF Inv, TypeOK, UsersTypeOK
  <2>2. /\ new \in Row
        /\ \A c \in Column : new[c] = IF c = "employee_number" THEN n ELSE users[u][c]
    BY <1>2, <2>1, NumberTyped
  <2>3. Write(p, u, new, asked)
    BY <1>5
  <2>4. u \notin overlapped' => asked = new
    <3>1. overlapped \subseteq overlapped'
      BY <2>3 DEF Write
    <3> QED BY <1>1, <2>1, <3>1 DEF AsAsked
  <2> HIDE DEF new, asked
  <2>5. users'[u] = new /\ overlapped \subseteq overlapped'
    BY <1>1, <2>2, <2>3, <2>4, WriteKeepsTables DEF Inv, TypeOK, UsersTypeOK
  <2>6. /\ k \in Handler /\ k.stage = "select"
        /\ k.user = u /\ k.dto = h.dto /\ k.actor = h.actor /\ k.entity = h.entity
    <3>1. {"employee_number"} \in SUBSET Column
      BY Columns
    <3> QED BY <1>1, <3>1 DEF Handler, Stage
  <2>7. Become(p, k)
    BY <1>5
  <2> HIDE DEF k
  <2>8. handler'[p] = k /\ \A q \in Request \ {p} : handler'[q] = handler[q]
    BY <2>7, Handlers DEF Become
  <2>9. Holding(p)' /\ Permitted(p)' /\ Fresh(p)' /\ KeepsClosed(p)'
    BY <1>1, <1>3, <2>6, <2>8
       DEF HandlerOK, Holding, Permitted, Fresh, KeepsClosed, Working
  <2>10. Current(p)'
    <3>1. \A c \in Column \ {"employee_number"} : new[c] = users[u][c]
      BY <2>2
    <3>2. new["employee_number"] = n
      BY <2>2, Columns
    <3>3. None \notin Row
      BY Nulls
    <3> QED BY <1>1, <2>2, <2>5, <2>6, <2>8, <3>1, <3>2, <3>3 DEF HandlerOK, Current
  <2>11. AppInformed'
    BY <1>1, <1>3, <2>5, <2>8 DEF Inv, AppInformed
  <2>12. u \in closed => ~new["refreshTokenHash"]
    BY <1>5, <2>2, Columns DEF Inv, LogoutLasts
  <2>13. k \in Handler /\ HandlerOK(p)'
    BY <2>6, <2>9, <2>10 DEF HandlerOK
  <2>14. born' \subseteq User /\ behind' \subseteq User
    BY <1>3 DEF Inv, TypeOK, UsersTypeOK
  <2> QED BY <1>1, <1>3, <2>2, <2>3, <2>4, <2>7, <2>11, <2>12, <2>13, <2>14, WriteKeepsInv
<1>6. CASE Become(p, Done) /\ WritesNothing
  BY <1>1, <1>3, <1>4, <1>6, RefusedKeepsInv
<1>7. CASE users[u] = None /\ Become(p, [h EXCEPT !.stage = "select"]) /\ WritesNothing
  <2> DEFINE k == [h EXCEPT !.stage = "select"]
  <2>1. /\ k \in Handler /\ k.stage = "select"
        /\ k.user = u /\ k.dto = h.dto /\ k.actor = h.actor /\ k.entity = h.entity
    BY <1>1 DEF Handler, Stage
  <2>2. Become(p, k)
    BY <1>7
  <2> HIDE DEF k
  <2>3. handler'[p] = k
    BY <2>2, Handlers DEF Become
  <2>4. UNCHANGED <<users, overlapped>> /\ None \notin Row
    BY <1>7, Nulls DEF WritesNothing
  <2>5. Holding(p)' /\ Permitted(p)' /\ Fresh(p)' /\ KeepsClosed(p)'
    BY <1>1, <1>3, <2>1, <2>3
       DEF HandlerOK, Holding, Permitted, Fresh, KeepsClosed, Working
  <2>6. u \in overlapped
    BY <1>1, <1>7, <2>4 DEF HandlerOK, Current
  <2>7. Current(p)'
    BY <2>1, <2>3, <2>4, <2>6 DEF Current
  <2>8. k \in Handler /\ HandlerOK(p)'
    BY <2>1, <2>5, <2>7 DEF HandlerOK
  <2> QED BY <1>1, <1>3, <1>4, <1>7, <2>2, <2>8, QuietKeepsInv
<1> QED BY <1>5, <1>6, <1>7 DEF Claim

LEMMA SaveSelectKeepsInv ==
    ASSUME Inv, NEW p \in Request, SaveSelect(p), UNCHANGED <<web, held, closed>>
    PROVE  Inv'
<1> DEFINE h == handler[p]
           row == users[h.user]
           k == IF row = None THEN [h EXCEPT !.stage = "insert"]
                ELSE [h EXCEPT !.stage = "write", !.dirty = Differs(row, h.entity)]
<1>1. /\ h \in Handler /\ HandlerOK(p) /\ h.stage = "select" /\ h.user \in User
      /\ h.entity \in Row
  BY Handlers DEF SaveSelect, HandlerOK, Holding, Working
<1>2. WritesNothing /\ UNCHANGED <<born, botEnabled, booting, served, behind>>
      /\ Become(p, k)
  BY DEF SaveSelect
<1>3. served' \in Nat /\ booting' \in BOOLEAN
  BY <1>2 DEF Inv, TypeOK, UsersTypeOK
<1>4. Differs(row, h.entity) \in SUBSET Column
  BY DEF Differs
<1>5. /\ k \in Handler
      /\ row = None => k.stage = "insert"
      /\ row # None => k.stage = "write" /\ k.dirty = Differs(row, h.entity)
      /\ k.user = h.user /\ k.entity = h.entity /\ k.dto = h.dto /\ k.actor = h.actor
  <2> HIDE DEF h
  <2>1. CASE row = None
    BY <1>1, <2>1 DEF Handler, Stage
  <2>2. CASE row # None
    <3> HIDE DEF row
    <3> QED BY <1>1, <1>4, <2>2 DEF Handler, Stage
  <2> QED BY <2>1, <2>2
<1> HIDE DEF k
<1>6. handler'[p] = k
  BY <1>2, Handlers DEF Become
<1>7. UNCHANGED <<users, overlapped>>
  BY <1>2 DEF WritesNothing
<1>8. Holding(p)'
  BY <1>1, <1>5, <1>6 DEF HandlerOK, Holding
<1>9. Permitted(p)' /\ Fresh(p)' /\ KeepsClosed(p)'
  BY <1>1, <1>2, <1>5, <1>6 DEF HandlerOK, Permitted, Fresh, KeepsClosed
<1>10. Current(p)'
  <2>1. h.entity # None
    BY <1>1, Nulls
  <2>2. h.user \notin overlapped => row # None
    BY <1>1, <2>1 DEF HandlerOK, Current
  <2> QED BY <1>1, <1>5, <1>6, <1>7, <2>1, <2>2 DEF HandlerOK, Current
<1>11. k \in Handler /\ HandlerOK(p)'
  BY <1>5, <1>8, <1>9, <1>10 DEF HandlerOK
<1> QED BY <1>1, <1>2, <1>3, <1>11, QuietKeepsInv

\* What is left of a handler whose save() has resolved.
LEMMA SavedTyped ==
    ASSUME NEW h \in Handler, h.user \in User
    PROVE  /\ Saved(h) \in Handler
           /\ Saved(h).entity = None
           /\ Saved(h).stage \in {"done", "notify"}
           /\ Saved(h).stage = "notify" => Saved(h).user \in User
           /\ Signalled(h.dto) => Saved(h).stage = "notify" /\ Saved(h).user = h.user
<1>1. Idle \in Handler /\ Done \in Handler
  BY Idles
<1>2. Idle.entity = None
  BY DEF Idle
<1>3. Done.entity = None /\ Done.stage = "done"
  BY DEF Done, Idle
<1> HIDE DEF Idle, Done
<1>4. CASE Signalled(h.dto)
  BY <1>1, <1>2, <1>4 DEF Saved, Handler, Stage
<1>5. CASE ~Signalled(h.dto)
  BY <1>1, <1>3, <1>5 DEF Saved
<1> QED BY <1>4, <1>5

\* What a body asks for is typed as a row.
LEMMA AskingTyped ==
    ASSUME NEW h \in Handler, h.entity \in Row
    PROVE  /\ DOMAIN Asking(h) = DOMAIN h.dto
           /\ DOMAIN Asking(h) \subseteq Column \ {"refreshTokenHash"}
           /\ \A c \in DOMAIN h.dto :
                Asking(h)[c] = IF c = "employee_number" THEN h.entity[c] ELSE h.dto[c]
           /\ \A c \in DOMAIN Asking(h) : Asking(h)[c] \in ColumnType(c)
<1>1. /\ DOMAIN h.dto \subseteq Column \ {"refreshTokenHash"}
      /\ \A c \in DOMAIN h.dto : h.dto[c] \in ColumnType(c)
  <2>1. h.dto \in Registrations \cup Changes \cup {Admin, <<>>}
    BY DEF Handler
  <2> QED BY <2>1, Bodies
<1>2. /\ DOMAIN Asking(h) = DOMAIN h.dto
      /\ \A c \in DOMAIN h.dto :
            Asking(h)[c] = IF c = "employee_number" THEN h.entity[c] ELSE h.dto[c]
  BY DEF Asking
<1>3. \A c \in Column : h.entity[c] \in ColumnType(c)
  BY RowIff
<1> QED BY <1>1, <1>2, <1>3

\* An object that is up to date is saved as the body asks.
LEMMA SavedAsAsked ==
    ASSUME Inv, NEW p \in Request, handler[p].stage = "write",
           handler[p].user \notin overlapped
    PROVE  LET h == handler[p]
               row == users[h.user]
           IN  /\ row \in Row
               /\ Written(row, h.entity, h.dirty) = With(row, Asking(h))
               /\ \A c \in Column : Written(row, h.entity, h.dirty)[c] # row[c] => c \in DOMAIN h.dto
               /\ \A c \in Column : Written(row, h.entity, h.dirty)[c] = h.entity[c]
<1> DEFINE h == handler[p]
           row == users[h.user]
           new == Written(row, h.entity, h.dirty)
<1>1. /\ h \in Handler /\ HandlerOK(p) /\ h.user \in User /\ h.entity \in Row
      /\ h.entity # None
  BY Handlers, Nulls DEF HandlerOK, Holding, Working
<1>2. /\ row # None /\ h.dirty = Differs(row, h.entity)
      /\ \A c \in Column \ {"employee_number"} :
              h.entity[c] = IF c \in DOMAIN h.dto THEN h.dto[c] ELSE row[c]
      /\ "employee_number" \notin DOMAIN h.dto
            => h.entity["employee_number"] = row["employee_number"]
  BY <1>1 DEF HandlerOK, Current
<1>3. row \in Row
  BY <1>1, <1>2 DEF Inv, TypeOK, UsersTypeOK
<1>4. /\ DOMAIN Asking(h) = DOMAIN h.dto
      /\ DOMAIN Asking(h) \subseteq Column \ {"refreshTokenHash"}
      /\ \A c \in DOMAIN h.dto :
            Asking(h)[c] = IF c = "employee_number" THEN h.entity[c] ELSE h.dto[c]
      /\ \A c \in DOMAIN Asking(h) : Asking(h)[c] \in ColumnType(c)
  BY <1>1, AskingTyped
<1>5. /\ With(row, Asking(h)) \in Row
      /\ \A c \in Column :
            With(row, Asking(h))[c] = IF c \in DOMAIN h.dto THEN Asking(h)[c] ELSE row[c]
  BY <1>3, <1>4, WithTyped
<1>6. new \in Row /\ \A c \in Column : new[c] = IF c \in h.dirty THEN h.entity[c] ELSE row[c]
  BY <1>1, <1>3, WrittenTyped
<1>7. \A c \in Column : c \notin h.dirty => h.entity[c] = row[c]
  BY <1>2 DEF Differs
<1> HIDE DEF new
<1>8. \A c \in Column : new[c] = h.entity[c]
  BY <1>6, <1>7
<1>9. \A c \in Column : new[c] = With(row, Asking(h))[c]
  <2>1. ASSUME NEW c \in Column \ {"employee_number"} PROVE new[c] = With(row, Asking(h))[c]
    BY <1>2, <1>4, <1>5, <1>8
  <2>2. new["employee_number"] = With(row, Asking(h))["employee_number"]
    BY <1>2, <1>4, <1>5, <1>8, Columns
  <2> QED BY <2>1, <2>2
<1>10. new = With(row, Asking(h))
  BY <1>5, <1>6, <1>9, SameRow
<1>11. \A c \in Column : new[c] # row[c] => c \in DOMAIN h.dto
  BY <1>5, <1>9
<1> QED BY <1>3, <1>8, <1>10, <1>11 DEF new

LEMMA SaveWriteKeepsInv ==
    ASSUME Inv, NEW p \in Request, SaveWrite(p), UNCHANGED <<web, held, closed>>
    PROVE  Inv'
<1> DEFINE h == handler[p]
           u == h.user
           new == Written(users[u], h.entity, h.dirty)
           asked == With(meant[u], Asking(h))
<1>1. /\ h \in Handler /\ HandlerOK(p) /\ h.stage = "write" /\ u \in User /\ h.entity \in Row
      /\ h.entity # None
  BY Handlers, Nulls DEF SaveWrite, HandlerOK, Holding, Working
<1>2. UNCHANGED <<born, botEnabled, booting, served>>
  BY DEF SaveWrite
<1>3. served' \in Nat /\ booting' \in BOOLEAN /\ born' \subseteq User
  BY <1>2 DEF Inv, TypeOK, UsersTypeOK
<1>4. /\ Saved(h) \in Handler /\ Saved(h).entity = None
      /\ Saved(h).stage \in {"done", "notify"}
      /\ Saved(h).stage = "notify" => Saved(h).user \in User
      /\ Signalled(h.dto) => Saved(h).stage = "notify" /\ Saved(h).user = h.user
  BY <1>1, SavedTyped
<1>5. Become(p, Saved(h)) => /\ HandlerOK(p)' /\ handler'[p] = Saved(h)
                             /\ \A q \in Request \ {p} : handler'[q] = handler[q]
  <2>1. ASSUME Become(p, Saved(h))
        PROVE  /\ handler'[p] = Saved(h)
               /\ \A q \in Request \ {p} : handler'[q] = handler[q]
    BY <2>1, Handlers DEF Become
  <2>2. ASSUME Become(p, Saved(h)) PROVE HandlerOK(p)'
    BY <1>4, <2>1, <2>2, EndedOK
  <2> QED BY <2>1, <2>2
<1>6. CASE /\ users[u] # None
           /\ Write(p, u, new, asked)
           /\ behind' = IF \E f \in Flag : new[f] # users[u][f] THEN behind \cup {u} ELSE behind
           /\ Become(p, Saved(h))
  <2>1. users[u] \in Row /\ closed \subseteq User /\ behind \subseteq User
    BY <1>1, <1>6 DEF Inv, TypeOK, UsersTypeOK
  <2>2. new \in Row /\ \A c \in Column : new[c] = IF c \in h.dirty THEN h.entity[c] ELSE users[u][c]
    BY <1>1, <2>1, WrittenTyped
  <2>3. overlapped \subseteq overlapped'
    BY <1>6 DEF Write
  <2>4. ASSUME u \notin overlapped
        PROVE  /\ new = With(users[u], Asking(h))
               /\ \A c \in Column : new[c] # users[u][c] => c \in DOMAIN h.dto
    BY <1>1, <2>4, SavedAsAsked
  <2>5. u \notin overlapped' => asked = new
    BY <1>1, <2>3, <2>4 DEF Inv, AsAsked
  <2>6. Write(p, u, new, asked) /\ Become(p, Saved(h))
    BY <1>6
  <2>7. behind' \subseteq User
    BY <1>1, <1>6, <2>1
  <2>8. AppInformed'
    <3>1. ASSUME u \notin overlapped', \E f \in Flag : new[f] # users[u][f]
          PROVE  handler'[p].stage = "notify" /\ handler'[p].user = u
      <4>1. Signalled(h.dto)
        BY <2>3, <2>4, <3>1, Columns DEF Signalled
      <4> QED BY <1>4, <1>5, <1>6, <4>1
    <3>2. ASSUME NEW w \in behind' \ overlapped'
          PROVE  \E q \in Request : handler'[q].stage = "notify" /\ handler'[q].user = w
      <4>1. CASE w \in behind
        <5>1. PICK q \in Request : handler[q].stage = "notify" /\ handler[q].user = w
          BY <2>3, <3>2, <4>1 DEF Inv, AppInformed
        <5>2. q # p
          BY <1>1, <5>1
        <5> QED BY <1>5, <1>6, <5>1, <5>2
      <4>2. CASE w \notin behind
        BY <1>6, <3>1, <3>2, <4>2
      <4> QED BY <4>1, <4>2
    <3> QED BY <3>2 DEF AppInformed
  <2>9. u \in closed => ~new["refreshTokenHash"]
    <3>1. u \in closed => ~users[u]["refreshTokenHash"] /\ ~h.entity["refreshTokenHash"]
      BY <1>1, <1>6 DEF Inv, LogoutLasts, HandlerOK, KeepsClosed
    <3> HIDE DEF new
    <3> QED BY <2>2, <3>1, Columns
  <2> HIDE DEF new, asked, h
  <2>10. HandlerOK(p)'
    BY <1>5, <2>6
  <2> QED BY <1>1, <1>2, <1>3, <1>4, <2>2, <2>5, <2>6, <2>7, <2>8, <2>9, <2>10, WriteKeepsInv
<1>7. CASE Become(p, Done) /\ WritesNothing /\ UNCHANGED behind
  BY <1>1, <1>2, <1>3, <1>7, RefusedKeepsInv
<1>8. CASE Become(p, Saved(h)) /\ WritesNothing /\ UNCHANGED behind
  BY <1>1, <1>2, <1>3, <1>4, <1>5, <1>8, QuietKeepsInv
<1> QED BY <1>6, <1>7, <1>8 DEF SaveWrite

LEMMA InsertKeepsInv ==
    ASSUME Inv, NEW p \in Request, NEW u \in User, Insert(p, u),
           UNCHANGED <<web, held, closed>>
    PROVE  Inv'
<1> DEFINE h == handler[p]
           k == IF h.user = None THEN Done ELSE Saved(h)
<1>1. /\ h \in Handler /\ HandlerOK(p) /\ h.stage = "insert" /\ h.entity \in Row
      /\ h.entity # None
      /\ h.user \in {None, u}
  BY Handlers, Nulls DEF Insert, HandlerOK, Holding, Working
<1>2. UNCHANGED <<botEnabled, booting, served, behind>>
  BY DEF Insert
<1>3. served' \in Nat /\ booting' \in BOOLEAN /\ born \subseteq User /\ behind' \subseteq User
  BY <1>2 DEF Inv, TypeOK, UsersTypeOK
<1>4. CASE /\ Write(p, u, h.entity, h.entity) /\ Become(p, k) /\ born' = born \cup {u}
  <2>1. /\ k \in Handler /\ k.entity = None
        /\ k.stage \in {"done", "notify"} /\ (k.stage = "notify" => k.user \in User)
    <3>1. CASE h.user = None
      <4>1. Done \in Handler
        BY Idles
      <4> QED BY <3>1, <4>1 DEF Done, Idle
    <3>2. CASE h.user # None
      BY <1>1, <3>2, SavedTyped
    <3> QED BY <3>1, <3>2
  <2> HIDE DEF k
  <2>2. handler'[p] = k /\ \A q \in Request \ {p} : handler'[q] = handler[q]
    BY <1>4, Handlers DEF Become
  <2>3. HandlerOK(p)'
    BY <2>1, <2>2, EndedOK
  <2>4. u \in closed => ~h.entity["refreshTokenHash"]
    BY <1>1 DEF HandlerOK, Fresh, KeepsClosed
  <2>5. AppInformed'
    <3>1. overlapped \subseteq overlapped'
      BY <1>4 DEF Write
    <3> QED BY <1>1, <1>2, <2>2, <3>1 DEF Inv, AppInformed
  <2>6. born' \subseteq User
    BY <1>3, <1>4
  <2>7. h.entity \in Row \cup {None} /\ Write(p, u, h.entity, h.entity) /\ Become(p, k)
    BY <1>1, <1>4
  <2> QED BY <1>2, <1>3, <2>1, <2>3, <2>4, <2>5, <2>6, <2>7, WriteKeepsInv
<1>5. CASE Become(p, Done) /\ WritesNothing /\ UNCHANGED born
  BY <1>1, <1>2, <1>3, <1>5, RefusedKeepsInv
<1> QED BY <1>4, <1>5 DEF Insert

LEMMA NotifyKeepsInv ==
    ASSUME Inv, NEW p \in Request, Notify(p), UNCHANGED <<web, held, closed>>
    PROVE  Inv'
<1>1. /\ WritesNothing /\ UNCHANGED <<born, botEnabled, booting, served>>
      /\ behind' = behind \ {handler[p].user} /\ Become(p, Done)
  BY DEF Notify
<1>2. served' \in Nat /\ booting' \in BOOLEAN /\ behind' \subseteq User
  BY <1>1 DEF Inv, TypeOK, UsersTypeOK
<1>3. handler'[p] = Done /\ \A q \in Request \ {p} : handler'[q] = handler[q]
  BY <1>1, Handlers DEF Become
<1>4. Done \in Handler /\ Done.entity = None /\ Done.stage = "done"
  BY Idles DEF Done, Idle
<1>5. HandlerOK(p)'
  BY <1>3, <1>4, EndedOK
<1>6. AppInformed'
  BY <1>1, <1>3 DEF Inv, AppInformed, WritesNothing
<1> QED BY <1>1, <1>2, <1>4, <1>5, <1>6, RowsStayKeepsInv

LEMMA ReplyKeepsInv ==
    ASSUME Inv, NEW p \in Request, Reply(p), UNCHANGED <<web, held, closed>>
    PROVE  Inv'
<1>1. /\ WritesNothing /\ UNCHANGED <<born, botEnabled, served, behind>>
      /\ booting' = FALSE /\ Become(p, Idle) /\ handler[p].stage = "done"
  BY DEF Reply
<1>2. served' \in Nat
  BY <1>1 DEF Inv, TypeOK, UsersTypeOK
<1>3. handler'[p] = Idle
  BY <1>1, Handlers DEF Become
<1>4. Idle \in Handler /\ Idle.entity = None /\ Idle.stage = "idle"
  BY Idles DEF Idle
<1>5. HandlerOK(p)'
  BY <1>3, <1>4, EndedOK
<1> QED BY <1>1, <1>2, <1>4, <1>5, QuietKeepsInv

\* A statement of no request: a DELETE, or one of the web sessions.
LEMMA OutsideWriteKeepsInv ==
    ASSUME Inv, NEW u \in User, NEW new \in Row \cup {None}, NEW asked,
           Write(None, u, new, asked), u \notin overlapped' => asked = new,
           UNCHANGED <<born, handler, botEnabled, booting, served, behind>>,
           web' \in [Client -> WebHandler], held' \subseteq User, closed' \subseteq User,
           \A w \in closed' : w \in closed \/ Undisturbed(w),
           \A q \in Client : WebOK(q)',
           LogoutLasts'
    PROVE  Inv'
<1>1. /\ users' = [users EXCEPT ![u] = new]
      /\ users' \in [User -> Row \cup {None}]
      /\ meant' \in [User -> Row \cup {None}]
      /\ overlapped' \subseteq User
      /\ overlapped \subseteq overlapped'
      /\ AsAsked'
      /\ \A q \in Request \ {None} : Holds(q, u) => u \in overlapped'
  BY WriteKeepsTables
<1>2. TypeOK'
  BY <1>1 DEF Inv, TypeOK, UsersTypeOK
<1>3. ASSUME NEW q \in Request PROVE HandlerOK(q)'
  <2>1. handler'[q] = handler[q]
    OBVIOUS
  <2>2. \A w \in User : users'[w] # users[w] /\ Holds(q, w) => w \in overlapped'
    <3>1. \A w \in User \ {u} : users'[w] = users[w]
      BY <1>1 DEF Inv, TypeOK, UsersTypeOK
    <3> QED BY <1>1, <3>1, Nulls
  <2>3. \A w \in closed' : w \in closed \/ ~Holds(q, w)
    BY DEF Undisturbed
  <2> QED BY <1>1, <2>1, <2>2, <2>3, OthersKeepHandler
<1>4. AppInformed'
  BY <1>1 DEF Inv, AppInformed
<1> QED BY <1>1, <1>2, <1>3, <1>4 DEF Inv

LEMMA RemoveKeepsInv ==
    ASSUME Inv, NEW u \in User, Remove(u), UNCHANGED <<web, held, closed>>
    PROVE  Inv'
<1>1. /\ Write(None, u, None, None)
      /\ UNCHANGED <<born, handler, botEnabled, booting, served, behind>>
  BY DEF Remove
<1>2. /\ web' \in [Client -> WebHandler] /\ held' \subseteq User /\ closed' \subseteq User
      /\ users \in [User -> Row \cup {None}]
  BY DEF Inv, TypeOK, UsersTypeOK
<1>3. \A q \in Client : WebOK(q)'
  BY DEF Inv, WebOK
<1>4. LogoutLasts'
  <2>1. users' = [users EXCEPT ![u] = None]
    BY <1>1 DEF Write
  <2> QED BY <1>2, <2>1 DEF Inv, LogoutLasts
<1> QED BY <1>1, <1>2, <1>3, <1>4, OutsideWriteKeepsInv

LEMMA BootSkipKeepsInv ==
    ASSUME Inv, BootSkip, UNCHANGED <<web, held, closed>>
    PROVE  Inv'
<1>1. /\ UNCHANGED <<users, overlapped, meant, born, handler, botEnabled, served, behind>>
      /\ booting' = FALSE
  BY DEF BootSkip, WritesNothing
<1>2. TypeOK'
  BY <1>1 DEF Inv, TypeOK, UsersTypeOK
<1>3. \A q \in Request : HandlerOK(q)'
  BY <1>1, OthersKeepHandler
<1>4. \A q \in Client : WebOK(q)'
  BY DEF Inv, WebOK
<1>5. AsAsked' /\ LogoutLasts' /\ AppInformed'
  BY <1>1 DEF Inv, AsAsked, LogoutLasts, AppInformed
<1> QED BY <1>2, <1>3, <1>4, <1>5 DEF Inv

LEMMA NoCalls == NoCall \in WebHandler /\ NoCall.stage = "idle" /\ ~NoCall.ok
  BY DEF NoCall, WebHandler

LEMMA CrashKeepsInv == Inv /\ Crash => Inv'
<1> SUFFICES ASSUME Inv, Crash PROVE Inv'
  OBVIOUS
<1>1. /\ handler' = [p \in Request |-> Idle] /\ botEnabled' \in BOOLEAN
      /\ booting' = TRUE /\ behind' = {}
      /\ UNCHANGED <<users, overlapped, meant, born, served, held, closed>>
      /\ web' = [q \in Client |-> NoCall]
  BY DEF Crash, UsersCrash, WritesNothing
<1>2. TypeOK'
  BY <1>1, Idles, NoCalls DEF Inv, TypeOK, UsersTypeOK
<1>3. Idle.entity = None /\ Idle.stage = "idle"
  BY DEF Idle
<1>4. \A q \in Request : HandlerOK(q)'
  BY <1>1, <1>3, EndedOK
<1>5. \A q \in Client : WebOK(q)'
  BY <1>1, NoCalls DEF WebOK
<1>6. AsAsked' /\ LogoutLasts' /\ AppInformed'
  BY <1>1 DEF Inv, AsAsked, LogoutLasts, AppInformed
<1> QED BY <1>2, <1>4, <1>5, <1>6 DEF Inv

-----------------------------------------------------------------------------
(* The web branches of AuthService.                                         *)

\* A step of a client that writes no row.
LEMMA WebQuietKeepsInv ==
    ASSUME Inv, WritesNothing, UsersRest, NEW q \in Client, NEW k \in WebHandler,
           Call(q, k), held' \subseteq User, closed' \subseteq closed,
           k.stage = "store" => k.user \in User \ closed', k.ok => k.user \in User
    PROVE  Inv'
<1>1. UNCHANGED <<users, overlapped, meant, born, handler, botEnabled, booting, served, behind>>
  BY DEF WritesNothing, UsersRest
<1>2. web \in [Client -> WebHandler] /\ closed \subseteq User
  BY DEF Inv, TypeOK
<1>3. /\ web' \in [Client -> WebHandler] /\ web'[q] = k
      /\ \A r \in Client \ {q} : web'[r] = web[r]
  BY <1>2 DEF Call
<1>4. TypeOK'
  BY <1>1, <1>2, <1>3 DEF Inv, TypeOK, UsersTypeOK
<1>5. \A p \in Request : HandlerOK(p)'
  BY <1>1, OthersKeepHandler
<1>6. \A r \in Client : WebOK(r)'
  BY <1>3 DEF Inv, WebOK
<1>7. AsAsked' /\ LogoutLasts' /\ AppInformed'
  BY <1>1 DEF Inv, AsAsked, LogoutLasts, AppInformed
<1> QED BY <1>4, <1>5, <1>6, <1>7 DEF Inv

LEMMA WebLoginKeepsInv ==
    ASSUME Inv, NEW q \in Client, NEW n, NEW w, WebLogin(q, n, w)
    PROVE  Inv'
<1>1. WritesNothing /\ UsersRest /\ held' = held
  BY DEF WebLogin
<1>2. held' \subseteq User /\ closed \subseteq User
  BY <1>1 DEF Inv, TypeOK
<1>3. ASSUME NEW u \in User, Call(q, [NoCall EXCEPT !.stage = "store", !.user = u]),
             closed' = closed \ {u}
      PROVE  Inv'
  <2> DEFINE k == [NoCall EXCEPT !.stage = "store", !.user = u]
  <2>1. k \in WebHandler /\ k.user = u /\ ~k.ok
    BY DEF NoCall, WebHandler
  <2>2. Call(q, k) /\ closed' \subseteq closed /\ u \notin closed'
    BY <1>3
  <2> HIDE DEF k
  <2> QED BY <1>1, <1>2, <2>1, <2>2, WebQuietKeepsInv
<1>4. ASSUME Call(q, [NoCall EXCEPT !.stage = "done"]), closed' = closed
      PROVE  Inv'
  <2> DEFINE k == [NoCall EXCEPT !.stage = "done"]
  <2>1. k \in WebHandler /\ k.stage = "done" /\ ~k.ok
    BY DEF NoCall, WebHandler
  <2>2. Call(q, k)
    BY <1>4
  <2> HIDE DEF k
  <2> QED BY <1>1, <1>2, <1>4, <2>1, <2>2, WebQuietKeepsInv
<1> QED BY <1>3, <1>4 DEF WebLogin

LEMMA WebRefreshKeepsInv ==
    ASSUME Inv, NEW q \in Client, NEW u \in User, WebRefresh(q, u)
    PROVE  Inv'
<1> DEFINE k == IF Refreshable(u) THEN [NoCall EXCEPT !.stage = "store", !.user = u]
                ELSE [NoCall EXCEPT !.stage = "done"]
<1>1. WritesNothing /\ UsersRest /\ UNCHANGED <<held, closed>> /\ Call(q, k)
  BY DEF WebRefresh
<1>2. held' \subseteq User /\ closed' = closed
  BY <1>1 DEF Inv, TypeOK
<1>3. k \in WebHandler /\ ~k.ok /\ (k.stage = "store" => Refreshable(u) /\ k.user = u)
  BY DEF NoCall, WebHandler
<1>4. Refreshable(u) => u \notin closed
  BY DEF Refreshable, Inv, LogoutLasts
<1> HIDE DEF k
<1> QED BY <1>1, <1>2, <1>3, <1>4, WebQuietKeepsInv

\* The hash of u stored or cleared.
LEMMA StoreHashKeepsInv ==
    ASSUME Inv, NEW u \in User, NEW b \in BOOLEAN, users[u] # None, StoreHash(u, b),
           UsersRest, UNCHANGED held,
           NEW q \in Client, NEW k \in WebHandler, Call(q, k),
           k.stage # "store", k.ok => k.user \in User,
           closed' \subseteq closed \cup {u},
           u \in closed' => ~b,
           u \in closed' => u \in closed \/ Undisturbed(u)
    PROVE  Inv'
<1> DEFINE new == With(users[u], [refreshTokenHash |-> b])
           asked == With(meant[u], [refreshTokenHash |-> b])
<1>1. users \in [User -> Row \cup {None}] /\ users[u] \in Row /\ closed \subseteq User
      /\ web \in [Client -> WebHandler] /\ held \subseteq User
  BY DEF Inv, TypeOK, UsersTypeOK
<1>2. new \in Row /\ \A c \in Column : new[c] = IF c = "refreshTokenHash" THEN b ELSE users[u][c]
  BY <1>1, HashTyped
<1>3. Write(None, u, new, asked)
  BY DEF StoreHash
<1>4. u \notin overlapped' => asked = new
  <2>1. overlapped \subseteq overlapped'
    BY <1>3 DEF Write
  <2> QED BY <2>1 DEF Inv, AsAsked
<1>5. new["refreshTokenHash"] = b
  BY <1>2, Columns
<1>6. users' = [users EXCEPT ![u] = new]
  BY <1>3 DEF Write
<1> HIDE DEF new, asked
<1>7. LogoutLasts'
  BY <1>1, <1>5, <1>6 DEF Inv, LogoutLasts
<1>8. /\ web' \in [Client -> WebHandler] /\ web'[q] = k
      /\ \A r \in Client \ {q} : web'[r] = web[r]
  BY <1>1 DEF Call
<1>9. \A r \in Client : WebOK(r)'
  <2>1. ASSUME NEW r \in Client \ {q}, web[r].stage = "store" PROVE web[r].user \notin closed'
    BY <2>1 DEF Inv, WebOK, Undisturbed
  <2> QED BY <1>8, <2>1 DEF Inv, WebOK
<1>10. \A w \in closed' : w \in closed \/ Undisturbed(w)
  OBVIOUS
<1>11. closed' \subseteq User /\ held' \subseteq User
  BY <1>1
<1>12. UNCHANGED <<born, handler, botEnabled, booting, served, behind>>
  BY DEF UsersRest
<1> QED BY <1>2, <1>3, <1>4, <1>7, <1>8, <1>9, <1>10, <1>11, <1>12, OutsideWriteKeepsInv

LEMMA WebStoreKeepsInv ==
    ASSUME Inv, NEW q \in Client, WebStore(q)
    PROVE  Inv'
<1> DEFINE h == web[q]
<1>1. h \in WebHandler /\ h.user \in User \ closed /\ h.stage = "store"
  BY DEF WebStore, Inv, TypeOK, WebOK
<1>2. UsersRest /\ UNCHANGED <<held, closed>> /\ held' \subseteq User
  BY DEF WebStore, Inv, TypeOK
<1>3. CASE /\ users[h.user] # None /\ StoreHash(h.user, TRUE)
           /\ Call(q, [h EXCEPT !.stage = "done", !.ok = TRUE])
  <2> DEFINE k == [h EXCEPT !.stage = "done", !.ok = TRUE]
  <2>1. k \in WebHandler /\ k.stage = "done" /\ k.user = h.user
    BY <1>1 DEF WebHandler
  <2>2. Call(q, k)
    BY <1>3
  <2> HIDE DEF k, h
  <2> QED BY <1>1, <1>2, <1>3, <2>1, <2>2, StoreHashKeepsInv
<1>4. CASE WritesNothing /\ Call(q, [h EXCEPT !.stage = "done"])
  <2> DEFINE k == [h EXCEPT !.stage = "done"]
  <2>1. k \in WebHandler /\ k.stage = "done" /\ k.user = h.user
    BY <1>1 DEF WebHandler
  <2>2. Call(q, k)
    BY <1>4
  <2> HIDE DEF k, h
  <2> QED BY <1>1, <1>2, <1>4, <2>1, <2>2, WebQuietKeepsInv
<1> QED BY <1>3, <1>4 DEF WebStore

LEMMA WebLogoutKeepsInv ==
    ASSUME Inv, NEW q \in Client, NEW u \in User, WebLogout(q, u)
    PROVE  Inv'
<1> DEFINE k == [NoCall EXCEPT !.stage = "done"]
<1>1. UsersRest /\ UNCHANGED held /\ held' \subseteq User /\ Call(q, k)
  BY DEF WebLogout, Inv, TypeOK
<1>2. k \in WebHandler /\ k.stage = "done" /\ ~k.ok
  BY DEF NoCall, WebHandler
<1> HIDE DEF k
<1>3. CASE /\ users[u] # None /\ StoreHash(u, FALSE)
           /\ closed' = IF Undisturbed(u) THEN closed \cup {u} ELSE closed
  <2>1. closed' \subseteq closed \cup {u} /\ (u \in closed' => u \in closed \/ Undisturbed(u))
    BY <1>3
  <2>2. k.stage # "store" /\ ~k.ok
    BY <1>2
  <2> QED BY <1>1, <1>2, <1>3, <2>1, <2>2, StoreHashKeepsInv
<1>4. CASE WritesNothing /\ UNCHANGED closed
  <2>1. closed' \subseteq closed
    BY <1>4
  <2> QED BY <1>1, <1>2, <1>4, <2>1, WebQuietKeepsInv
<1> QED BY <1>3, <1>4 DEF WebLogout

LEMMA WebReplyKeepsInv ==
    ASSUME Inv, NEW q \in Client, WebReply(q)
    PROVE  Inv'
<1>1. WritesNothing /\ UsersRest /\ closed' \subseteq closed /\ Call(q, NoCall)
  BY DEF WebReply
<1>2. held' \subseteq User
  BY DEF WebReply, Inv, TypeOK, WebOK
<1>3. NoCall \in WebHandler /\ NoCall.stage # "store" /\ ~NoCall.ok
  BY NoCalls
<1> QED BY <1>1, <1>2, <1>3, WebQuietKeepsInv

-----------------------------------------------------------------------------
(* All steps.                                                               *)

LEMMA StutterKeepsInv == Inv /\ UNCHANGED webVars => Inv'
<1> SUFFICES ASSUME Inv, UNCHANGED webVars PROVE Inv'
  OBVIOUS
<1>1. UNCHANGED <<users, overlapped, meant, born, handler, botEnabled, booting, served, behind,
                  web, held, closed>>
  BY DEF webVars
<1>2. TypeOK'
  BY <1>1 DEF Inv, TypeOK, UsersTypeOK
<1>3. \A q \in Request : HandlerOK(q)'
  BY <1>1, OthersKeepHandler
<1>4. \A q \in Client : WebOK(q)'
  BY <1>1 DEF Inv, WebOK
<1>5. AsAsked' /\ LogoutLasts' /\ AppInformed'
  BY <1>1 DEF Inv, AsAsked, LogoutLasts, AppInformed
<1> QED BY <1>2, <1>3, <1>4, <1>5 DEF Inv

LEMMA InvHolds == Spec => []Inv
<1>1. WebInit => Inv
  BY InitInv
<1>2. Inv /\ [Next]_webVars => Inv'
  <2> SUFFICES ASSUME Inv, Next PROVE Inv'
    BY StutterKeepsInv
  <2>1. CASE UsersStep /\ UNCHANGED <<web, held, closed>>
    <3>1. ASSUME NEW p \in Request, Create(p) PROVE Inv'
      BY <2>1, <3>1, CreateStartKeepsInv, InsertKeepsInv DEF Create
    <3>2. ASSUME NEW p \in Request, Update(p) PROVE Inv'
      BY <2>1, <3>2, UpdateLoadKeepsInv, ClaimKeepsInv, SaveSelectKeepsInv,
         SaveWriteKeepsInv, NotifyKeepsInv DEF Update
    <3>3. ASSUME NEW p \in Request, Lookup(p) \/ NumberLookup(p) \/ Reply(p) PROVE Inv'
      BY <2>1, <3>3, LookupKeepsInv, NumberLookupKeepsInv, ReplyKeepsInv
    <3>4. ASSUME NEW p \in Request, BootCreate(p) PROVE Inv'
      BY <2>1, <3>4, BootCreateKeepsInv
    <3>5. CASE BootSkip
      BY <2>1, <3>5, BootSkipKeepsInv
    <3>6. ASSUME NEW u \in User, Remove(u) PROVE Inv'
      BY <2>1, <3>6, RemoveKeepsInv
    <3> QED BY <2>1, <3>1, <3>2, <3>3, <3>4, <3>5, <3>6 DEF UsersStep
  <2>2. ASSUME NEW q \in Client, WebCall(q) PROVE Inv'
    BY <2>2, WebLoginKeepsInv, WebRefreshKeepsInv, WebLogoutKeepsInv, WebStoreKeepsInv,
       WebReplyKeepsInv DEF WebCall
  <2>3. CASE Crash
    BY <2>3, CrashKeepsInv
  <2> QED BY <2>1, <2>2, <2>3 DEF Next
<1> QED BY <1>1, <1>2, PTL DEF Spec

-----------------------------------------------------------------------------
(* The theorems.                                                            *)

\* The rows, the handlers and the clients are well formed: no statement of create,
\* update, a login or a logout leaves a row with a value that is not the column's.
THEOREM AccountsTyped == Spec => []TypeOK
<1>1. Inv => TypeOK
  BY DEF Inv
<1> QED BY <1>1, InvHolds, PTL

\* A row is what the requests asked for, unless somebody wrote it while an update
\* held it: save() writes nothing that the body does not name.
THEOREM AlwaysAsAsked == Spec => []AsAsked
<1>1. Inv => AsAsked
  BY DEF Inv
<1> QED BY <1>1, InvHolds, PTL

\* A flag that changed is about to be signalled to the app.
THEOREM AppAlwaysInformed == Spec => []AppInformed
<1>1. Inv => AppInformed
  BY DEF Inv
<1> QED BY <1>1, InvHolds, PTL

\* A web logout lasts until the user logs in again.
THEOREM LogoutAlwaysLasts == Spec => []LogoutLasts
<1>1. Inv => LogoutLasts
  BY DEF Inv
<1> QED BY <1>1, InvHolds, PTL

\* How the row of u becomes another one.
Inserts(p, u) ==
    /\ handler[p].stage = "insert" /\ handler[p].user \in {None, u}
    /\ users[u] = None /\ users'[u] = handler[p].entity
    /\ handler'[p] # handler[p]
Claims(p, u) ==
    /\ handler[p].stage = "claim" /\ handler[p].user = u /\ users[u] # None
    /\ users'[u] = With(users[u], [employee_number |-> handler[p].entity["employee_number"]])
    /\ handler'[p] # handler[p]
Saves(p, u) ==
    /\ handler[p].stage = "write" /\ handler[p].user = u /\ users[u] # None
    /\ users'[u] = Written(users[u], handler[p].entity, handler[p].dirty)
    /\ handler'[p] # handler[p]
Hashes(u) ==
    /\ users[u] # None
    /\ \E b \in BOOLEAN : users'[u] = With(users[u], [refreshTokenHash |-> b])

LEMMA WriteOthers ==
    ASSUME Inv, NEW p, NEW w \in User, NEW new, NEW asked, Write(p, w, new, asked)
    PROVE  /\ overlapped \subseteq overlapped'
           /\ users'[w] = new
           /\ \A u \in User \ {w} : users'[u] = users[u]
  BY DEF Write, Inv, TypeOK, UsersTypeOK

LEMMA Rewrites ==
    ASSUME Inv, Next, NEW u \in User, users'[u] # users[u], users'[u] # None
    PROVE  /\ overlapped \subseteq overlapped'
           /\ \/ \E p \in Request : Inserts(p, u) \/ Claims(p, u) \/ Saves(p, u)
              \/ Hashes(u)
<1> DEFINE Goal == /\ overlapped \subseteq overlapped'
                   /\ \/ \E p \in Request : Inserts(p, u) \/ Claims(p, u) \/ Saves(p, u)
                      \/ Hashes(u)
<1>0. ~WritesNothing
  BY DEF WritesNothing
<1>1. ASSUME NEW p \in Request, NEW w \in User, Insert(p, w) PROVE Goal
  <2> DEFINE h == handler[p]
             k == IF h.user = None THEN Done ELSE Saved(h)
  <2>1. /\ h.stage = "insert" /\ h.user \in {None, w} /\ users[w] = None
        /\ Write(p, w, h.entity, h.entity) /\ Become(p, k)
    BY <1>0, <1>1 DEF Insert
  <2>2. w = u /\ overlapped \subseteq overlapped' /\ users'[u] = h.entity
    BY <2>1, WriteOthers
  <2>3. handler'[p] = k
    BY <2>1, Handlers DEF Become
  <2>4. k.stage # "insert"
    BY DEF Saved, Done, Idle
  <2> HIDE DEF k
  <2>5. handler'[p] # handler[p]
    BY <2>1, <2>3, <2>4
  <2> QED BY <2>1, <2>2, <2>5 DEF Inserts
<1>2. ASSUME NEW p \in Request, Claim(p) PROVE Goal
  <2> DEFINE h == handler[p]
             number == [employee_number |-> h.entity["employee_number"]]
  <2>1. /\ h.stage = "claim" /\ users[h.user] # None
        /\ Write(p, h.user, With(users[h.user], number), With(meant[h.user], number))
        /\ Become(p, [h EXCEPT !.stage = "select"])
    BY <1>0, <1>2 DEF Claim
  <2>2. h.user \in User
    BY <2>1, Handlers DEF HandlerOK, Holding
  <2> HIDE DEF number
  <2>3. h.user = u /\ overlapped \subseteq overlapped' /\ users'[u] = With(users[u], number)
    BY <2>1, <2>2, WriteOthers
  <2>4. handler'[p] = [h EXCEPT !.stage = "select"] /\ h \in Handler
    BY <2>1, Handlers DEF Become
  <2>5. handler'[p].stage = "select"
    BY <2>4 DEF Handler
  <2>6. handler'[p] # handler[p]
    BY <2>1, <2>5
  <2> QED BY <2>1, <2>3, <2>6 DEF Claims, number
<1>3. ASSUME NEW p \in Request, SaveWrite(p) PROVE Goal
  <2> DEFINE h == handler[p]
             new == Written(users[h.user], h.entity, h.dirty)
  <2>1. /\ h.stage = "write" /\ users[h.user] # None
        /\ Write(p, h.user, new, With(meant[h.user], Asking(h))) /\ Become(p, Saved(h))
    BY <1>0, <1>3 DEF SaveWrite
  <2>2. h.user \in User
    BY <2>1, Handlers DEF HandlerOK, Holding
  <2>3. h.user = u /\ overlapped \subseteq overlapped' /\ users'[u] = new
    BY <2>1, <2>2, WriteOthers
  <2>4. handler'[p] = Saved(h)
    BY <2>1, Handlers DEF Become
  <2>5. Saved(h).stage # "write"
    BY DEF Saved, Done, Idle
  <2>6. handler'[p] # handler[p]
    BY <2>1, <2>4, <2>5
  <2> QED BY <2>1, <2>3, <2>6 DEF Saves
<1>4. ASSUME NEW w \in User, NEW b \in BOOLEAN, users[w] # None, StoreHash(w, b) PROVE Goal
  <2> DEFINE column == [refreshTokenHash |-> b]
  <2>1. Write(None, w, With(users[w], column), With(meant[w], column))
    BY <1>4 DEF StoreHash
  <2> HIDE DEF column
  <2>2. w = u /\ overlapped \subseteq overlapped' /\ users'[u] = With(users[u], column)
    BY <2>1, WriteOthers
  <2> QED BY <1>4, <2>2 DEF Hashes, column
<1>5. ASSUME NEW w \in User, Remove(w) PROVE FALSE
  <2>1. Write(None, w, None, None)
    BY <1>5 DEF Remove
  <2> QED BY <2>1, WriteOthers
<1>6. ASSUME NEW q \in Client, WebCall(q) PROVE Goal
  <2>1. ASSUME NEW n, NEW w PROVE ~WebLogin(q, n, w)
    BY <1>0 DEF WebLogin
  <2>2. ASSUME NEW w \in User, WebLogout(q, w) PROVE Goal
    BY <1>0, <1>4, <2>2 DEF WebLogout
  <2>3. ASSUME WebStore(q) PROVE Goal
    <3>1. web[q].user \in User
      BY <2>3 DEF WebStore, Inv, WebOK
    <3> QED BY <1>0, <1>4, <2>3, <3>1 DEF WebStore
  <2>4. ~WebReply(q) /\ \A w \in User : ~WebRefresh(q, w)
    BY <1>0 DEF WebReply, WebRefresh
  <2> HIDE DEF Goal
  <2> QED BY <1>6, <2>1, <2>2, <2>3, <2>4 DEF WebCall
<1>7. ~Crash /\ ~BootSkip
  BY <1>0 DEF Crash, UsersCrash, BootSkip
<1>8. ASSUME NEW p \in Request PROVE ~Lookup(p) /\ ~NumberLookup(p) /\ ~Reply(p) /\ ~BootCreate(p)
                                     /\ ~SaveSelect(p) /\ ~Notify(p)
  BY <1>0 DEF Lookup, NumberLookup, Reply, BootCreate, SaveSelect, Notify
<1>9. ASSUME NEW p \in Request, NEW dto, NEW actor, NEW w
      PROVE  ~CreateStart(p, actor, dto) /\ ~UpdateLoad(p, w, actor, dto)
  BY <1>0 DEF CreateStart, UpdateLoad
<1> HIDE DEF Goal
<1>10. ASSUME UsersStep PROVE Goal
  <2>1. ASSUME NEW p \in Request, Create(p) PROVE Goal
    BY <1>1, <1>9, <2>1 DEF Create
  <2>2. ASSUME NEW p \in Request, Update(p) PROVE Goal
    BY <1>2, <1>3, <1>8, <1>9, <2>2 DEF Update
  <2> QED BY <1>5, <1>7, <1>8, <1>10, <2>1, <2>2 DEF UsersStep
<1>11. Goal
  BY <1>6, <1>7, <1>10 DEF Next
<1> QED BY <1>11 DEF Goal

LEMMA NumberStep ==
    ASSUME Inv, Next, NEW u \in User \ overlapped', users[u] # None, users'[u] # None,
           users[u]["employee_number"] \notin {None, users'[u]["employee_number"]}
    PROVE  \E p \in Request : /\ handler[p].user = u
                             /\ "employee_number" \in DOMAIN handler[p].dto
                             /\ handler'[p] # handler[p]
<1>1. /\ overlapped \subseteq overlapped'
      /\ (\E p \in Request : Inserts(p, u) \/ Claims(p, u) \/ Saves(p, u)) \/ Hashes(u)
  BY Rewrites
<1>2. users[u] \in Row
  BY DEF Inv, TypeOK, UsersTypeOK
<1>3. ASSUME NEW p \in Request PROVE ~Inserts(p, u)
  BY DEF Inserts
<1>4. ASSUME NEW p \in Request, Claims(p, u)
      PROVE  /\ handler[p].user = u /\ handler'[p] # handler[p]
             /\ "employee_number" \in DOMAIN handler[p].dto
  <2>1. /\ handler[p].stage = "claim" /\ handler[p].user = u /\ HandlerOK(p)
        /\ handler'[p] # handler[p]
    BY <1>4, Handlers DEF Claims
  <2>2. handler[p].entity # None
    BY <2>1, Nulls DEF HandlerOK, Holding, Working
  <2> QED BY <1>1, <2>1, <2>2 DEF HandlerOK, Current
<1>5. ASSUME NEW p \in Request, Saves(p, u)
      PROVE  /\ handler[p].user = u /\ handler'[p] # handler[p]
             /\ "employee_number" \in DOMAIN handler[p].dto
  <2>1. /\ handler[p].stage = "write" /\ handler[p].user = u
        /\ users'[u] = Written(users[u], handler[p].entity, handler[p].dirty)
        /\ handler'[p] # handler[p]
    BY <1>5 DEF Saves
  <2> QED BY <1>1, <2>1, SavedAsAsked, Columns
<1>6. ~Hashes(u)
  <2> SUFFICES ASSUME Hashes(u) PROVE FALSE
    OBVIOUS
  <2>1. PICK b \in BOOLEAN : users'[u] = With(users[u], [refreshTokenHash |-> b])
    BY DEF Hashes
  <2>2. users'[u]["employee_number"] = users[u]["employee_number"]
    BY <1>2, <2>1, HashTyped, Columns
  <2> QED BY <2>2
<1> QED BY <1>1, <1>3, <1>4, <1>5, <1>6

On(r) == r # None /\ r["dev_activity_bot"]

LEMMA BotStep ==
    ASSUME Inv, Next, NEW u \in User \ overlapped', ~On(users[u]), On(users'[u])
    PROVE  /\ botEnabled
           /\ \E p \in Request : /\ handler[p].stage \in {"insert", "write"}
                                 /\ handler'[p] # handler[p]
                                 /\ "super_admin" \in handler[p].actor
<1>1. users'[u] # users[u] /\ users'[u] # None
  BY DEF On
<1>2. /\ overlapped \subseteq overlapped'
      /\ (\E p \in Request : Inserts(p, u) \/ Claims(p, u) \/ Saves(p, u)) \/ Hashes(u)
  BY <1>1, Rewrites
<1>3. users[u] # None => users[u] \in Row /\ ~users[u]["dev_activity_bot"]
  BY DEF Inv, TypeOK, UsersTypeOK, On
<1>4. users'[u]["dev_activity_bot"]
  BY DEF On
<1>5. ASSUME NEW p \in Request, Inserts(p, u)
      PROVE  /\ botEnabled /\ handler[p].stage = "insert" /\ handler'[p] # handler[p]
             /\ "super_admin" \in handler[p].actor
  <2>1. /\ handler[p].stage = "insert" /\ handler[p].user \in {None, u} /\ HandlerOK(p)
        /\ handler[p].entity["dev_activity_bot"] /\ handler'[p] # handler[p]
    BY <1>4, <1>5, Handlers DEF Inserts
  <2>2. handler[p].entity # None
    BY <2>1, Nulls DEF HandlerOK, Holding, Working
  <2>3. handler[p].user = None
    BY <1>2, <2>1, <2>2 DEF HandlerOK, Current
  <2>4. AsksForBot(handler[p].dto)
    BY <2>1, <2>2, <2>3 DEF HandlerOK, Fresh
  <2> QED BY <2>1, <2>2, <2>4 DEF HandlerOK, Permitted
<1>6. ASSUME NEW p \in Request PROVE ~Claims(p, u)
  <2> SUFFICES ASSUME Claims(p, u) PROVE FALSE
    OBVIOUS
  <2> DEFINE n == handler[p].entity["employee_number"]
  <2>1. /\ handler[p].stage = "claim" /\ HandlerOK(p) /\ users[u] # None
        /\ users'[u] = With(users[u], [employee_number |-> n])
    BY Handlers DEF Claims
  <2>2. n \in Number \cup {None}
    <3>1. handler[p].entity \in Row
      BY <2>1 DEF HandlerOK, Holding, Working
    <3> QED BY <3>1, RowIff, Columns DEF ColumnType
  <2> HIDE DEF n
  <2>3. users'[u]["dev_activity_bot"] = users[u]["dev_activity_bot"]
    BY <1>3, <2>1, <2>2, NumberTyped, Columns
  <2> QED BY <1>3, <1>4, <2>1, <2>3
<1>7. ASSUME NEW p \in Request, Saves(p, u)
      PROVE  /\ botEnabled /\ handler[p].stage = "write" /\ handler'[p] # handler[p]
             /\ "super_admin" \in handler[p].actor
  <2> DEFINE h == handler[p]
             new == Written(users[u], h.entity, h.dirty)
  <2>1. /\ h.stage = "write" /\ h.user = u /\ HandlerOK(p) /\ users[u] # None
        /\ users'[u] = new /\ handler'[p] # handler[p] /\ h \in Handler
    BY <1>7, Handlers DEF Saves
  <2>2. /\ new = With(users[u], Asking(h))
        /\ \A c \in Column : new[c] # users[u][c] => c \in DOMAIN h.dto
    BY <1>2, <2>1, SavedAsAsked
  <2>3. h.entity \in Row
    BY <2>1 DEF HandlerOK, Holding, Working
  <2>4. /\ DOMAIN Asking(h) = DOMAIN h.dto
        /\ \A c \in DOMAIN h.dto :
              Asking(h)[c] = IF c = "employee_number" THEN h.entity[c] ELSE h.dto[c]
        /\ \A c \in DOMAIN Asking(h) : Asking(h)[c] \in ColumnType(c)
    BY <2>1, <2>3, AskingTyped
  <2>5. \A c \in Column : With(users[u], Asking(h))[c]
                            = IF c \in DOMAIN h.dto THEN Asking(h)[c] ELSE users[u][c]
    BY <1>3, <2>1, <2>4, WithTyped
  <2> HIDE DEF new
  <2>7. AsksForBot(h.dto)
    BY <1>3, <1>4, <2>1, <2>2, <2>4, <2>5, Columns DEF AsksForBot
  <2>6. h.entity # None
    BY <2>1, Nulls DEF HandlerOK, Holding, Working
  <2> QED BY <2>1, <2>6, <2>7 DEF HandlerOK, Permitted
<1>8. ~Hashes(u)
  <2> SUFFICES ASSUME Hashes(u) PROVE FALSE
    OBVIOUS
  <2>1. users[u] # None /\ \E b \in BOOLEAN : users'[u] = With(users[u], [refreshTokenHash |-> b])
    BY DEF Hashes
  <2>2. PICK b \in BOOLEAN : users'[u] = With(users[u], [refreshTokenHash |-> b])
    BY <2>1
  <2>3. users'[u]["dev_activity_bot"] = users[u]["dev_activity_bot"]
    BY <1>3, <2>1, <2>2, HashTyped, Columns
  <2> QED BY <1>3, <1>4, <2>1, <2>3
<1> QED BY <1>2, <1>5, <1>6, <1>7, <1>8

\* The employee number of an account is replaced or taken away only by an update
\* whose body names it, unless updates of the account overlap.
THEOREM NumberAlwaysKept == Spec => NumberKept
<1>1. Inv /\ [Next]_webVars =>
        [\A u \in User \ overlapped' :
            /\ users[u] # None /\ users'[u] # None
            /\ users[u]["employee_number"] \notin {None, users'[u]["employee_number"]}
            => \E p \in Request : /\ handler[p].user = u
                                  /\ "employee_number" \in DOMAIN handler[p].dto
                                  /\ handler'[p] # handler[p]]_userVars
  <2>1. UNCHANGED webVars => UNCHANGED userVars
    BY DEF webVars, userVars
  <2> QED BY <2>1, NumberStep
<1> QED BY <1>1, InvHolds, PTL DEF Spec, NumberKept

\* The test bot of an account is switched on only by a super administrator's
\* request, and while the running process has it enabled.
THEOREM BotAlwaysByPolicy == Spec => BotByPolicy
<1>1. Inv /\ [Next]_webVars =>
        [\A u \in User \ overlapped' :
            ~(users[u] # None /\ users[u]["dev_activity_bot"])
                    /\ (users'[u] # None /\ users'[u]["dev_activity_bot"])
            => /\ botEnabled
               /\ \E p \in Request : /\ handler[p].stage \in {"insert", "write"}
                                     /\ handler'[p] # handler[p]
                                     /\ "super_admin" \in handler[p].actor]_userVars
  <2>1. UNCHANGED webVars => UNCHANGED userVars
    BY DEF webVars, userVars
  <2> QED BY <2>1, BotStep DEF On
<1> QED BY <1>1, InvHolds, PTL DEF Spec, BotByPolicy
=============================================================================
