-------------------------------- MODULE Users --------------------------------
(***************************************************************************)
(* Accounts: the tables users and user_profiles, joined into one row per    *)
(* user, and the handlers of UsersService that write them.                 *)
(*                                                                         *)
(* A handler is a sequence of steps, one per await.  update() loads the    *)
(* whole row, changes the object through several queries, and gives it to  *)
(* repo.save, which reads the row again and writes the columns in which    *)
(* the object differs (as in ElectronSessions).  A row that is gone by     *)
(* then is inserted: save takes the object for a new one.                  *)
(*                                                                         *)
(* The unique indexes are the database's; what the code does with their    *)
(* violations is modelled.                                                 *)
(***************************************************************************)
EXTENDS Naturals, Sequences

CONSTANTS
    User,           \* ids; one is drawn per creation and never again
    Request,        \* slots for the handlers in flight
    Number,         \* employee numbers, generated or given by a body
    Tables,         \* tables the server may start on
    Admin,          \* what the bootstrap creates
    Registrations,  \* bodies of POST /users
    Changes,        \* bodies of PATCH /users/:id
    Roles,          \* values of the column roles, sets of roles
    Email, Name, External, Password,   \* values of the other columns
    None,           \* SQL NULL
    MaxRequests     \* bound: creations and updates begun

VARIABLES
    users,       \* users[u]: the row of u, or None
    born,        \* the ids drawn so far
    handler,     \* handler[p]: the request in slot p
    botEnabled,  \* DEV_ACTIVITY_BOT of the running process
    served,      \* creations and updates begun
    booting,     \* onApplicationBootstrap is not done: nothing is served yet
    meant,       \* meant[u]: the row by what the requests asked (history)
    overlapped,  \* users written while another update held their row (history)
    behind       \* users whose app was not told of the last change (history)

userVars == <<users, born, handler, botEnabled, booting, served, meant, overlapped,
              behind>>

-----------------------------------------------------------------------------
(* Data.                                                                    *)

Flag == {"activity_linked", "dev_activity_bot", "devtools_enabled"}
UniqueColumn == {"email", "userName", "employee_number", "external_employee_number"}
Column == UniqueColumn \cup Flag
            \cup {"password", "roles", "isActive", "refreshTokenHash", "fullName"}

\* bcrypt hashes: of a password, its text; of a refresh token, that there is one.
\* fullName says that first and last name are filled in.
Row == [email: Email \cup {None},
        userName: Name \cup {None},
        employee_number: Number \cup {None},
        external_employee_number: External \cup {None},
        activity_linked: BOOLEAN,
        dev_activity_bot: BOOLEAN,
        devtools_enabled: BOOLEAN,
        password: Password,
        roles: Roles,
        isActive: BOOLEAN,
        refreshTokenHash: BOOLEAN,
        fullName: BOOLEAN]

\* A body names the columns it sets.  Nothing validates its nested profile: what
\* it says of the employee number is taken as it comes.
InRow(dto, c) ==
    CASE c = "email" -> dto[c] \in Email
      [] c = "userName" -> dto[c] \in Name \cup {None}
      [] c = "employee_number" -> dto[c] \in Number \cup {None}
      [] c = "external_employee_number" -> dto[c] \in External \cup {None}
      [] c = "password" -> dto[c] \in Password
      [] c = "roles" -> dto[c] \in Roles
      [] c \in Flag \cup {"isActive", "fullName"} -> dto[c] \in BOOLEAN
      [] OTHER -> FALSE
Body(dto) == \A c \in DOMAIN dto : InRow(dto, c)

Taken(table, c, v, u) ==
    \E w \in User \ {u} : table[w] # None /\ table[w][c] = v

\* The unique indexes hold of a table.
Indexed(table) ==
    \A u \in User : table[u] # None =>
        \A c \in UniqueColumn :
            table[u][c] # None => ~Taken(table, c, table[u][c], u)

ASSUME AccountsAssumption ==
    /\ \A dto \in Registrations \cup Changes \cup {Admin} : Body(dto)
    /\ \A dto \in Registrations \cup {Admin} : "password" \in DOMAIN dto
    /\ DOMAIN Admin \cap Flag = {}
    /\ \A table \in Tables : table \in [User -> Row \cup {None}] /\ Indexed(table)
    /\ {"customer"} \in Roles
    /\ \A roles \in Roles : roles \subseteq {"super_admin", "admin", "employee", "customer"}
    /\ MaxRequests \in Nat
    /\ None \notin User \cup Request \cup Row \cup Email \cup Name \cup Number \cup External

Stage == {"idle", "lookup", "insert", "claim", "select", "write", "notify", "done"}

Handler ==
    [stage: Stage,
     user: User \cup {None},      \* the user that is changed
     dto: Registrations \cup Changes \cup {Admin, <<>>},
     actor: Roles,                \* the roles in the caller's token
     entity: Row \cup {None},     \* the object in memory
     lookups: Seq(UniqueColumn),  \* the columns still to be looked up
     dirty: SUBSET Column]        \* what the pending UPDATE writes

Idle == [stage |-> "idle", user |-> None, dto |-> <<>>, actor |-> {"customer"},
         entity |-> None, lookups |-> <<>>, dirty |-> {}]

UsersTypeOK ==
    /\ users \in [User -> Row \cup {None}]
    /\ born \subseteq User
    /\ handler \in [Request -> Handler]
    /\ botEnabled \in BOOLEAN
    /\ booting \in BOOLEAN
    /\ served \in Nat
    /\ meant \in [User -> Row \cup {None}]
    /\ overlapped \subseteq User
    /\ behind \subseteq User

UsersInit ==
    /\ users \in Tables
    /\ born = {u \in User : users[u] # None}
    /\ handler = [p \in Request |-> Idle]
    /\ botEnabled \in BOOLEAN
    /\ booting = TRUE
    /\ served = 0
    /\ meant = users
    /\ overlapped = {}
    /\ behind = {}

-----------------------------------------------------------------------------
(* Helpers.                                                                 *)

Become(p, h) == handler' = [handler EXCEPT ![p] = h]

\* An answer, perhaps an error; what the handler held in memory is garbage.
Done == [Idle EXCEPT !.stage = "done"]

\* An update that has loaded u and not saved it yet.
Holds(p, u) == handler[p].user = u /\ handler[p].entity # None

\* A statement of slot p, or of another service (p = None), leaves the row of u
\* as new; asked is that row by what the requests asked for.  Once a row is
\* overlapped nothing is said of it any more.
Write(p, u, new, asked) ==
    LET Crossed == u \in overlapped \/ \E q \in Request \ {p} : Holds(q, u) IN
    /\ users' = [users EXCEPT ![u] = new]
    /\ overlapped' = IF Crossed THEN overlapped \cup {u} ELSE overlapped
    /\ meant' = [meant EXCEPT ![u] = IF Crossed THEN None ELSE asked]

WritesNothing == UNCHANGED <<users, overlapped, meant>>

\* A request to create or change a user is taken up in slot p.
Begins(p) ==
    /\ ~booting
    /\ handler[p].stage = "idle"
    /\ served < MaxRequests
    /\ served' = served + 1

\* The columns in the domain of change replaced.
With(row, change) == [c \in Column |-> IF c \in DOMAIN change THEN change[c] ELSE row[c]]

\* Mutant: a PATCH without isActive activates, as a POST does.
AssignedActivating(e, dto) == With([e EXCEPT !["isActive"] = TRUE], dto)

\* The assignments of update(): only what the body names.
Assigned(e, dto) == With(e, dto)

\* The object create() builds from the body and the defaults of the columns.
Created(dto) ==
    With([email |-> None, userName |-> None, employee_number |-> None,
          external_employee_number |-> None, activity_linked |-> FALSE,
          dev_activity_bot |-> FALSE, devtools_enabled |-> FALSE,
          password |-> dto["password"], roles |-> {"customer"}, isActive |-> TRUE,
          refreshTokenHash |-> FALSE, fullName |-> FALSE], dto)

Differs(r, e) == {c \in Column : e[c] # r[c]}
Written(r, e, cs) == [c \in Column |-> IF c \in cs THEN e[c] ELSE r[c]]

\* A row that the unique indexes refuse.
Conflicts(u, row) ==
    \E c \in UniqueColumn : row[c] # None /\ Taken(users, c, row[c], u)

-----------------------------------------------------------------------------
(* The policies of the two diagnostic flags, checked by the controller.     *)

\* Mutant: only switching the bot on is checked.
BotChangeAllowedLax(actor, dto) ==
    "dev_activity_bot" \in DOMAIN dto /\ dto["dev_activity_bot"] =>
        "super_admin" \in actor

BotChangeAllowed(actor, dto) ==
    "dev_activity_bot" \in DOMAIN dto =>
        /\ dto["dev_activity_bot"] => botEnabled
        /\ "super_admin" \in actor

DevtoolsChangeAllowed(actor, dto) ==
    "devtools_enabled" \in DOMAIN dto => actor \cap {"super_admin", "admin"} # {}

Allowed(actor, dto) == BotChangeAllowed(actor, dto) /\ DevtoolsChangeAllowed(actor, dto)

-----------------------------------------------------------------------------
(* The lookups before a write: each is a query of its own.                  *)

Optional(b, c) == IF b THEN <<c>> ELSE <<>>

\* The body names a value for c, other than the one in e.
Names(dto, e, c) == c \in DOMAIN dto /\ dto[c] \notin {None, e[c]}

\* Mutant: a number is generated whenever the name is complete.
LookupsOfUpdateAlways(e, dto) ==
    Optional(Names(dto, e, "email"), "email")
        \o Optional(Names(dto, e, "userName"), "userName")
        \o Optional(Assigned(e, dto)["fullName"], "employee_number")

\* A number is generated for whoever has none, once the name is complete.  One
\* that the body gives is looked up nowhere.
LookupsOfUpdate(e, dto) ==
    LET row == Assigned(e, dto) IN
    Optional(Names(dto, e, "email"), "email")
        \o Optional(Names(dto, e, "userName"), "userName")
        \o Optional("external_employee_number" \in DOMAIN dto
                        /\ dto["external_employee_number"] # None,
                    "external_employee_number")
        \o Optional(row["employee_number"] = None /\ row["fullName"], "employee_number")

LookupsOfCreate(dto) ==
    LET blank == [c \in Column |-> None] IN
    Optional(Names(dto, blank, "email"), "email")
        \o Optional(Names(dto, blank, "userName"), "userName")
        \o <<"employee_number">>
        \o Optional(Names(dto, blank, "external_employee_number"),
                    "external_employee_number")

\* Where a handler goes on when its lookups are over.
LookedUp(h) ==
    [h EXCEPT !.stage = IF h.lookups # <<>> THEN "lookup"
                        ELSE IF h.user = None THEN "insert" ELSE "select"]

\* Email, user name or external number; only the last excludes the user itself.
Lookup(p) ==
    LET h == handler[p]
        c == Head(h.lookups)
        self == IF c = "external_employee_number" THEN h.user ELSE None
    IN
    /\ h.stage = "lookup"
    /\ c # "employee_number"
    /\ \/ /\ Taken(users, c, h.entity[c], self)
          /\ Become(p, Done)
       \/ /\ ~Taken(users, c, h.entity[c], self)
          /\ Become(p, LookedUp([h EXCEPT !.lookups = Tail(@)]))
    /\ WritesNothing
    /\ UNCHANGED <<born, botEnabled, booting, served, behind>>

Free(n) == ~Taken(users, "employee_number", n, None)

\* generateUniqueEmployeeNumber: the last candidate is free, or all ten were
\* taken.  update() writes the number at once, create() with the rest.
NumberLookup(p) ==
    LET h == handler[p] IN
    /\ h.stage = "lookup"
    /\ Head(h.lookups) = "employee_number"
    /\ \E n \in Number :
        \/ /\ Free(n)
           /\ LET numbered == [h EXCEPT !.lookups = Tail(@),
                                        !.entity = With(@, [employee_number |-> n])]
              IN  Become(p, IF h.user = None THEN LookedUp(numbered)
                            ELSE [numbered EXCEPT !.stage = "claim"])
        \/ /\ ~Free(n)
           /\ Become(p, Done)
    /\ WritesNothing
    /\ UNCHANGED <<born, botEnabled, booting, served, behind>>

\* Mutant: the app is only told of flags that are switched on.
SignalledOn(dto) == \E f \in DOMAIN dto \cap Flag : dto[f]

\* The app of the user is told of each flag in the body.
Signalled(dto) == DOMAIN dto \cap Flag # {}

\* save() has resolved.
Saved(h) ==
    IF Signalled(h.dto) THEN [Idle EXCEPT !.stage = "notify", !.user = h.user]
    ELSE Done

-----------------------------------------------------------------------------
(* create().                                                                *)

Registered(actor, dto) ==
    LookedUp([Idle EXCEPT !.dto = dto, !.actor = actor, !.entity = Created(dto),
                          !.lookups = LookupsOfCreate(dto)])

CreateStart(p, actor, dto) ==
    /\ Begins(p)
    /\ Allowed(actor, dto)
    /\ Become(p, Registered(actor, dto))
    /\ WritesNothing
    /\ UNCHANGED <<born, botEnabled, booting, behind>>

\* The transaction of create(), or of a save() that found no row.  A unique
\* index, or the primary key, may refuse the row: the transaction is rolled back,
\* and the answer is 400 or 500.
Insert(p, u) ==
    LET h == handler[p] IN
    /\ h.stage = "insert"
    /\ IF h.user = None THEN u \notin born ELSE u = h.user
    /\ \/ /\ users[u] = None
          /\ ~Conflicts(u, h.entity)
          /\ Write(p, u, h.entity, h.entity)
          /\ Become(p, IF h.user = None THEN Done ELSE Saved(h))
          /\ born' = born \cup {u}
       \/ /\ users[u] # None \/ Conflicts(u, h.entity)
          /\ Become(p, Done)
          /\ WritesNothing
          /\ UNCHANGED born
    /\ UNCHANGED <<botEnabled, booting, served, behind>>

-----------------------------------------------------------------------------
(* update() and remove().                                                   *)

\* The row as it is now, and what the body makes of it in memory.
UpdateLoad(p, u, actor, dto) ==
    LET row == users[u]
        h == [Idle EXCEPT !.user = u, !.actor = actor, !.dto = dto]
    IN
    /\ Begins(p)
    /\ Allowed(actor, dto)
    /\ \/ /\ row = None
          /\ Become(p, Done)
       \/ /\ row # None
          /\ Become(p, LookedUp([h EXCEPT !.entity = Assigned(row, dto),
                                          !.lookups = LookupsOfUpdate(row, dto)]))
    /\ WritesNothing
    /\ UNCHANGED <<born, botEnabled, booting, behind>>

\* profileRepo.update of the number alone, before the save.
Claim(p) ==
    LET h == handler[p]
        u == h.user
        number == [employee_number |-> h.entity["employee_number"]]
    IN
    /\ h.stage = "claim"
    /\ \/ /\ users[u] # None
          /\ Free(number.employee_number)
          /\ Write(p, u, With(users[u], number), With(meant[u], number))
          /\ Become(p, [h EXCEPT !.stage = "select"])
       \/ /\ users[u] # None
          /\ ~Free(number.employee_number)
          /\ Become(p, Done)
          /\ WritesNothing
       \/ /\ users[u] = None
          /\ Become(p, [h EXCEPT !.stage = "select"])
          /\ WritesNothing
    /\ UNCHANGED <<born, botEnabled, booting, served, behind>>

SaveSelect(p) ==
    LET h == handler[p]
        row == users[h.user]
    IN
    /\ h.stage = "select"
    /\ Become(p, IF row = None THEN [h EXCEPT !.stage = "insert"]
                 ELSE [h EXCEPT !.stage = "write", !.dirty = Differs(row, h.entity)])
    /\ WritesNothing
    /\ UNCHANGED <<born, botEnabled, booting, served, behind>>

\* The columns of the body; a number that it empties may be generated anew.
Asking(h) ==
    [c \in DOMAIN h.dto |-> IF c = "employee_number" THEN h.entity[c] ELSE h.dto[c]]

\* The transaction of save(): both tables, or neither.
SaveWrite(p) ==
    LET h == handler[p]
        u == h.user
        new == Written(users[u], h.entity, h.dirty)
    IN
    /\ h.stage = "write"
    /\ \/ /\ users[u] # None
          /\ ~Conflicts(u, new)
          /\ Write(p, u, new, With(meant[u], Asking(h)))
          /\ behind' = IF \E f \in Flag : new[f] # users[u][f] THEN behind \cup {u} ELSE behind
          /\ Become(p, Saved(h))
       \/ /\ users[u] # None
          /\ Conflicts(u, new)
          /\ Become(p, Done)
          /\ WritesNothing
          /\ UNCHANGED behind
       \/ /\ users[u] = None
          /\ Become(p, Saved(h))
          /\ WritesNothing
          /\ UNCHANGED behind
    /\ UNCHANGED <<born, botEnabled, booting, served>>

\* notifyUser 'profile:linked': the app reads its profile again.
Notify(p) ==
    LET h == handler[p] IN
    /\ h.stage = "notify"
    /\ behind' = behind \ {h.user}
    /\ Become(p, Done)
    /\ WritesNothing
    /\ UNCHANGED <<born, botEnabled, booting, served>>

\* DELETE, with the profile; a user with a row in auth_sessions is refused.
Remove(u) ==
    /\ ~booting
    /\ users[u] # None
    /\ Write(None, u, None, None)
    /\ UNCHANGED <<born, handler, botEnabled, booting, served, behind>>

-----------------------------------------------------------------------------
(* The answer, the start of the process, its end.                           *)

Reply(p) ==
    /\ handler[p].stage = "done"
    /\ Become(p, Idle)
    /\ booting' = FALSE
    /\ WritesNothing
    /\ UNCHANGED <<born, botEnabled, served, behind>>

\* onApplicationBootstrap creates the first administrator when there is nobody.
BootCreate(p) ==
    /\ booting
    /\ \A q \in Request : handler[q].stage = "idle"
    /\ \A u \in User : users[u] = None
    /\ Become(p, Registered({"customer"}, Admin))
    /\ WritesNothing
    /\ UNCHANGED <<born, botEnabled, booting, served, behind>>

\* It is not asked to, or there are users.
BootSkip ==
    /\ booting
    /\ \A q \in Request : handler[q].stage = "idle"
    /\ booting' = FALSE
    /\ WritesNothing
    /\ UNCHANGED <<born, handler, botEnabled, served, behind>>

\* The process ends and starts again, perhaps with another environment; the
\* apps lose their connection, and read their profile when they are back.
UsersCrash ==
    /\ handler' = [p \in Request |-> Idle]
    /\ botEnabled' \in BOOLEAN
    /\ booting' = TRUE
    /\ behind' = {}
    /\ WritesNothing
    /\ UNCHANGED <<born, served>>

\* Only the policies of the flags look at the caller's roles.
Callers(dto) == IF DOMAIN dto \cap Flag = {} THEN {{"customer"}} ELSE Roles

Create(p) ==
    \/ \E dto \in Registrations : \E actor \in Callers(dto) : CreateStart(p, actor, dto)
    \/ \E u \in User : Insert(p, u)
Update(p) ==
    \/ \E u \in User, dto \in Changes : \E actor \in Callers(dto) :
            UpdateLoad(p, u, actor, dto)
    \/ Claim(p) \/ SaveSelect(p) \/ SaveWrite(p) \/ Notify(p)

UsersStep ==
    \/ \E p \in Request : Create(p) \/ Update(p) \/ Lookup(p) \/ NumberLookup(p) \/ Reply(p)
    \/ \E p \in Request : BootCreate(p)
    \/ BootSkip
    \/ \E u \in User : Remove(u)

-----------------------------------------------------------------------------
(* Properties.                                                              *)

\* A row is what the requests asked for, each changing only the columns of its
\* body: update() saves a whole object that is older than the row, and a change
\* by somebody else (a login, a logout, a deactivation, a removal) is undone
\* only where it came between the load and the save of an update of that user.
AsAsked == \A u \in User \ overlapped : users[u] = meant[u]

\* The employee number, with which people log in, is given once: an update that
\* says nothing of it neither takes it away nor generates another, after a save
\* that was refused once the number was written too; only a body that names the
\* number, or updates of the user that overlap, replace it.
NumberKept ==
    [][\A u \in User \ overlapped' :
        /\ users[u] # None /\ users'[u] # None
        /\ users[u]["employee_number"] \notin {None, users'[u]["employee_number"]}
        => \E p \in Request : /\ handler[p].user = u
                              /\ "employee_number" \in DOMAIN handler[p].dto
                              /\ handler'[p] # handler[p]]_userVars

\* A flag that changed is about to be signalled to the app of the user, after
\* the row is stored: an app that reads its profile at the signal is up to date.
AppInformed ==
    \A u \in behind \ overlapped :
        \E p \in Request : handler[p].stage = "notify" /\ handler[p].user = u

\* A row gets the test bot only from a super administrator and only while the
\* environment has it enabled, whatever was stored under an earlier environment.
BotByPolicy ==
    [][\A u \in User \ overlapped' :
        LET On(table) == table[u] # None /\ table[u]["dev_activity_bot"] IN
        ~On(users) /\ On(users')
            => /\ botEnabled
               /\ \E p \in Request : /\ handler[p].stage \in {"insert", "write"}
                                     /\ handler'[p] # handler[p]
                                     /\ "super_admin" \in handler[p].actor]_userVars
=============================================================================
