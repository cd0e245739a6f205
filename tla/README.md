# Verification of the NIO Auth API

TLA+ models of the NestJS server in `src/`, the TLC configurations that check
them, and TLAPS proofs of the properties that matter most. Every definition is
translated from the source; `PROJECT.json` maps it to the lines it stands for.

## 1. The system

One Node process with a PostgreSQL database. Handlers run one at a time between
two `await`s and overlap otherwise; what is kept in memory (presence, timers,
nonces, locks, failure counters) is lost when the process restarts.

| Component | State | Operations | Where it is hard |
| --- | --- | --- | --- |
| Electron sessions (`auth.service.ts`) | one row of `auth_sessions` per user, reused by every login | login, refresh, logout | several statements without a transaction, whole-entity saves over stale reads, lost answers, the window for the previous token |
| Web sessions | one hash in `users` | loginWeb, refresh, logout | the hash is a column of a row that others save whole |
| Login throttle | a map in memory | check, registerFailure, registerSuccess | attempts overlap between check and the verdict; sliding window and block |
| Devices registry, gateway | two maps in memory, the sockets | connect, shift and lunch messages, disconnect, kick | a socket may close during a lookup; sockets of a device end in any order |
| Handshakes | rows of `handshake_captures`, timers in memory | request, complete, fail, list, get, restart | answer against timeout, restart with pending rows |
| Local handshake | nonces in memory | issue, redeem, evaluate | single use, limits, a user with the app on several machines |
| Remote clock | users with a command under way | request, forced lunch back, forced screenshot | acks that never come or come late |
| Schedules | three tables | create, update, remove, history | concurrent writes, calendar arithmetic, log against table |
| Settings | one row | PUT, GET, broadcast | the order of announcements |
| Users, policies, bootstrap | `users`, `user_profiles` | create, update, remove, the first administrator | stale saves, check-then-insert, a row inserted again after its removal |
| JwtStrategy and guards, devices controller, sessions socket, migrations, shell | none of their own | | |

Interactions. A login revokes the session of the user's other device and kicks
its sockets (`disconnectSid`). The gateway admits a socket whose session is
active. Handshakes, remote clock, local handshake, users and settings ask the
registry who is connected and emit through it. `UsersService.update` saves the
whole row, the hash of the web session with it. A lunch command first consumes a
nonce of the local handshake. login and loginWeb go through the throttle.

What makes each component correct:

* Electron sessions: a revoked session has its date and no current token; only a
  login makes it active again; a client holds only tokens the row has held; the
  current token is the newest any client has, what is accepted besides it is the
  token that the last rotation replaced, and tokens older than one whose refresh was
  answered are never accepted again, so that a lost answer can be retried and a
  stolen copy is noticed.
* Web sessions: a logout lasts until the next login, whatever is done to the
  account meanwhile.
* Login throttle: whoever is blocked has failed often enough lately and is let in
  again in time; a window holds no more failures than the limit.
* Devices: both maps name the same presences; a late disconnect of an old socket
  takes nothing from the new one; who is connected can be reached, and on one
  device only, once a login has run by itself; who was told anything since the
  server started was told last what the registry says; every presence has an open
  socket (it does not always).
* Handshakes: each request ends, after its whole window at the earliest, and a
  timer or a restart never replaces an answer.
* Local handshake: a nonce passes once; the app that made it pass is connected on
  the machine of the tab (it is not always); nobody displaces the nonces of another
  user.
* Remote clock: the lock of a user is held by exactly one waiting handler; every
  lunch rests on a nonce of its own.
* Schedules: the schedules of a user are disjoint, their dates in their period;
  creating one uncovers no day; the log agrees with the table.
* Settings: connected devices go by the value that is stored.
* Users: a row is what the requests asked for; an employee number is given once,
  and only a body that names it replaces it; the app hears of each flag that
  changed; the test bot is switched on by whom the environment allows.

## 2. Modules

An `MC` module instantiates a module, or the one that composes it, for TLC; an
abstract one is checked with the module that implements it.

* `ElectronSessions`: the row of one user's session; handlers of login, refresh
  and logout go through `proc[p].stage`, one action per statement (a `findOne`,
  an `update`, a `save`). `issued`, `stored` and `delivered` are what was signed,
  what the row ever held and what a client received: they are history. A token
  is its number in the order of signing; the payload has no `jti` and its times are
  whole seconds, so `Sign` may return the token of the same second again. A hash is
  the token. A `save` reads the row again and updates the columns in which its
  entity differs (`SaveSelect`, `SaveUpdate`), which is how a stale entity undoes
  what others wrote. `Crash` drops a handler between two statements, `LoseReply` its
  answer.
* `TokenChain`: what the row of a session promises of its tokens: a current one,
  and at most one other, what the last rotation replaced. No token older than one
  that has been current becomes current again. The other one outlives a logout and
  a login, which leave the `prev` columns alone, so that it need not be the token
  right before the current one as the comments suggest (`auth.service.ts:30-33`,
  `380-382`). `ElectronSessions` implements the chain (`FollowsChain`) with its hash
  columns, when requests do not overlap.
* `DevicePresence`: the maps `byDevice`, `bySocket` with their presences, the
  connections and how far `handleConnection` is with each, the session the lookup
  finds, and `view`, the last `device:presence` a browser was sent. A restart sends
  nothing: `view` stays, and `told` (history) are the users sent one since. Logins
  and refreshes run in slots of `request`, and those of one user may overlap, for
  the code has no lock; `crossed` (history) are the users whose requests did.
  `late` is history: the sockets a login could not kick, because they were between
  the lookup of their session and their room, or their session had been logged out,
  and those that crossed requests leave on a device the session has left.
* `DevicePlaces`: what the registry promises, with one map instead of two: the place
  of a device, the open connections, and those that may still take a place.
  `DevicePresence` implements it (`FollowsPlaces`): the place of a device is the
  presence `getByDevice` finds, and a connection may take one until its session
  was looked up.
* `Handshakes`: rows, timers (`left`), ages since `requestedAt`, and one handler
  per request or timer callback, one step per query. `spoilt` is history: a query
  failed since the last `onModuleInit`.
* `LocalHandshake`: the map of nonces, a nonce with the number of its `issue`
  for the order of insertion; methods are synchronous, so one action each. The
  apps' logins and connections are the environment: a user may have the app on
  several machines, and a presence comes and goes by itself, since a logout
  disconnects no socket and a login misses those that are between lookup and room.
  A session keeps its id on every machine, so its `sid` says no more than the user.
  `tab`, the machine of the tab, is what the property speaks of; the code stores it
  nowhere.
* `RemoteClock` composes the command handlers with `LocalHandshake` (EXTENDS):
  its steps are those of the handshake, of the apps, and of the handlers. A handler
  leaves behind the nonce it consumed; an ack that comes after the timeout finds
  nobody, so ack and timeout are one action.
* `Schedules`: the tables, and transactions that begin, lock the user, decide
  and commit. `Decide` stores what will be written, `Commit` applies it: other
  transactions see nothing in between (READ COMMITTED).
* `Calendar`: what the schedules promise, as days: a schedule fills a period of its
  user's days, and a new one takes at most the end of one that began before.
  `Schedules` implements it (`FollowsCalendar`) by comparing the ends of periods.
* `LoginThrottle`: the map by key, the attempts between `check` and the verdict,
  and `failed`, the failures as they really happened (history). The service keeps
  a list of times and only asks how many are recent; the model keeps these answers,
  a tally `t` where `t[b]` failures are younger than `b` ticks, up to the age of a
  window and a block (`Horizon`).
* `Users`: the two tables as one row per user, and handlers of `create` and
  `update` with one action per query: the lookups before the write, the number
  that `update` writes by itself (`Claim`), the SELECT and the UPDATE of `save`.
  A body may set or empty the employee number, since the nested profile of the DTO
  is not validated (`create-user.dto.ts:90-92`) and `Object.assign` copies it whole;
  an emptied number is generated anew. `meant` is history: the row as the bodies of
  the requests ask for it; `overlapped` are the users somebody else wrote while an
  update held their row.
* `WebSessions` composes the web branches of `AuthService` with `Users`
  (EXTENDS): both write `refreshTokenHash`. `closed` is history: who logged out
  and has not logged in since.
* `Settings`: the row, the requests between their queries, and what each device
  goes by. `crossed` and `spoilt` are history: requests that overlapped another,
  and whether that, or a PUT that failed, has not been made up for.

The modules `...Proofs` each extend a module with its theorems.

## 3. Checks

Bounds are few and each is named in its module. The rest of every model is
finite because ages and windows saturate. No run checks a type invariant: each is
proved for every value of the constants (section 4).

| Run | Shows | Bounds, and why they are enough |
| --- | --- | --- |
| `sessions_serial` | `DeliveredWasStored`, `RevocationIsComplete`, `SpentStaysSpent`, `OnlyLoginReactivates`, and `FollowsChain` for requests that do not overlap, with crashes, lost answers and expiry | 2 devices, 4 tokens: login, refresh, retry with the previous token, and one more; the three windows in ticks, in their order |
| `presence_shared` | `MapsAgree`, `ConnectedIsKnown`, `LostOnlyWithItsSocket` | 2 users on a device, 3 sockets: an old one, a new one, and one being looked up; 1 login at a time |
| `presence_alone` | `IndicatorCurrent`, `OnePlace`, `FollowsPlaces` for a user whose devices nobody shares | 2 devices, 2 connections, 2 logins or refreshes at once: a login on one machine that overlaps one on the other, and a socket that either misses |
| `handshakes` | `ErrorMatchesStatus`, `PendingIsWatched`, `ResolvedStays`, `WindowRespected`, `EventuallyClosed` with overlapping answers, timers, restarts, failing queries | 1 capture, since no step reads or writes two (`expireStale` closes each by its own age); 3 handlers: request, two answers |
| `remote_clock` | `InFlightExact`, `LunchOncePerNonce`, `FewPerUser`, `DisplacedByOwn` | 2 users, 2 requests, 3 nonces, 2 per user: two requests for one user or with one nonce, and one nonce more than the limit; a nonce expires at the first tick |
| `schedules` | `NoOverlap`, `DatesInWindow`, `HistoryIsCurrent`, `CoverageKept`, `Serializable`, `FollowsCalendar` | 2 users, 3 transactions (a schedule, and two that write at once), 3 days, a week of 2 |
| `throttle` | `BlockedForCause`, `NothingForgotten`, `AtMostLimit`, `LockoutEnds` | 2 identifiers that share an address, limits 2 and 3, 2 attempts at once, a window and a block of 2 ticks, a purge from the second entry on: failures that leave the window one by one, while a block runs and after it |
| `accounts` | `AsAsked`, `AppInformed`, `LogoutLasts`, `NumberKept`, `BotByPolicy` over `WebSessions` with `Users` | 2 users, tables with none, one or both of them, 2 creations or updates at once, 1 web client: an update that another update, a removal or a logout meets; bodies that set a unique column and a flag, empty the number, or give another |
| `settings` | `AnnouncesNoOlder`, `InSync` | 2 devices, 2 requests, 3 PUTs: two that cross and one that makes up for them |

Three runs expect a violation. Each shows one disagreement of the code with what
its documentation says; `PROJECT.json` quotes them under `findings`:

* `logout_undone`: a refresh that overlaps a logout saves the session it loaded
  before and makes it active again.
* `ghost_presence`: a socket that closes while `handleConnection` waits for the
  session is registered after its `handleDisconnect`.
* `same_machine`: a nonce redeemed on one machine, whose app then disconnects, passes
  because the user's app is connected on another; `evaluate` finds any presence with
  the `sid`, and the `sid` is the same everywhere (`VerifiedIsLocal`).

Some properties have a side condition because the code promises no more:

* `ConnectedIsKnown` does not say that the device of an open socket is online: when the
  socket registered last closes first, the older one is without presence.
* `OnePlace` leaves out the sockets in `late`. `disconnectSid` reaches the room of
  the session only, a login after a logout kicks nobody, a logout itself disconnects
  no socket, and of two overlapping logins the last save decides where the session
  is, whichever kicked last. A login that runs by itself kicks what is left.
* `FollowsPlaces` lets a connection take a place after it closed, and keep it until
  the next one comes: that is what `ghost_presence` shows.
* `IndicatorCurrent` speaks of the users that this process has sent anything; a
  browser that was open when the server restarted shows what it was told before,
  until the app connects again. It is checked without shared devices: `set` tells
  the user who takes a device over, not the one who had it.
* `ResolvedStays` lets an answer that was under way replace another one;
  `loadOwned` and the UPDATE of `finish` are two steps. In which order their pushes
  reach the admin is not modelled.
* `InFlightExact` speaks of handlers: a command whose ack timed out may still be
  executed while the next one is sent.
* `DatesInWindow` is about variable schedules: a fixed one that `closePrevious`
  shortens keeps weekdays that no longer occur.
* `HistoryIsCurrent` takes the order of the commits; the endpoint sorts by
  `changed_at`, the time a transaction began.
* `AsAsked`, `NumberKept`, `BotByPolicy` and `AppInformed` say nothing of a user
  once two writers overlapped on the row: the entity that `update` saves is then
  older than the row. `LogoutLasts` counts the logouts that no handler in flight
  was about to undo.
* `NumberKept` allows the steps of a request whose body names the number.
* `NothingForgotten` and `AtMostLimit` have a slack for attempts that overlap,
  none when attempts run one at a time. `LoginThrottle` assumes that a block is
  no shorter than the window (they are equal in the code), since the failures that
  caused a shorter one would count again after it.
* `FollowsCalendar` and `Serializable` say which row changes and how, not when it is
  written to the log.
* `InSync` excludes requests that crossed and PUTs that failed between save and
  announcement, until a later PUT runs by itself: nothing in the code orders the
  announcements.
* `SpentStaysSpent` starts at a token whose refresh was answered, and `FollowsChain`
  allows a previous token from before a logout: `login` leaves it in the row.

Fairness. `Handshakes!FairSpec`: a handler whose query was answered goes on, a
due timer fires, time passes, and a stopped container is restarted
(docker-compose has `restart: always`). Nothing is asked of the devices or of
the queries, which may fail each time. `LoginThrottle!FairSpec`: time passes;
nothing is asked of the attempts. The other modules promise safety only.

## 4. Proofs

The theorems hold for every value of the constants, under the assumptions that
each module states about them. Each proof has an invariant with one lemma per
action of `Next`; the invariant is what is described below.

`ElectronSessionsProofs`, any number of overlapping requests:

* `TypeCorrect`. `TypeInv` adds to `TypeOK` what a handler holds at each stage
  (`HandlerOK`): a loaded row, a device, a token, and that the row it saves
  exists. Without it an UPDATE could write a property the entity lacks.
* `DeliveredStored`. `TokenInv` follows a token from its signature through the
  entity that is saved to the answer: a handler that holds a token to hand out either
  has its save still to do or has seen the row hold it (`TokensOK`).

The same module, under `OneAtATime`, that no two requests overlap; with two the
properties fail (`logout_undone`):

* `RevocationComplete`, `OnlyLoginReactivatesSerial`. `SerialInv` relates the
  entity a handler is about to save to the row: it is not stale, and each of the
  statements that a crash may cut off leaves the row as the property wants it.
* `CurrentNewest`, `SpentSpent`. No client holds a token newer than the current
  one; that of the same second is the same token. `OrderInv` says of each
  handler (`Ordered`) that the tokens it is about to save are those of the row, or
  one that is not older than any the row and the clients hold (`Newest`), and that
  the row holds nothing older than a token whose refresh it answers (`NotAfter`): a
  rotation never shifts the row back.
* `SessionImplementsChain`, that each step of the session is a step of `TokenChain`
  or none. `ChainInv` adds to the invariants above that the tokens a handler is
  about to store are not older than any the row has held.

`DevicePresenceProofs`, any number of users, devices and sockets:

* `PresenceTyped`, `MapsAlwaysAgree`, `LunchOnlyOnShift`. `IndInv` joins the
  agreement of the maps with what a socket under way has been given.
* `ConnectedStaysKnown`. `KnownInv` adds that a registered connection and its
  presence agree, and that whoever left the map had its device taken by a later
  presence.
* `OneDeviceAtATime`, for any number of logins and refreshes of a user at once.
  `PlaceInv` adds that a socket whose session was found, and which no login missed, is
  where the session is (`Placed`), and that a request which none has crossed is
  alone and finds the session as it left it (`Alone`).
* `PresenceLostWithItsSocket`, from the same invariant, one step per handler.
* `IndicatorStaysCurrent`, under `Unshared`, that no device is used by two users.
  `IndicatorInv` adds who owns a device, and that who was not `told` has no presence.
* `RegistryFollowsPlaces`: each handler is one step of `DevicePlaces` or none, by the
  agreement of the maps. `PlacesAreTakenOnce` is about the abstract module: from
  `FollowsPlaces` alone, a connection speaks for one device at most.

`SchedulesProofs`, any number of users, requests and dates:

* `SchedulesTyped`, `NeverOverlapping`, `DatesStayInWindow`. `Inv` adds that a
  transaction that has decided holds a plan that is still right (`Sound`): it was
  checked against the rows of its user, and nobody else writes those until it
  commits, because holders of the lock have different users (`Exclusive`) and
  new rows have new ids (`FreshPlans`).
* `CreationKeepsCoverage`, from `Inv`: a row appears by the commit of a plan that
  creates it, and what the row it closes no longer covers, the new one does.
* `LogIsCurrent`. `AllLogged` says of each schedule where its last revision is.
* `CommitsAsIfAlone`. `AllAllowed` adds that what a transaction will write is still
  what the rules allow on the rows as they are now; the lock of the user makes the
  transactions serializable in the order of their commits.
* `ServiceFollowsCalendar`, from the same invariant, step by step. The days a row
  fills are a `Span`; two spans share a day when the comparison of
  `assertNoOverlap` says so (`OverlapIsSharedDay`), and a closed one keeps its
  beginning (`ClosedSpan`). `CalendarKeepsDaysApart` is about the abstract module
  alone.
* `WeekIsEnough` and `EveryBlockHasADay`, about the rules: `weekdaysInRange` may stop
  after a week, since days a week apart have one weekday (`SameWeekday`), and so
  every block of a schedule that ends is due on some day.

`HandshakesProofs`, any number of captures and handlers, any window:

* `HandshakesTyped`, `ErrorAlwaysMatches`, `AlwaysWatched`. `Inv` adds what a
  handler holds at each stage (`Stages`): a capture with a row, and only `finish`
  an answer. That a pending row is watched is inductive by itself once timers
  belong to rows (`Timed`), because `spoilt` records the queries that fail.
* `AnswersStay` and `WindowAlwaysRespected`, one step per action. `Windows` says
  that what a timer has left and the age of its row make up the window, which
  `onModuleInit` restores from `requestedAt`.

`LoginThrottleProofs`, any number of keys and attempts, any limits and times:

* `TypesHold`, `BlockHasItsCause`, `OnlyOverlapIsForgotten`, `WindowHasItsLimit`.
  Every operation treats a key by itself, so the invariant is a relation between
  the entry of a key, its failures and the number of attempts under way with it
  (`Consistent`): the service's tally is part of the real one at every age
  (`Part`), and what failed since a block began, with what is still under way,
  are attempts that overlapped the one that caused it. A lemma per operation says
  that it keeps the relation (`Dropped` for the purge, `Fresh` for a block that is
  over, `OneMore` for an admission, `FailedConsistent` for a failure,
  `NothingConsistent` for a success, `LaterConsistent` for a tick).

The first part of `RemoteClockProofs`, about `LocalHandshake`, any number of users,
machines and nonces:

* `HandshakeTyped`, `FewPerUserAlways`, `DisplacedByOwnOnly`. `Inv` adds that the
  numbers of the nonces differ (`Numbered`), which makes the oldest one unique.

The second part, about `RemoteClock`:

* `ClockImplementsHandshake`: every step of the commands is one of the handshake,
  so that the invariants above hold of `RemoteClock` and are not proved again.
* `ClockTyped`, `LockIsExact`, `LunchOnce`. The invariant says that a nonce which a
  command rests on is gone from the map (`Rests`).

`SettingsProofs`, any number of devices, requests and PUTs:

* `SettingsTyped`, `AnnouncedIsNoOlder`, `DevicesInSync`. A request that crosses
  none runs alone (`Alone`), so what it read is still stored when it tells it
  (`Fresh`); only a PUT under way leaves the devices behind
  (`SyncedButForPuts`).

`WebSessionsProofs`, about `WebSessions` with `Users`, any number of users,
bodies, overlapping requests and restarts:

* `AccountsTyped`, `AlwaysAsAsked`, `AppAlwaysInformed`. `Inv` adds `Current`: unless
  the row is `overlapped`, the object an update holds is the row as it is now,
  changed by the body and perhaps a number still to be claimed. So what `save` writes is what the body names (`SavedAsAsked`).
* `LogoutAlwaysLasts`. `KeepsClosed` and `WebOK`: no object about to be saved, and
  no request about to store a hash, belongs to a session that was closed.
* `NumberAlwaysKept` and `BotAlwaysByPolicy` go by `Rewrites`, the four ways in
  which a row becomes another one. `NumberStep` says of each where its number comes
  from: the row, a number claimed for one that had none, or the body. `Permitted` and `Fresh` say that a handler with
  a body that asks for the bot passed the policies, and that nothing but the body
  asks for it.

TLC alone checks the liveness properties `EventuallyClosed` and `LockoutEnds`, which
TLAPS does not prove, and finds the three violations. Every other property of a run
is a theorem.

## 5. Abstractions

* `ElectronSessions`: a tick is many seconds, so `iat` and the windows of the code
  keep their order; the salt of `argon2.hash` is left out, since two hashes of one
  token verify alike; tokens that verify as foreign are not presented; the time
  of a rotation and of the last use are one instant (`argon2.hash` lies between
  them); the expiry of access tokens is left out of logout; refused requests
  that write nothing are left out; equal times of `connectedAt` do not occur.
* `DevicePresence`: the payloads of shift and lunch messages are Boolean;
  connections of browsers hold no presence. Emits are delivered at once. The save of
  a session is one step; its SELECT and UPDATE are in `ElectronSessions`.
* `Handshakes`: what the admin's screen shows is left out. `finish` clears the timer and writes the row in one step. A
  failed `emitToRoom` happens only before the server is up. A failing UPDATE of
  `markTimeout` is a rejection nobody handles, a `Crash`.
* `RemoteClock`: refusals of who the user is change nothing, and neither does what
  the app executes after its ack timed out. `status` and
  `notifyRecordsChanged` keep no state.
* `Schedules`: hours of the blocks; conflicts' wording; the row that is read
  again after the commit for the answer. That a started schedule may be removed
  is the service's decision (its comment says so); the 409 that the controller
  documents for it is never sent.
* `Users`: every user has a profile, and a row is both tables (a `SELECT` of the
  two is one step). Bodies are what the DTO classes admit, a set of columns with
  values of the columns' types; of the profile, which they do not validate, the
  columns of the model, and not its id; upper and lower case of external numbers is left out. The first
  query of a handler is taken with its arrival. A `DELETE` that the foreign key of
  `auth_sessions` refuses changes nothing. Reads are left out.
* `WebSessions`: bcrypt reads 72 bytes, and the refresh tokens of a user agree in
  them (the header and the id); each matches the hash of any other, so a hash is
  set or not.
* `LoginThrottle`: identifiers are what is left after trimming and lower case.
  Failures older than a window and a block are in no tally; the service counts them
  nowhere.
* `Settings`: a value is the number of its PUT; invalid values are refused.

## 6. Plan

In order of importance.

1. `RefreshClient`: the client that retries, with `ElectronSessions`: one lost
   answer is survived, and it ends with a session or at the login.
2. The cooldown of the ping in `Handshakes`; `online` and `hello` of the devices
   controller, which join the registry with the sessions table.
3. The rest of `schedule-rules.ts` against reference definitions (`resolveWindow`,
   `normalizeDays`).
4. An abstract account for `Users` and `WebSessions`, in the manner of `TokenChain`.
