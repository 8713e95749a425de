# TLA+ models of IM-system

IM-system is a chat server in Go. One process serves TCP clients (`internal/server/user.go`,
`server.go`), WebSocket and HTTP clients (`wss.go`, `web.go`), keeps accounts, groups,
friends and messages in SQLite (`internal/db/db.go`), and can share sessions and public
messages with other processes through Redis (`redis_session.go`, `redis_bus.go`). This
directory holds TLA+ models of its concurrent core, TLC configurations that check them on
small instances, and TLAPS proofs of the main results for every instance.

Run a configuration with `tlc -config X.cfg MCY`, check the proofs with `tlapm YProofs.tla`.

## 1. Inventory

| Part | State | Operations | Hard because |
|---|---|---|---|
| TCP users (`user.go`, `Handler`, `fanoutTCP`, `RenameUser`) | `OnlineMap` under `mapLock`; per user `Name`, `IsAuthenticated`, queue `C` (100), `conn` | accept, login, register, rename, who, private, group, public, idle kick, `Offline` | three goroutines per connection; the map and the user are updated in separate critical sections; the idle timer fires at any time; the queue is closed while others send; a panic ends the process or, in a request handler, leaves a lock taken |
| WebSocket clients (`wss.go`, `RenameWSClient`, login, logout, rename in `web.go`) | `WSConns` under `wsLock`; per client `Name`, queue, context | authenticate, evict, add, read, deferred remove, rename | evict and add are two steps; the deferred removal goes by name; a rename is three steps |
| Delivery (`broadcastPublic`, `broadcastToGroup`, `sendPrivate`, bus receiver, `RedisMessageBus`) | table `messages`, the queues, Redis Pub/Sub | save, fan out to TCP, fan out to WebSockets, publish, receive | recipients are looked up by name, while connections come, go and are renamed; queues overflow; Redis echoes, delays, repeats and loses |
| Session stores (`bus.go`, `redis_session.go`) | token -> user, expiry | create, look up, rename, delete, clean up | lazy expiry against a cleaner; non-atomic update in Redis |
| Rate limiter (`ratelimit.go`) | address -> count, end of window | `Allow` | boundaries of windows; clean-up by other addresses |
| Storage, groups and friends (`db.go`, `handleGroup`, `handleFriend`) | tables `groups`, `group_members`, `friends` | create, join, invite, leave, kick, add, remove | several statements per request, with and without transaction; failures and crashes in between |
| Storage, users and messages | tables `users`, `messages` | register, profile, search, history pages | pages cut by id and ordered by time, while messages are saved |
| Start-up and shutdown (`main.go`, `Start`, `StartWeb`, `Shutdown`) | the two listener fields, context, wait group | listen, serve, signal, close, wait | the fields are shared without a lock; a signal may come at any point of the start-up |
| TCP-to-HTTP gateway (`cmd/web/main.go`) | sessions; per session a channel of 256 lines | connect, send, poll, close, reader goroutine | polls compete for the channel; the reader blocks on a full one; two ways to end |
| Command line client (`cmd/client/main.go`) | logged in or not, buffered input | login, register, menu commands | answers and broadcasts share one stream |
| HTTP API, avatars, configuration, front end `web/` | mostly none of their own | | see "Not modelled" |

The parts meet in three places: a reader or request handler calls the delivery functions,
which walk over `OnlineMap` and `WSConns`; HTTP handlers work on sessions and `WSConns`;
and everything is saved through one SQLite handle. What makes each part correct is the list
of properties in section 3. `PROJECT.json` lists the hazards, each with its line.

## 2. Modules

A step of a model is one critical section, one channel operation, one SQL statement or one
Redis command, together with the local statements around it. Message texts, formatting and
logging are left out. Names follow the code.

| Module | Models | Checked by | Proofs |
|---|---|---|---|
| `TcpUsers` | `Handler` (`hpc`), reader with `DoMessage` (`rpc`), `ListenMessage` (`lpc`) of each connection; `Offline` as the statement it has reached (`off`) | `TcpUsers.cfg`, `TcpUsersLive.cfg` | `TcpUsersProofs` |
| `WsClients` | `handleWebSocket` of each connection (`pc`) and `handleRename` of each request (`rpc`), login and logout, `WSConns`, sessions | `WsClients.cfg` | `WsClientsProofs` |
| `Delivery` | each message's way through its sender's handler (`pc`), the queues (`received`, `dropped`), the history (`saved`) and the bus, on several servers, with names that change (`name`) | `Delivery.cfg`, `DeliveryClaims.cfg` | `DeliveryProofs` |
| `Sessions` | the abstract store: what the interface `SessionStore` promises | | |
| `MemorySessions` | `MemorySessionStore` and the cleaner goroutine | `MemorySessions.cfg`, `SessionRenewal.cfg` | `MemorySessionsProofs` |
| `RedisSessions` | `RedisSessionStore`: one step per Redis command, several servers, failing commands, expiry | `RedisSessions.cfg` | `RedisSessionsProofs` |
| `RateLimiter` | `rateLimiter.Allow` | `WebApi.cfg` | `ApiProofs` |
| `Storage` | group and friend requests of `db.go`, statement by statement, with the single write lock of SQLite | `Storage.cfg` | `StorageProofs` |
| `History` | `handleHistory` with the three page queries, `SaveMessage` and the clock | `WebApi.cfg` | `ApiProofs` |
| `Lifecycle` | `main`, `Start`, `StartWeb`, the background goroutine and `Shutdown`, one access to a shared field per step | `Processes.cfg` | `ProcessProofs` |
| `Gateway` | `cmd/web`: sessions, `readTCPToChannel` (`rpc`), each `handlePoll` (`poll`), the chat server as its environment | `Processes.cfg` | `ProcessProofs` |
| `CliClient` | `cmd/client` (`pc`) and what the server does on its connection | `CliClient.cfg` | |

Each `MC` module gives the constants of its module small values; `CliClient` has only numbers
for constants and needs none. `MCWebApi` holds `RateLimiter` and `History`, `MCProcesses` holds
`Lifecycle` and `Gateway`: the two parts of a pair share no state, and each behaviour of the
run moves one of them. Operators that a comment calls
a *mutant* are wrong on purpose: each replaces the definition below it to show that the
property it aims at would notice that mistake. No action uses them.

`ApiProofs` and `ProcessProofs` hold the proofs of two components each. So that one module can
extend both, the specification of `RateLimiter` is called `LimiterSpec` (with `LimiterInit`,
`LimiterNext`, `limiterVars`) and that of `Gateway` `GatewaySpec`; all the others are `Spec`.

Points of correspondence worth knowing:

* **TcpUsers.** `len[c]` is the length of `u.C`; `closed[c]` that it is closed. `SendMsg`
  recovers from a send on a closed channel, `fanoutTCP` does not. What that panic does depends
  on the goroutine: in `Handler`, in the reader and in the bus receiver nothing recovers it and
  the process is gone (`crashed`, after which nothing happens); in a request handler
  `net/http` recovers it, and since `RUnlock` is not deferred the process lives on with
  `mapLock` taken for reading (`mapLeaked`). From then on no step that needs `Lock` happens
  (`CanLock`), and steps that need `RLock` may happen but need not. `u.conn` is set to nil
  without `u.mu`, which `ListenMessage` reads under it: the model lets it see either value, and
  `rleaked` records a goroutine that panicked holding the read lock. `rename|` validates
  nothing, so its targets are all of `Names`, the addresses of other connections and of coming
  ones included. Three history variables record what the properties make exceptions for:
  `lateKick`, a kick between `RenameUser` and `Online` of the same connection's login;
  `staleRename`, a rename by a reader whose connection has already been taken out of
  `OnlineMap`; `addressTaken`, a user whose name is the address of a connection that is then
  accepted.
* **WsClients.** `renamed` and `overwritten` are history variables: clients that a rename
  has moved, and clients over which `AddWSClient` stored another one. A client is *live* if
  its handler reads and its context is not cancelled.
* **Delivery.** Recipients are names, looked up in `OnlineMap` and `WSConns` of a server when
  their turn comes: `name[c]` is the key under which `c` is registered. Renames are modelled:
  `Rename` (`RenameUser`, also that of a login, and `RenameWSClient`) moves a registered
  connection to any name that is free in its map, between any two steps of any handler. The
  parts of a rename that do not touch the map (`u.Name`, the session) are in `TcpUsers` and
  `WsClients`; here they show in `LoadHistory`, which may be for another name than the
  client's. Fan-out to TCP users and the public fan-out to WebSockets hold their lock
  throughout and are one step; `deliverToGroupMembersWS` locks for each member (`left` are the
  names still to come). A queue may be full at any offer. go-redis repeats a `PUBLISH` whose
  answer does not come: the first one has got to Redis, gets there later (`StrayArrives`) or
  never; a message is repeated at most once in the model, the library's default allows three.
  `BusLoss` and the failing branch of `Publish` are Redis being away. `BusLoss`, `ToSubscribers`
  and `StrayArrives` are external to the repository. `moved` and `retried` are history
  variables: connections that were renamed while a message was handled, and messages whose
  `PUBLISH` was repeated.
* **Storage.** A statement outside a transaction waits for the write lock, a transaction holds
  it from its first write to commit or rollback (`draft` is its view). `Fail` is an error
  of any statement, `Crash` a kill of the process: committed tables stay, requests and
  locks go.
* **RedisSessions.** `left` is what a key has left, in quarters of a second, because Redis
  answers `TTL` in seconds rounded to the nearest: a key with less than half a second left
  answers 0, which `UpdateUsername` must take neither for "gone" nor for "for ever". `raced`
  is a history variable: tokens whose `DEL` failed or fell between the `TTL` and the `SET` of
  a rename.
* **History.** A page is any set of rows that the `WHERE`, `ORDER BY` and `LIMIT` of the query
  admit; with equal `created_at` there are several. The cursor of the next page is the id of
  the last row of this one, as the README describes the `before` parameter. The clock is
  assumed not to be set back.
* **Lifecycle.** `Shutdown` tests a listener field and then reads it again, so `Look` and
  `CloseListener` are separate steps. `missed` is a history variable: servers whose listener
  was not there yet when `Shutdown` looked. `http.Serve` and `Accept` may also fail on a
  listener that is open (`failed` remembers the former). Connection handlers are not in the
  wait group, in the code as in the model.
* **Gateway.** Lines are numbered in the order in which the server sends them. A `select` with
  several ready cases takes any of them. `handleSend` only writes to the socket: its effect
  is that the server may send or end at any time.
* **CliClient.** A line is reduced to what the client looks for in it. Each answer of the server
  brings an empty line after it, since `SendMsg` texts end in a newline and `ListenMessage`
  adds one. `quote` is a line of another user that contains the words of success.

## 3. Runs

Passing runs:

* **tcp_safety** (two connections, one username with an account, queue of 1, five inputs, which
  are connections made and lines sent): `OneKeyPerUser`; `LiveUsersReachable` (a connected user
  is in `OnlineMap` under its own name unless one of the three things recorded above has
  happened); `GhostOnlyAfterLateKick` and `CrashOnlyAfterLateKick` (a kicked user in the map, an
  unrecovered panic or a leaked `mapLock` needs the login race). A queue of 1 is full after
  one message. Names are the username and the two addresses; two accepts and three lines
  suffice for a login, a rename to a coming connection's address and a line of that connection.
  Connections are symmetric here. 1.7 million states.
* **tcp_live** (two connections, of which one sends lines, two usernames, three inputs, no
  symmetry): `ConnectionsLeave`, a client that falls silent leaves `OnlineMap`, unless `mapLock`
  was leaked; `OfflineEndsOrStarves`, `Offline` closes the queue unless `ListenMessage` has taken
  the last message from under its drain loop; `RenameEnds`, a rename that waits for `u.mu`
  behind a write to a peer that does not read gets on, since the idle kick closes the socket
  under that write. The exceptions in these properties are all needed.
* **ws_registry** (three handlers of one user, two rename requests, one token):
  `KeyIsClientName`, `GhostOnlyAfterRename`, `LiveIsRegistered`, and `CancelledEnds` under
  fairness. Three handlers are needed for a removal by name to hit a
  third party; two renames for one away and one back.
* **memory_sessions** (two tokens, two users, TTL 2, time up to 5): `ImplementsSessions`,
  the refinement of `Sessions`, and `ExpiredIsSwept`.
* **storage** (three requests, two users, one group; symmetric requests and users):
  `FriendsSymmetric`, `AcknowledgedIsDurable`, `CreatorIsMember`, `ToldIsCreator`. Three
  requests are an operation, its opposite and a bystander.
* **delivery** (two servers, a TCP user and a WebSocket on one, a TCP user on the other, two
  names, two messages out of a public, a group, a private and a system one, one trouble:
  a drop, a loss, a repeated `PUBLISH` or a rename): `AtMostOnce` and `SenderOrder`, with what a
  rename during the loop over a group and a repeated `PUBLISH` do as the exceptions; `NoGap` and
  `AudienceReached`, for who keeps the name it is looked up by. Two messages are the least for
  an order; one trouble is enough to bring each exception about, and the theorems cover any
  number of them. 1.3 million states.
* **redis_sessions** (two tokens, two renames, two names, a session for ever and one of 1.5
  seconds; all symmetric): `LifeAsCreated` and `LogoutUndoneOnlyByRace`. With 1.5 seconds the
  rounding goes up, down and to 0; two renames are enough for one to store what the other has
  read. `LifeAsCreated` bounds what a `SET` gives a key from then on, not when the session ends:
  a rename may store a time that was read earlier.
* **web_api**. `RateLimiter` (two addresses, limits 0 to 2, window of one tick, time up to 4):
  `WindowQuota`, `RefusedOnlyAtQuota`, `OpenWindowKept`, and `TwiceLimitInAnyInterval`. The
  limiter counts in fixed windows (README line 225 calls it a token bucket), so the last one
  is the bound a client really meets. `History` (five rows, three seconds, limits of 1, 2 and
  3): `SkippedOnlyInTies`, `RepeatedOnlyInTies` and `PagingEnds`. Five rows are up to three
  pages with ties across their borders, and rows saved in the meantime.
* **processes**. `Lifecycle` (two connections per listener, either backend): `LateOnlyIfMissed`
  (nobody is let in after the database is closed, but through a listener that `Shutdown`
  overlooked), `PanicOnlyIfServeFailed` and `ShutdownReturns`. A signal during the start-up is
  the interesting case: `Shutdown` passes over a field that is still nil, that server then goes
  on serving with a closed database, and only the fifteen seconds in `main` end the process.
  `Gateway` (one session, two polls, a channel of 1, answers of at most 2 lines, four lines):
  `NothingLost` (until `handleClose`, every line is in an answer, in a poll or on its way),
  `InOrderOnce`, `PollReturns`, `ReaderEnds`. Sessions share nothing, so one is enough; four
  lines fill the channel, the reader and both polls. What the run does not claim: an answer
  that the browser does not receive takes its lines with it, since `handlePoll` has removed
  them from the channel.

A `TypeOK` that is not in a run's list is part of a theorem. Runs that say
`CHECK_DEADLOCK FALSE` model a system whose clients may all have left or used up the bound
on their input.

Three runs show the code doing something else than is written about it:

* **client_login**, `GivesUpOnlyIfRefused`: "read the server's response" (`cmd/client/main.go:90`).
  The server announces a connection when it accepts it, and that announcement is the
  first line the client gets. `doLogin` takes it for the answer, does not find the words of
  success and the client exits, although the server goes on to accept the login. Leaving by the
  menu does not count.
* **session_renewal**, `AccessRenews`: "every access renews the expiry time" (`README.md:224`).
  `GetUsername` leaves the expiry as `Create` has set it, so a session in constant use ends at
  its TTL. The abstract `Sessions` states what the two stores do, not what the README says.
* **delivery_claims** (one message, no troubles), `ReachesAllServers`: "distribution across
  servers (public, private, group, system)" (`README.md:315`, also lines 129 and 232). Only
  `broadcastPublic` publishes, so a private or group message does not reach a recipient on
  another server.

Other places where code and documents disagree are visible as the exceptions in passing
properties:

* README line 62 says idle users are kicked out. A connection whose idle timer fires while its
  reader is between `RenameUser` and `Online` is back in `OnlineMap` after `Offline`, with a
  closed queue, and the next broadcast panics or, from a request, leaves `mapLock` taken: the
  `lateKick` of `GhostOnlyAfterLateKick`
  and `CrashOnlyAfterLateKick`.
* `user.go:261` says "Drain and close the message channel". The drain loop can wait for a
  message that `ListenMessage` has taken: the last case of `OfflineEndsOrStarves`.
* `wss.go:81` says "Remove any existing connection for this user". Two handlers that both
  evict before either adds leave a connection that works and gets nothing: the `overwritten`
  of `LiveIsRegistered`.
* README line 77 offers a cursor for the history. Messages of one second can be skipped or
  repeated at the border of two pages: the ties of `SkippedOnlyInTies` and
  `RepeatedOnlyInTies`.

### Bounds

`MaxInputs`, `Talkers`, `MaxLines`, `MaxMessages`, `MaxTroubles`, `MaxConns`, `MaxRows`, `MaxTalk`,
`MaxCommands`, `MaxTime`, `LastTick` and `MaxCount` bound the input, the failures and the clock;
`QueueCap`, `Cap`, `Batch`, `TTL`, `TTLs`, `Window` and the history limits are parameters of the
code with small values.
The theorems hold for every value of them.

### Fairness

Weak fairness is assumed of goroutines that are able to go on: the Go scheduler is fair to
runnable goroutines, and a blocked one is not enabled in the model. `TcpUsers` has it for
each handler past its accept, with its idle timer, for `Offline` and for `ListenMessage`; not for
clients, who need neither connect nor send anything. As they send finitely many lines
(`MaxInputs`), every client falls silent in the end, which is when the idle timer is bound to
fire. A write to the socket has no deadline: it is bound to return only once the socket is closed.
Steps that take `mapLock` are bound to happen only while it has not been leaked. The reader's
steps get strong fairness, since a waiting writer of the `RWMutex` `u.mu` keeps new readers out.
`WsClients` has it for handlers past
authentication (a cancelled context ends the read), not for clients or requests. `MemorySessions` has it for the ticker and the
cleaner, not for clients or time. `Gateway` has it for the reader and for polls, whose timer
fires after twelve seconds, not for the server or the browser. `Lifecycle` has it for the
goroutines and for `Shutdown`; a call that blocks on a listener or on the bus has to return
only once that is closed; the timer of `main` is not assumed to fire, so that `ShutdownReturns`
does not profit from it. `History` has it for a reader
that has begun and goes on to the end. `Delivery` and `RedisSessions` state safety only.

## 4. Proofs

All theorems are about the specifications without fairness and with arbitrary constants, under the named `ASSUME`s of the
modules (special values are no members of the sets they are added to, bounds are naturals,
connections and usernames are disjoint).

| Theorem | States |
|---|---|
| `TcpUsersProofs!TypeCorrect` | `TypeOK`, so no queue exceeds `QueueCap` |
| `TcpUsersProofs!OneKey` | `OneKeyPerUser` |
| `TcpUsersProofs!KickSafety` | `CrashOnlyAfterLateKick` and `GhostOnlyAfterLateKick` |
| `TcpUsersProofs!Reachability` | `LiveUsersReachable` |
| `WsClientsProofs!RegistrySafety` | `TypeOK`, `KeyIsClientName`, `GhostOnlyAfterRename`, `CancelledIsLeaving` |
| `WsClientsProofs!LiveReceives` | `LiveIsRegistered` |
| `DeliveryProofs!DeliveryTypes` | `TypeOK` |
| `DeliveryProofs!DeliveryOrder` | `AtMostOnce` and `SenderOrder` |
| `DeliveryProofs!DeliveryReach` | `NoGap` and `AudienceReached` |
| `ApiProofs!Quota` | `WindowQuota` and `RefusedOnlyAtQuota` |
| `ApiProofs!WindowKept` | the action property `OpenWindowKept` |
| `ApiProofs!TwiceLimit` | `TwiceLimitInAnyInterval` |
| `MemorySessionsProofs!Refinement` | `ImplementsSessions` |
| `StorageProofs!Friendship` | `FriendsSymmetric` and `WriterIsBusy` |
| `StorageProofs!Creation` | `CreatorIsMember` and `ToldIsCreator` |
| `StorageProofs!Durable` | `AcknowledgedIsDurable` |
| `RedisSessionsProofs!RedisSafety` | `TypeOK`, `LifeAsCreated` and `LogoutUndoneOnlyByRace` |
| `ProcessProofs!ShutdownSafety` | `LateOnlyIfMissed` and `PanicOnlyIfServeFailed` |
| `ProcessProofs!GatewaySafety` | `NothingLost` and `InOrderOnce` |
| `ApiProofs!Paging` | `SkippedOnlyInTies` and `RepeatedOnlyInTies` |

The arguments:

* **TcpUsers.** Only five steps change `OnlineMap` (`MapStep`); each keeps the keys unique
  by itself, which gives `OneKey`. For `KickSafety` the invariant adds `LifeCycle`: a queue
  is closed only at the end of `Offline`, and a reader that is about to call `Online` for a
  removed connection is in `lateKick`. Then a closed queue in the map implies a late kick. With
  that `LiveUsersReachable` is inductive: `RenameUser` checks that the new name is free and a
  reader that is not past `Offline`'s delete finds its own entry under its name, so the only
  step that can take an entry from a live user is an `Accept` of the address that the user has
  taken as its name, and that puts the user into `addressTaken`.
* **WsClients.** The invariant says in which stages a client may be in `WSConns`, that the
  handler's local `username` is the client's name until a rename, and at which key a live
  client is found. The last is what makes `LiveIsRegistered` inductive: removal by name can
  then only hit the client it also cancels.
* **Delivery.** The invariant turns on one predicate, `Offered(c, m)`: the sender's handler (on
  its server) or the receiver of the bus (on the others) has nothing left to do with `m`
  for `c`. Whatever a queue holds was offered (`QueueInv`), and each step that appends to a
  queue makes `Offered` true where it was false: hence `AtMostOnce`. A rename to a member's name
  that is still to be looked up, and the second copy of a repeated `PUBLISH`, can make `Offered`
  false again: `Twice(c)` and `Late(c)` are the messages for which that may have happened, and
  the invariant lets them, and only them, come again or late (`Arranged`). It also says that whoever
  was offered a message has it or lost it to a full queue or to Redis (`ReachInv`), of which
  `NoGap` and `AudienceReached` are the cases with the handler done. For `SenderOrder` the
  turns of a reader are needed (`TurnInv`: of two lines of one reader the older is done before
  the newer begins), that subscriptions are in order as well (`BusInv`), and that what
  a subscription still has for a connection is newer than what that connection has got
  (`QueueInv`). The steps of the handler that offer share one lemma, `HandlerOffers`, and
  all that the queues do is in `OfferFacts`.
* **RateLimiter.** `CountInv` ties the code's counter, which counts refused requests too, to
  the number of granted ones. For `TwiceLimit`, `LogInv` cuts the log of an address into
  windows that do not overlap, with the numbers of the requests in a window all different
  and at most the limit; `EntryInv` says that the entry is about the last of them. An interval as
  long as a window meets at most two (`TwoWindows`), and each holds at most the limit, by an
  injection into `1 .. limit` (`WindowHoldsLimit`).
* **MemorySessions.** The refinement maps an expired entry to "no session". Lazy deletion and
  the cleaner are then stuttering steps, the latter because its time is never ahead of
  `now` (`cutoff <= now`), and the tick that lets a session expire is the abstract end.
* **Storage.** `Lock` (the writer is exactly the request inside a transaction) and
  `Transaction` (the draft is the committed table with one, then both directions changed) give
  symmetry at commit.
* **RedisSessions.** What a request has read (`ttl`) is bounded by the token's longest life and is
  0 exactly for a session without expiry, and a pending `SET` of a token that was logged out
  means that the token is in `raced`.
* **Lifecycle.** The invariant says what a goroutine's place tells about its socket and its field
  (`ServerInv`), that past its step `Shutdown` leaves no listener open that it has not missed
  (`PassedInv`), and that the web listener is closed before `Shutdown` gets to it only if
  `http.Serve` has failed (`FieldInv`).
* **Gateway.** For each session there is a number `a` such that exactly the lines `1 .. a` have
  been taken by polls, and the channel, the line in the reader's hand and the socket are the
  next ones, one after the other, up to the last that was sent (`Cut`). A reader that ends before
  the stream does needs a closed session, which only `handleClose` makes (`EndInv`). With that
  polls hold disjoint, rising pieces of `1 .. a` (`PollInv`).
* **History.** Ids and times grow together (`TableInv`), and the cursor is the oldest row shown so
  far (`CursorInv`). A row that a page leaves out is then no younger than the page's last row
  by the order, and no older by its id; a row that comes again lies below a cursor that is
  at most as young. Either way the times are equal.

The inductive invariants of `Delivery`, of `Gateway` and behind `TwiceLimit` were checked with TLC
on the instances of the runs before they were proved. Every safety property of a passing run
is a theorem.

Only model-checked: the liveness properties (`ConnectionsLeave`, `OfflineEndsOrStarves`,
`RenameEnds`, `CancelledEnds`, `ExpiredIsSwept`, `PollReturns`, `ReaderEnds`, `ShutdownReturns`,
`PagingEnds`), which need fairness and `ENABLED`, beyond what the prover handles. `CliClient` has
no theorem: its one property is violated.

## 5. Not modelled

* Avatars (`avatar.go`): decoding, sniffing and writing one image file.
* Configuration (`config.go`): read once before anything else runs. TLS certificates likewise.
* Profile, search, metrics, online list, CORS and method checks of `web.go`: single reads and
  writes with no state that another step depends on.
* `handleSend` and the file server of `cmd/web`, prompts and output of `cmd/client`.
* The front end `web/`: DOM code. A hazard of its own is listed in `PROJECT.json`: the history
  is loaded before the WebSocket is open (`NoGap` shows the other order is safe).

## 6. Plan

Done: all the modules of section 2, with theorems for every safety property that a passing run
checks. Left:

1. A composition of `WsClients` with `MemorySessions` in the place of its session variable.
2. `RedisSessions` against `Sessions`: which part of the interface's promise it keeps, stated as
   a refinement with the races of `raced` as the exception.
