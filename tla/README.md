# Verification of the servers kept in Concepts-of-CPP

The repository collects notes on C++. Its own programs are a few lines long
(`src/hello.cpp`, `src/Server/malloc free over new delete/`, three `server.cpp`
that start a server and answer one route). What carries logic is the three HTTP
frameworks kept in the tree for those programs: Pistache
(`src/Server/Pistache/pistache`), Crow (`src/Server/MyCrowServer/Crow`) and
libhttpserver (`src/Server/CPP-HTTP-LIB/libhttpserver`). This directory holds TLA+ models of
that code, the TLC configurations that check them on small instances, and proofs
checked by TLAPS. `PROJECT.json` lists the components, the runs, the theorems, the
lines every definition stands for, and the hazards the properties are aimed at.

## 1. Inventory

### Pistache

| Part | State | Operations | Talks to |
|---|---|---|---|
| `MPMCQueue` (mailbox.h) | two atomic indices, a ring of cells with a sequence and a value | `enqueue`, `dequeue`, by any thread | the client's queue of requests per host |
| `Queue`, `PollableQueue` (mailbox.h) | linked list with a sentinel, an eventfd | `push` by any thread, `pop`/`popSafe` by one | every reactor thread; wakes `epoll_wait` |
| Promises (async.h) | per promise a state, a mutex, the attached continuations | `then`, Resolver, Rejection, `whenAll`, `whenAny`, Barrier | callbacks run inside the settling thread, or inside `then` |
| HTTP client (client.cc) | pool of connections (idle/used, connect state, request at hand, timer), queue per host, `queuesLock`, `timeoutsLock`, `handlingMutex` | `doRequest`, connect, send, response, error, timeout, `shutdown` | user threads and one reactor thread per transport |
| Reactor, Epoll (reactor.cc, os.cc) | handlers, epoll interest, `shutdown_` | `registerFd`, `modifyFd`, `removeFd`, `runOnce`, `shutdown` | one or several worker threads |
| Listener (listener.cc) | the listening socket | `bind`, `run`, `handleNewConnection`, `dispatchPeer`, `shutdown` | hands a peer to a Transport by descriptor number |
| Server Transport, Peer (transport.cc, peer.cc) | `peers_`, `toWrite`, four wake-up queues, timers | new peer, reading, writing, disconnecting, idle check | listener thread, reactor thread, application threads |
| Endpoint, HTTP handler (endpoint.cc, http.cc) | parser per peer, idle flag, timeouts | `onInput`, `send`, `serveFile`, `checkIdlePeers` | Transport |
| HTTP parser (http.cc) | step, cursor, chunk state | `feed`, `parse`, `reset` | Handler |
| Router (router.cc) | tree of path segments | `addRoute`, `removeRoute`, `findRoute` | Handler |
| Headers, cookies, mime, net, base64 | none that lasts | parse, print | |

What is hard there: lock-free interleavings in the two queues; a wake-up lost between a
failed pop and the read of the eventfd; callbacks that run inside callbacks with locks
held; a decision ("no connection is free") acted on after it is stale; timers and
responses that race; edge-triggered readiness that is reported once; descriptors that
name another connection after a close.

### Crow

The demonstration `server.cpp` includes the single header `crow_all.h`; the headers under
`Crow/include` are a later release of the same code. The models translate `crow_all.h`,
except for the session middleware, which only `Crow/include` has.

| Part | State | Operations | Talks to |
|---|---|---|---|
| Server, Connection, task_timer | per connection: reading, writing and completion flags, `res`, `task_id_`; per worker: its handlers, its timer, its load | accept, read, handle, complete now or later, write, deadline, deletion of itself | one thread per io_service, one that accepts, the threads of the application |
| WebSocket | reader's state, fragments, write buffers, close flags | frames in, posts from other threads, closing handshake | one io_service, other threads |
| Middlewares | contexts of one request, the completion handler | `before_handle`, `after_handle`, global and local | Connection, the route's handler |
| SessionMiddleware | cached sessions, expiry queue, files | load, set, remove, save, expire, restart | the worker threads |
| http_parser, HTTPParser | state, counts, the request being built | one case per byte, seven callbacks | Connection |
| Router, Trie, Blueprint | rules, blueprints, a trie per method | register, `validate`, `optimize`, `find`, `handle` | Connection |

Hard: a completion after the connection is gone, deletion decided by flags that several
operations share, deadlines cancelled by id, a reader that is resumed in the middle of
anything, two requests of one session.

### libhttpserver

| Part | State | Operations | Talks to |
|---|---|---|---|
| webserver | `running`, `mutexcond`, the daemon | `start(true)`, `stop`, `sweet_kill` | libmicrohttpd's threads |
| requests | `modded_request`, arguments, upload stream, files | first and second step, post iterator, completion | one sequence of callbacks per connection |
| resources | two maps of resources | register, unregister, search | the program's threads and the daemon's, without a lock |
| address policy | two `std::set`s ordered by an `operator<` | ban, unban, allow, disallow, decide | the program's threads and the daemon's, without a lock |

Hard: a stop beside a start, pieces of uploads of several clients, two maps that must
agree and are searched while they change, an order that is none. libhttpserver's `README.md:72` calls
its functions thread-safe; the maps of resources and the sets of addresses (`webserver.cpp:188-202`, `361-415`,
`633-673`) are used by all threads and locked by none.

### Not modelled, and why

`PROJECT.json` gives the status of all parts. The models stand for about a tenth of the
lines of C and C++ in the tree. What the rest is:

- `httplib.h` and `date.h` (17 600 lines) are other projects, kept as subprojects; of the
  first only tests and examples make use;
- `Crow/include` (14 000 lines) is `crow_all.h` once more, split into headers;
- headers, cookies, media types, base64, addresses, query strings, JSON, mustache,
  multipart, Rest::Description and response classes turn one value into another and keep
  no state; a model of them would be a second copy of their text;
- declarations, option setters, logging, the `#ifdef`s of other platforms and TLS set-up
  change nothing that a property here could tell apart;
- tests, examples and demonstration programs have no logic of their own.

Seen while reading, and in no model: `do_write_static` of Crow sends its whole buffer for
the last, shorter piece of a file, too (`crow_all.h:11577`); `HandlerShift` of Pistache's reactor
is 0, as it counts bytes where it means bits, so that a reactor with two handlers
would not find them (nothing here adds a second one).

## 2. Plan

Done, in this order: `MPMCQueue` with its proofs, `PollableQueue` with its proofs,
`PistacheClient`, `Async`, `When` with its proofs, `ServerTransport`; then Crow's server,
WebSocket, middlewares, sessions, parser and routes; Pistache's parsers, router, event loop
and the life of a server; libhttpserver's resources, address policy and web server; then the
proofs about `Async`, `CrowSession`, `ServerTransport` (with the order of its bytes and the meaning of its
promises), `PistacheClient`, `EventMeth`, `PistacheServer`, `CrowWebSocket`, `CrowMiddleware`, `WebServer` and `CrowServer`.

Next, the most important first:

1. `Barrier` as an extension of `Async`;
2. composition of `ServerTransport` with `PollableQueue` in place of the FIFOs it assumes.

## 3. Modules

The queue modules are at the level of single atomic accesses; the modules above them use
FIFOs in their place, which is what `ImplementsFifo` justifies.

**BoundedFifo** is the abstract specification both queues implement: a log of accepted
values, a cursor behind the last one taken, and the value each thread has in hand.

**MPMCQueue** (mailbox.h, `MPMCQueue`). State: `enqueueIndex`, `dequeueIndex`, the cells'
`sequence` and `data`, and per thread its place in the function, its `index` and its
argument or result. One action per load, store, compare_exchange and data access.
`compare_exchange_weak` may fail spuriously. Accesses are sequentially consistent in the
model; each hand-over of a cell's data in the code is a release store read by an acquire
load. Index overflow is not modelled: 2^64 operations. `claimed` is a history variable.

**PollableQueue** (mailbox.h, `Queue`, `PollableQueue`). `push` is three steps (exchange,
link, write of the eventfd), `pop` is the first attempt, the read of the eventfd and the
second attempt; the drain loop of the reactor is part of the model. Nodes are numbered in the
order of the exchange; `freed` records deletion. The eventfd's counter does not
saturate, and `bind` precedes the first push.

**PistacheClient** (client.cc with timer_pool, connection pool, reactor). `conn` holds what
a `Connection` holds, with the kernel's view of its socket; `client` the host's queue
and `queuesLock`; `io` a transport's queues, `timeoutsLock`, `stopHandling` and the reactor's
shutdown; `th` a thread's label, locals and stack of callers. A label is a place where
another thread may come in between; the actions from one label to the next do the whole
of the code in between. The stack lets callbacks run in their caller with its locks held:
label `close` has no action because `Connection::close` waits for the mutex the handler itself
holds. Simplifications: one host; a response is one packet; a `send` writes all
or fails; SIGPIPE is taken to be ignored (the client sends with flags 0
and would otherwise be killed by a reset connection).

**Async** (async.h). One promise (core 0) and the promises its `then` calls return. A
thread has the stack of loops over `requests` it is in. `Serialised` says whether chained
`then` calls exclude other threads; the class needs that and does not enforce it.

**When** (async.h, `whenAll`, `whenAny`, `WhenAllRange`). The continuations on N promises
share a `Data`; each runs under its mutex and is one action.

**ServerTransport** (transport.cc, peer.cc, listener.cc, endpoint.cc, http.cc, os.cc). `sock`
is the kernel's and the client's side of a connection, `open` and `epoll` the descriptor
table and the edge-triggered interest, the other variables are the members of
`Transport` and `Peer`. The reactor thread's label says which handler it is in. A
response is sent whole (`raw`), as a header followed by a file (`file`: the file is
queued by the continuation of the header), or by another thread (`app`), which first
reads the peer's descriptor and later queues the write. `Room` bytes fit in a socket's
buffer, so that writes are short and `detach` is exercised, for buffers and files.
Not modelled: TLS, response timeouts, `ResponseStream`, several workers per transport.
A `modifyFd` that throws out of the reactor thread ends it: label `crashed`. When the write of a 408 fails,
the handler of `putOnWire` returns normally, the promise chained to it stays pending and `closePeer` never runs: the peer stays.
A peer is answered 408 once at most.

**PistacheServer** (endpoint.cc, listener.cc, reactor.cc). `main` is the thread that owns the
endpoint, `run` the place of `Listener::run`, `worker` the place of each thread of the reactor,
`lockR` and `lockS` the two mutexes of a worker (`reg_unreg_mutex_`, held while it polls, and
`shutdown_mutex_`, held while it handles a batch), `stop` the place of each caller of `shutdown`.
What is done with a connection is in `ServerTransport`; here it is queued, opened and closed.

**EventMeth** (eventmeth.cc, with os.cc and reactor.cc where they call it) is the epoll that Pistache makes from libevent
where there is none: a counter, a timer and a socket, the threads that write, set, register
and close them, and the loop. One action per section under one mutex; a thread that
waits for a second mutex has a place for it, so that crossed locks can be seen.

**PistacheParser** (http.cc, stream.cc) and **PistacheMessages**. The buffer, the cursor and the steps of the request
and the response parser; a read hands over any non-empty prefix of what is on the way. A message is a sequence of symbols;
`PistacheMessages` lists those used, with what should come of each.

**PistacheRouter** (router.cc). A tree is the set of its nodes, a node the path to it. The orders of
`unordered_map` are choices. `Matches` is the definition the search is compared with.

**CrowServer** (crow_all.h). Per worker the FIFO of its io_service, per connection its members and
the operations under way. Uninitialised `task_id_` is a choice (`Garbage`). The handlers of a connection are operators on
its record (`World`), composed as the code composes the calls. A tick closes the sockets whose deadline has passed in the order of the
ids and queues the handlers of their operations in that order (`Ended`, `Sooner`). A synchronous write that throws inside the handler of
a rule is caught by `Router::handle` (`Caught`): the response becomes a 500 that nobody sends, and the reader goes on.

**CrowWebSocket** (crow_all.h). A frame is read field by field; one posted send or close is a handler of the io_service. The
header of a frame is read with `async_read_some`, which may bring one of its two bytes (`Begins`): built without
`CROW_ENABLE_DEBUG`, the code takes the other as it stands, zero, and from there on reads fields where others begin. The model goes on with up
to `MaxStray` frames of any kind then (`cut`).

**CrowMiddleware** (crow_all.h). A step is one call of a `before_handle`, an `after_handle` or the handler. Each may throw; `caller` says who
catches it: `Router::handle` what its route throws (`AfterThrows`, `Caught`), and nobody what leaves `Connection::handle` or a later end
of the response (`BeforeThrows` of a global one, `AfterUncaught`), which reaches `Server::run`.

**CrowSession** (session.h). A step is a hook of the middleware, a call of the handler on its session, a tick of the clock, or
an end of the process. `FileStore::save` empties the file and then writes it, and the destructor does so with `.expirations`: a crash
between the two leaves them so (`CrashSaving`, `CrashStopping`, `Torn`).

**CrowParser** (crow_all.h) and **CrowMessages**. One action per case of the switch in
`http_parser_execute`; a byte is a symbol of the class the case tells apart; `nread` counts
against a small limit. The callbacks build the request as the code does, from pointers
into the buffer and pieces already kept. An assertion of the code that fails is an error of its own; with `NDEBUG` the value just goes on.

**CrowRouting** (crow_all.h). The trie as the code builds and joins it. `Find` is the one RECURSIVE operator
of the project: nothing is proved about this module. Where the code indexes a list with the index of another (the
router's blueprints with that of a nested one), the model does so too: past the end of it, what happens is a choice (`past`, `crashed`).

**HttpResources**, **IpPolicy**, **WebServer** (libhttpserver). `IpPolicy` keeps the shape of the `std::set`'s tree,
since its comparison is no order and what is found depends on that shape. Nothing locks the maps of the first and the sets of the second: a call that
changes two maps, or erases and then inserts, is two steps (`pending`), and a daemon's thread searches between them, in steps of its own (`search`, `decision`). What
one operation on one map does beside another on the same map is undefined (a data race) and not modelled: each is one step, and so is the
walk over the first map; the program's threads make one call at a time. Servers with a single resource, which are not searched, are left out.

**MCCrow**, **MCRequests**, **MCRuntime** put several of these into one state space. Their variable `component` (`part` in MCCrow) says which
part moves; the others are in a resting state, in which nothing of theirs is enabled and every
invariant holds. The parts do not interact in these runs: this is a way to check several parts
at a time, and `Components` in a `.cfg` restricts a run to some. For
TLC a disjunct `component = "x" /\ X!Next` is one action; every action of every part was seen
to fire in runs of the part alone. The modules that are only instantiated state their assumptions
on constants by name, as definitions, and the MC modules ASSUME these for their values.

Definitions whose comment begins with "mutant" are altered copies of a definition, each with one
plausible slip. The specifications do not use them; a property is trusted only if
putting the slip in place of the definition makes TLC report it violated. A property that is a
conjunction (`ServerSound`, `SessionsSound`, ...) has one listed mutant; the others stand beside their
definitions.

## 4. Runs

| Run | Shows | Bounds |
|---|---|---|
| `ring` | cells have one owner, full and empty are reported truthfully, the invariant of the proof, refinement of BoundedFifo | 3 threads, 2 cells, 4 tickets: two laps, so that a thread may sleep through one, and a third thread can interfere with a racing pair |
| `wakeup` | no deleted entry is used, no wake-up is lost, refinement, every push is handled | 3 producers, 4 pushes: a gap in the list with pushes complete behind it and one more to come |
| `client_one` | bounded queue, service of queued requests, shutdown at any moment | 2 users, 3 requests, 1 connection, queue of 1: one in service, one queued, one refused |
| `client_failures` | exclusive connections and single answers when connects fail or are refused, streams end or are reset, a request times out | 1 user, 3 requests, 2 connections, one timed request |
| `client_stranded` | *violation*: a request is queued for ever | 2 users, 2 requests, 1 connection |
| `async_serial` | continuations run exactly once, settled promises stay settled | 1 settling thread, 2 users, 3 continuations: chains of every shape of that size |
| `when` | the combined outcome is right and always comes; the range form never throws | 3 promises, all policies |
| `transport` | nothing of a closed descriptor is inherited, own bytes come in order and complete | 2 connections sharing 1 descriptor, responses of 2 bytes per part, 1 byte of room, 1 idle check, all failures |
| `transport_live` | every write is settled while the connection lasts and the client reads, unless it sends a piece of another request | 1 connection, 2 requests, 1 piece, 1 idle check, all failures |
| `crow` | connections: no handler outlives its object, load and deadlines are exact, responses belong to their requests; WebSocket: messages whole, sent in order, object deleted when quiet, closed once; middlewares: after-handlers mirror before-handlers, one answer; all objects are deleted, all requests answered | two connections on one worker with two reads between them; one connection by itself; in both every kind of answer; a WebSocket with three frames of five kinds, fragments and control frames among them, two once a header came in halves (`MaxStray`), and a send or close posted by another thread; two global and two local middlewares |
| `requests` | routes and messages against definitions by themselves: Pistache's router and parsers, Crow's parser and routes, libhttpserver's resources and addresses, each with one search beside the calls that change them | three routes of every kind of segment, added and removed; messages cut anywhere, two after one another; blueprints with catch-alls; three calls that register or unregister; addresses enough for a tree of three |
| `runtime` | sessions shared, saved, expired, restarted, and crashes at any moment, in the middle of a file too; events of the libevent loop; a Pistache server started and stopped; libhttpserver's start, stop and uploads | two requests on two sessions, two ticks, one restart; one counter, timer and socket; one worker, one connection, one stopper (two workers pass too, 99 677 states); two clients that upload under the same name |

`transport` is the largest run, with 4.2 million distinct states; `runtime` the longest of the
new ones, under two minutes. Deadlock checking is off where the system may come to rest (all
requests served, no more input); in `ring` there is always a step.

Symmetry is used for threads, users, transports, requests and methods, and only in runs
without liveness properties.

### Fairness

Weak fairness of the threads that the code creates or that have entered a function: a
runnable thread is eventually scheduled. In `PistacheClient` the server answers what it has
received and timers go off; in `ServerTransport` clients read what they are sent, except
that they may close. Nobody is obliged to call `push`, `doRequest`, `then`, `shutdown`,
to settle a promise, to connect, or to break a connection. The poll of the server's
reactor is fair only when it has something to report; the idle timer is not needed for
progress.

In Crow's models the workers run what is queued and timers go off; clients need not send, read or close. In
`CrowMiddleware` a response to be ended later is ended. In
`EventMeth` the loop runs, and threads that began a call end it. `PistacheServer` only assumes that some thread that can
go on does: every thread has finitely many steps to take. In `WebServer` the same holds for callers of `start` and `stop`;
nobody must call `stop`.

### What the violations show

- `client_stranded`. `Client::doRequest` finds every connection in use; before it
  takes `queuesLock` and enqueues, the last response arrives, its `onDone` releases the
  connection and `processRequestQueue` finds the queue empty. The request is then
  queued with an idle connection beside it, and nothing looks at the queue again.

### What the code does not keep

Where the code falls short of what one would like to say, the listed runs check what it does keep
(the property names the exception, or the instance leaves the case out), and these show the rest.
They are kept for whoever changes that code; TLC reports each violated, except for
`MCClientPool.cfg`, which checks exclusive connections and own responses with two connections and two transports.

| Configuration (module) | Property | What happens |
|---|---|---|
| `MCClientTimeoutLock.cfg` (MCPistacheClient) | `TimeoutAnswers` | `onDone` runs inside `handleTimeout` with `timeoutsLock` held and sends a queued request that takes it again |
| `MCClientRemoteClose.cfg` (MCPistacheClient) | `CloseReturns` | the end of the stream closes the connection inside its own handler, whose mutex `close` waits for |
| `MCClientRefusedShutdown.cfg` (MCPistacheClient) | `ShutdownCompletes` | a send error inside `processRequestQueue` enters it again under `queuesLock` |
| `MCClientLateResponse.cfg` (MCPistacheClient) | `OwnResponse` | the response to a request that timed out answers the next one |
| `MCClientNoTransport.cfg` (MCPistacheClient) | `ServedReady` | `processRequestQueue` picks a connection that was never given a transport |
| `MCAsyncSerial.cfg` (MCAsync) with `Users = {u1}`, `NConts = 2`, `Serialised = FALSE` | `EveryContinuationRuns` | a chained `then` beside the thread that settles the first promise loses its continuation |
| `MCAsyncSerial.cfg` (MCAsync) with `Settlers = {s1, s2}`, `Users = {u1}`, `NConts = 1`, `SPECIFICATION Spec` | `SettledOnce` | two threads settle one promise; both pass the test outside the lock |
| `MCWhen.cfg` (When) with `N = 2`, `Policies = {"all"}` or `{"any"}`, `SPECIFICATION Spec` | `NeverThrows` | a late rejection throws at the thread that settles the promise |
| `MCTransportLostWrite.cfg` (ServerTransport) | `EveryWriteSettled` | `onReady` treats an event as readable or else as writable; one edge-triggered event carries both when input arrives while a response waits, and the response stays in `toWrite` |
| `MCTransportWrongPeer.cfg` (ServerTransport) | `OwnBytes` | `writesQueue` names a peer by descriptor: a new client with the descriptor of one that left is sent its response |
| `MCTransportStaleEvent.cfg` (ServerTransport) | `StaleEventsIgnored` | the idle check closes a peer whose writable event is later in the batch |

Where constants are named with a `.cfg`, change it so and leave out its other properties. For the three MC modules of several parts: take the `.cfg`, set `Components` to the part, replace the
INVARIANTs and PROPERTYs by the property named, and change the constants as given.

| Module, part | Property | With | What happens |
|---|---|---|---|
| MCCrow, life | `ObjectsDeleted` | `Elsewhere = TRUE` | a response ended on another thread between the test and the flag: nobody reads the connection any more |
| MCCrow, server | `DeadlineArmed` | | `cancel` of an old or uninitialised id erases another connection's deadline |
| MCCrow, server | `ServerSound` | `Piped = TRUE` | a second request is read before the first is answered, and `res` is cleared |
| MCCrow, server | `ServerSound` | `Kinds <- MCHurry` | a body sent without waiting for 100 Continue makes two writes overlap; the first that ends deletes the connection |
| MCCrow, server | `ResponsesOwned` | `Kinds <- MCLaterClose` | the connection is deleted before the answer it owes |
| MCCrow, websocket | `NeverTouched`, `AlwaysClosedOnce`, `EventuallyDeletedAlways`, `CloseDestroys` | | posts to a deleted object; the close handler twice; two states of the reader in which a lost client is not noticed |
| MCCrow, websocket | `HeadersCutAnywhere` | | a read brings one byte of a frame's header, and what follows is read as other fields (without `CROW_ENABLE_DEBUG`) |
| MCCrow, middleware | `ThrownAnswered`, `FrameAlive`, `AlwaysMirrored` | | a throw in a `before_handle`, or in an `after_handle` outside the route, is answered by nobody; a handler that ends later uses a dead frame; an `after_handle` that throws within the route makes others run twice |
| MCRequests, parser | `ResetIsComplete`, `ClientRecovers` | | the count of a body that failed is used for the next message |
| MCRequests, parser | `ChunkCutAnywhere`, `TailCutAnywhere` | | a read ends between a chunk's data and its CR LF, or inside the last CR LF |
| MCRequests, crow parser | `PipedUrl`, `UrlCutAnywhere`, `EmptyHeaderKept`, `OwnBudget`, `AlwaysAsserts` | | `qs_point` after a cut; an empty header lost; `nread` of the previous message counts; a NUL before the value of `Connection` reaches `assert(0)` |
| MCRequests, crow routing | `StartsUpNested`, `CatchallOfBlueprint` | | nested blueprints and their catch-alls |
| MCRequests, crow routing | `CrowRoutesSound`; `BpLookupDefined`; `ValidateDefined` | `Blueprints <- MCSiblings`; `Blueprints <- MCNested`; `Blueprints <- MCTwins` | the catch-all of a sibling answers; a list indexed with another's index, in a search and in `validate` |
| MCRequests, router | `RemovesOnlyItsRoute`, `NeverHidden` | | removing a splat removes others; an optional segment hides a route |
| MCRequests, resources | `LibhttpSound` | `Unregisters <- MCFamilyToo`; or `Urls` and `Unregisters <- MCSpellings` | what was unregistered still answers |
| MCRequests, resources | `AlwaysRight`, `FoundThere` | | two calls during one search make the answer that of no moment; the entry that a search found is erased before it is read |
| MCRequests, resources | `BoundInRange` | `Urls <- MCRooted` | a parameter is bound to a piece that is not there |
| MCRequests, policy | `LibhttpSound` | `Patterns` and `Clients <- MCScores`; or `Patterns <- MCOverlap`, `Clients <- MCOverlapClients` | a ban is not found |
| MCRequests, policy | `PolicyAlways`, `DecisionAlways` | | while a range is widened a banned client is let in; two calls between the two questions make the decision that of no moment |
| MCRuntime, session | `TrackedAlways`, `NeverLate`, `CookieOfSession`, `EmptyHonoured`, `SavedSurvives` | | files nothing deletes; an expired session handed out; a cookie for a session never saved; a crash after `save` opened the file loses what it held |
| MCRuntime, loop | `EventsSeen` | `Registered = FALSE`, or `Apart = TRUE` | a write between `event_add` and `interest_` is not seen; two threads wait for each other |
| MCRuntime, loop | `NoCrossedLocks` | `Apart = TRUE` | the two threads of the line before |
| MCRuntime, server | `HandlerThere` | | a worker that has just begun reads a handler that the destructor takes away; the comment at reactor.cc:322 says the mutex is held |
| MCRuntime, server | `StartReturns` | `Inside = TRUE` | a request handler that calls `shutdown` waits for the mutex of its own batch |
| MCRuntime, server | `StartReturns` | `Early = TRUE`, `Blocking = {TRUE}` | a `shutdown` before `run` has bound its descriptor stops the workers, and `serve` never returns |
| MCRuntime, web | `StoppedOnce` | `Stoppers = {"s1", "s2"}` | the daemon is stopped twice |
| MCRuntime, web | `StopNeverLost` | | a `stop` before `running` is set is lost |
| MCRuntime, web | `ArgsBounded` | `ContentLimit = 1` | `grow_last_arg` does not cut |
| MCRuntime, web | `UploadsSound` | `RandomNames = FALSE` | two uploads write one file |

## 5. Proofs

TLAPS checks the proofs in eight modules, for every value of the constants that
satisfies the named assumptions of the module proved about. Each invariant called `IInv` below was
first checked by TLC as an INVARIANT, on the constants of the run named in section 4 and on one or more
instances with other constants.

**MPMCQueueProofs** (`Size >= 2`, `Nothing \notin Values`; any set of threads, any bound on tickets).
`CellsExclusive` is not inductive: it says nothing about who may become an owner next. The
invariant `IInv` describes the life of a ticket: a claimed, unreleased ticket is in one of the
states *being written*, *published*, *being read*; the cell's `sequence` tells which, and
names exactly the one ticket the cell is waiting for; live tickets lie within one lap of
`dequeueIndex`, hence in different cells (the arithmetic lemmas `LapsApart` and
`RemainderUnique`). One lemma per action shows it preserved; threads that only search change
nothing of it (`SearchingInv`). From it follow `CellsAreExclusive`, the two action properties
`FullIsAlwaysReal` and `EmptyIsAlwaysReal`, and `RingImplementsFifo`, where a value is
accepted and taken at the compare_exchange, and the data read later is shown to be what
was claimed.

**PollableQueueProofs** (`Nothing \notin Values`, any producers, any bound on pushes). The
invariant has five parts beside the types: nodes are linked one by one from the tail to
the head except for gaps (`Chain`), each gap belongs to one push between its exchange
and its store (`Gaps`), only nodes before the tail are freed and never the one being
returned (`Lifetime`), the values behind the tail are those of the log (`Stored`), and
what is left in the queue when the consumer gives up has its notification on the way
(`Awake`). It yields `NeverUsesFreed`, `WakeupsAreKept` and
`QueueImplementsFifo`.

**WhenProofs** (`N \in Nat \ {0}`). The invariant says that each continuation is called at
most once, that the count equals the number of results and results are those of fulfilled
promises (`Counted`), and that a combined promise is settled only when `Data` is closed or
complete (`Closed`). It yields `OutcomeIsRight` and, for the range form,
`RangeIsSafe`.

**AsyncProofs** (`AsyncAssumption`, `ThreadsAssumption`, and as a hypothesis of the theorems
`OneSettler`: one thread at most settles the first promise, since with two `SettledOnce` is false, see
section 4; `Serialised` may be either). `ContinuationsOnce` needs to know whom a loop over `requests` calls
next and what has been called. The invariant says that continuations are made one after the other for older cores
(`Prefix`), that the requests of a core are continuations of it (`Requested`), that a loop runs over
requests that are there and on the side its core took (`Looping`), that a thread inside `then` works for a
continuation of its core and a thread about to settle finds the state as it was when it looked (`Threading`),
and that a chained core is settled by the continuation that ran or by the promise its callback returned,
never by both (`Decided`). It yields `AsyncIsSound` and the action property `SettledForGood`.

**CrowProofs** proves all three parts of the `crow` run. First `CrowWebSocket` (`SocketAssumption`: frames are frames, and there are finitely many). The handlers of a
connection are operators on a record of all that its thread owns, so the proof is about these records: each operator
has a lemma of what it keeps, and a step composes the lemmas as the code composes the calls. `Fine`, the
invariant of a record, has five parts beside the types. `Quiet`: a read is under way or its handler queued, never both, exactly
while `is_reading` says so; likewise a write and `sending_buffers_`; `DeletedQuiet` needs this of every moment, as
`check_destroy` looks only at these two. `SentUp`: what went to the socket is a prefix of what was asked for and
`write_buffers_` the rest. `Closed`: whoever calls `onclose` for a close frame sets `close_called` first. `Served`: a
frame being read has a piece left, and an error ends the reading. `Reads`, the largest: the messages delivered so far
are those that end among the frames read, each sorted and whole, and the one being put together (`message_`) is
exactly the fragments after the last end (`Waiting`), which is why an interleaved ping must not touch it. That a
client continues a message only within one (`Follows`) makes the kind of a message that of its first fragment. Of the messages all this
holds as long as no read brought half of a header (`cut`), and so does the theorem. It
yields `SocketIsSound`.

The same module proves `MiddlewareSound` of that run for `CrowMiddleware` (`MiddlewaresAssumption`: middlewares are numbered
from 1 to `N`, and some of them are local). `AfterMirrorsBefore` and `HandlerLast` speak of the positions of calls in the log when a response is
written; the invariant `MiddleInv` says of every moment who was called and what the order of the log is. `Nested`: each
`before_handle` is inside those before it, each `after_handle` around those before it, and nothing but these follows the
handler. `Inwards`: while the recursion goes in, exactly the middlewares before the one it is at were called.
`Outwards`: while it comes out, the `after_handle` of exactly those beyond it ran, in whichever of the three places the
code does this (`Unwind`, `AfterLocal`, `AfterGlobal`), and the one that will run next had its `before_handle`; whoever waits to end a
response finds the completion handler that the route needs (`Admitted`), and after it was written nobody finds one, which
is why a handler that ends the response and then throws is answered once. After an `after_handle` threw within the route (`Again`) others may be called twice; the invariant then
keeps only the order of the calls up to the handler and the number of answers, and the property claims no more. It yields `MiddlewaresAreSound`.

Its last section proves `ServerSound` (`CrowAssumption`: there is a worker, connections are finitely many, `None` is neither a
connection nor a request) for any connections, workers, reads and uninitialised ids, with responses completed on workers or
elsewhere, under two hypotheses: nobody sends a request before the last is answered (`~Piped`), and nobody who asks for
100-continue sends the body without waiting (no kind is `hurry`). Without the first the one response object of a connection is cleared under an
answer (section 4); without the second two writes overlap under one flag, and `HandlersOwned` fails. What `ServerSound` says of
a deleted connection and of a sent response is not inductive: it says nothing of what is still queued. The invariant `ServerInv` has a part for
each worker (`WorkerInv`): its handlers and deadlines are those of its own connections, and its load is the cardinality of the set of them;
and a part for each connection (`ConnInv`). `Coherent` is what its members say of each other: who reads from the socket has no
answer under way, at most one write waits, and whoever keeps the response keeps it for the request after the last one answered.
`QueuedFor`: of each kind one handler at most is queued, and only while the flags say so; a request that waits to be parsed finds
the last one answered, and the handler of that write before it in the queue (`Asks`). `Pending`: a response that is complete and was sent has
its write queued, which clears it before the next request is handled; this is what a missing `clear()` would break two
requests later. `Timed`: a deadline in the timer belongs to a live connection that knows its id. Each operator on a record has a lemma
that it keeps these (`Fits`), and a handler's step composes the lemmas; a tick, which works on many connections at once, is a lemma by
itself. The theorem is `ServerIsSound`.

**ServerTransportProofs** (`TransportAssumption`, `NoneAssumption`). `NothingInherited` depends on the thread
that accepts: it makes the deque of a descriptor after the peer was queued. The invariant says
that a descriptor is one connection's (`Owned`), that exactly the descriptors of `peers_` are watched (`Watched`), that a
peer in the queue, or about to be queued, has its descriptor and is there once, because nobody
closes a connection before the reactor has registered it (`Queued`), what an entry in `writesQueue` or
a deque may be (`GoodQueue`, `GoodDeques`: bytes left, a request that was read, the deque's own descriptor, and
a 408 only for a peer that was registered), that a client has at most one request on its way (`Numbered`, `Asked`: this bounds the
numbers of requests and responses), and what the reactor's place says of `peers_` and `toWrite` (`Busy`). It
yields `TransportIsSound`.

For the bytes on the wire a second invariant, `Traffic`, is carried along with the first. It follows a write
from `asyncWrite` to its promise: it is in its connection's `log` once, and its connection was registered
(`Logged`); as long as it is in `writesQueue` none of it is out, and of a deque only the first entry was begun, exactly
up to its `base + offset` (`QueueDue`, `DequesDue`); the queue after the deque, and each of them in itself, is in the order of the
log, and two deques never hold the same write (`Orders`); on a connection that is open and not reset each write is
complete, rejected, or still in the queue or the deque (`Accounted`), so that nothing is skipped when the
first entry of a deque is sent; a body is written only after its head is out (`BodyLast`). `InOrder` alone says nothing of
what is still to be sent, and the next short write would break it. Three lemmas carry the induction: what adds to the queue
(`QuietKeeps`), what moves an entry to a deque (`MoveKeeps`), and what sends or drops a first entry (`HeadKeeps`); each
action is shown to be of one of these forms. An entry that outlives its connection may be written to the
next connection with that descriptor (the finding of section 4); the theorems hold all the same, because `InOrder` is about
a connection's own bytes. They are `ResponsesAreInOrder` and `FulfilledAreSent`.

**PistacheClientProofs** (`ClientAssumption`, `ValuesAssumption`: users are no transports, and requests are told apart
from outcomes and marks). One inductive invariant for all safety properties of the client. `Framed` says that
at each label that needs a connection, a request or a caller there is one, on the stack too, and that
calls of a reactor end where they began. `Associated`: a user's connection has its transport from
`associateTransport` on. `Inputs`: what the end of a connection's input says of its peer. `Tokens`: the use of a
connection is in one place, which is its entry, its queue, or one thread; `ConnectionsExclusive` says this only of the
entry and would not survive a hand-over from `onDone` to `processRequestQueue` and `doRequest`. `AllUnique`: a
request is with one connection, or in `requestsQueues`, or with one user, and then nobody has answered it.
`Closed`: a reactor that was notified is not inside a batch. `Own`: before the first timeout a connection that is up has
one request under way, and it is the entry. The theorems are `ClientIsSound`,
`ConnectionsAreExclusive`, `SettledOnceOnly` and `ResponsesAreOwn`; users, transports, connections, requests and failures are any.

**RuntimeProofs** (`LoopAssumption`, `ServerAssumption` of `MCRuntime`) proves `LoopSound` of the `runtime` run, for any
workers, connections, callers of `shutdown` and bounds, and for all values of `Registered`, `Apart`, `Inside` and `Early`, also
those under which liveness fails. For `EventMeth` the invariant adds that only counters are renewed, that only
the timer has a timeout, and that the loop holds `interest_mutex_` in the two places where a
deletion would hurt (`Holding`). For `PistacheServer` it adds who holds `reg_unreg_mutex_` when (`Locked`), that the
destructor's own `shutdown` has set the flags of the workers it is done with (`Shutting`), and that handlers are taken only
after that (`Taken`); a worker that polls without handlers therefore finds its flag set.

The same module proves `SessionsSound` and `SessionsHonoured` of that run (`IdsAssumption`, `RequestsAssumption`,
`StoresAssumption`, `BoundsAssumption` of `CrowSession`). Reference counts are cardinalities of the set of requests that hold a session, so the proof
counts with the library's theorems about finite sets. Beside the properties themselves the invariant
says that nobody made up a session (`Given`), that a session nobody changed is what its file says (`Clean`; otherwise dropping
it from the cache could lose values, while a file emptied by a crash says nothing), that it keeps its time while it is cached (`Timed`; it would be saved without one), and
that a session stays in the store until it expires as long as none of the known faults happened
(`Lasting`, for `SessionsHonoured`). It yields `SessionsAreSound` and `SessionsAreHonoured`.

Its last section proves `UploadsSound` (`UploadsAssumption`: the assumptions of `WebServer` on targets, killers, the limit
and the bodies) for any clients, bodies, callers of `stop()` and targets, under two hypotheses. `RandomNames`: with the client's own
file names two uploads of one name write one file, as section 4 lists. `ContentLimit >= 1`: a call's data, one symbol
here, fits the limit; `set_arg` cuts what does not, on purpose (`grow_last_arg` never cuts, see `ArgsBounded` in section 4). `BodyAssumption` says
what `libmicrohttpd` calls the iterator with: a call with an offset (`more`) goes on with a value under that key and name that has
begun. `FilesWhole` and `ArgsWhole` speak of positions, not of folds: what a file holds is one symbol for each call that was for it, the
one of rank r being that of the r-th such call (`Sent`), so that a step of the iterator adds one
call to a set (`Upto`) and no induction over the body is needed. The invariant `UploadInv` says this
of the calls made so far (`Written`, `SoFar`), and what keeps it true: each path on disk is that of one
entry of one live request (`Kept`, `DiskInv`), no two paths are one file, the open stream is that of the last call's entry
(`Opened`), and only a request whose name failed has an entry without a path. The theorem is `UploadsAreSound`.

**Model-checked only**

- all liveness properties: fairness and `ENABLED` are out of the prover's reach;
- the parsers, the routers, the resources and the address policy compute functions of their input along a
  sequence or a tree (`RouterSound`, `MessagesExact`, `CrowMessagesExact`, `CrowRoutesSound`, `LibhttpSound`); `CrowRouting` is
  recursive as well;
- nothing is proved about recursive definitions.

## 6. Running

    tlc -config MCMPMCQueue.cfg MCMPMCQueue
    tlc -config MCServerTransport.cfg ServerTransport
    tlc -config MCRuntime.cfg MCRuntime
    tlapm MPMCQueueProofs.tla

Each run takes at most a few minutes; so do the proofs, of which `RuntimeProofs` takes about eight and
`CrowProofs`, the longest, about twelve.
