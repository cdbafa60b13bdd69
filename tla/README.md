# A verification development for ellar

ellar is an ASGI web framework: modules, dependency injection, guards,
interceptors, exception handlers and a cache, on top of starlette and of the
`injector` library. This directory holds TLA+ models of its run-time core and of
the algorithms that decide about routes, parameters, responses, access and
providers, the TLC configurations that check them on small instances, and proofs for the
TLA+ proof system. Paths are relative to the repository (`ellar/...` is
`src/ellar/...` in `PROJECT.json`, where every definition is mapped to the lines
it models).

Running, in this directory:

    tlc -workers 2 -config RequestPipeline.cfg RequestPipeline
    tlapm RequestPipelineProofs.tla

## 1. The system

| Component | State it keeps | Operations | Speaks to |
|---|---|---|---|
| HTTP pipeline (`core/middleware/*`, `common/routing/base.py`, `core/guards`, `core/interceptors`, `core/exceptions`) | per request: the ASGI scope with its "response started" flag, the flags of the two exception layers, the interceptor cursor | middleware in and out, guards, interceptors, endpoint, response, exception handlers, the 500 handler | server (`send`), injector (context of the request), application code |
| Local memory cache (`cache/backends/local_cache.py`, `cache/model.py`, `cache/service.py`) | `_cache`, `_expire_track`, an `anyio.Lock` | get, set, delete, touch, has_key, incr, decr, each async and sync | tasks of the event loop; pool threads through `run_until_complete` |
| Remote cache backends (`cache/backends/redis`, `pymem_cache.py`, `pylib_cache.py`, `base.py`) | a client each; the entries are on servers | the same operations, each one command of a server or two | external servers |
| Response cache (`cache/decorator.py`, `make_key_decorator.py`) | none of its own | look up, run the endpoint, store | interceptors, a cache backend |
| Injector and scopes (`di/injector/ellar_injector.py`, `di/scopes.py`, `di/asgi_args.py`) | `SCOPED_CONTEXT_VAR`, a context per request, the singletons | `get`, `create_asgi_args`, `update_scoped_context` | pipeline; tasks and threads of a request; mounted applications |
| Application factory (`core/factory.py`, `core/main.py`, `core/modules`) | module references, configuration lists, routes, the middleware stack | read modules, create the App, `install_module`, `add_exception_handler` | injector, router, exception service |
| Lifespan (`core/lifespan.py`) | two task groups, one after the other | `before_init`, `on_startup`, `on_shutdown` of the modules, `DEFAULT_LIFESPAN_HANDLER` | server, modules |
| Exception handlers (`core/exceptions/service.py`, `common/exceptions`) | handler tables by class and status code | build, look up | stack, pipeline |
| WebSocket routes (`common/routing/websocket`) | per connection: the state of the socket, a close code | guards, parameters, connect, receive, disconnect | server, pipeline layers |
| Socket.IO gateways (`socket_io`) | one gateway instance per connection, with the context of the latest event | connect, messages, disconnect, each in a task | the Socket.IO library |
| Sessions (`core/middleware/sessions.py`, `auth/session`) | none on the server: a signed cookie | load, send back | client, pipeline |
| Authentication and policies (`auth`, `core/middleware/authentication.py`) | a table of schemes, the identity in the scope, a table of policy classes | schemes in order, guards, interceptors, policies | pipeline |
| Password hashing (`core/security/hashers`) | the algorithms that are installed | make, check, make anew | application code |
| Routes and versions (`common/routing`, `core/routing`, `core/versioning`) | collections, sorted | declare, sort, match | factory, router |
| Controllers and metadata (`common/decorators/controller.py`, `reflect`) | the metadata table, made while files are imported | mark, define, derive, reflect routes | router factory, reflector, documents |
| Providers (`di/injector/container.py`, `di/service_config.py`, `core/factory.py`, `testing/module.py`) | the bindings and the singletons made | read modules, register, install, override | injector |
| Parameters (`common/params`) | the fields a signature was compiled to | compile, resolve | route operation |
| Responses (`common/responses`, `common/serializer`) | the models of a route | choose, validate, send | route operation |
| OpenAPI (`openapi`) | none | build a document | routes, parameters, responses, guards |
| Templating, configuration, events, execution contexts | none at run time, or read-only | | pipeline |

Where the behaviour is hard:

- **One event loop, and threads beside it.** Synchronous code is one step for
  the tasks of the loop, and not for a thread of the pool. The cache's lock is
  made for the first and used from the second; the injector holds the library's
  lock in some places and not in others.
- **Who has answered.** Four layers can answer a request. Each knows by a flag
  of its own whether another has, and application code may raise at any point,
  also after a part of the response was sent.
- **Who owns the context.** A context variable is set and reset by the
  coroutine of the request, copied by what it starts, and set again by a mounted
  application.
- **Derived state.** Stack, exception service and router are derived from
  lists that change in several ways, before and after the application started.
- **Task groups.** Startup and shutdown hooks run side by side, and one that
  raises cancels the rest.
- **Time.** Cache entries expire between a look and its use.
- **Servers that do one command at a time.** What needs two commands, or a look and
  a store, may be interrupted by anybody.
- **Connections.** The client may leave between any two steps; handlers of one
  connection overlap, and each may close it.
- **Order of declaration.** Routes, schemes, providers, parameters and decorators
  are declared in many places and put into tables by import order, by sorting or by
  hash. What is decided in the end may depend on an order nobody chose.
- **Two derivations of one thing.** A document and a route table are made from the
  same declarations by different code.

`PROJECT.json` lists these hazards at their lines, with the property that covers
each one, or the reason why none does.

## 2. The modules

| Module | Models | Form |
|---|---|---|
| `ExpiringCache` | what the documents promise of a cache backend | abstract specification |
| `LocalMemCache` | the local memory cache, tasks of one event loop | refines `ExpiringCache`, but for named calls |
| `LocalMemCacheProofs` | proofs about it | |
| `SyncCacheAccess` | the lock and the counter of the same backend, from threads with a loop each | instruction level |
| `SyncCacheAccessProofs` | proofs about it | |
| `AsgiExchange` | what an ASGI application promises the server | abstract specification |
| `RequestPipeline` | one HTTP request through all the layers | refines `AsgiExchange` |
| `RequestPipelineProofs` | proofs about it | |
| `RequestScope` | the injector at run time | state machine |
| `RequestScopeProofs` | proofs about it | |
| `ApplicationLifecycle` | factory, App, exception handlers, lifespan | state machine |
| `ApplicationLifecycleProofs` | proofs about it | |
| `RemoteCache` | redis and memcached behind `CacheService` | state machine, extended by `RouteCache` |
| `RouteCache` | the interceptor of `@Cache`, composed with `RemoteCache` | state machine |
| `RouteCacheProofs` | proofs about both | |
| `WebSocketSession` | one connection to a WebSocket route | state machine |
| `SocketGateway` | one client of a Socket.IO gateway | state machine |
| `SessionCookie` | the session of one client | state machine |
| `ConnectionsProofs` | proofs about the three kinds of connections, as `MCConnections` composes them | |
| `Parameters`, `Routes`, `Responses`, `Access`, `OpenApi`, `Providers`, `Controllers`, `Passwords` | pure algorithms, each with a reference definition | operators |
| `Decisions` | `Parameters`, `Routes`, `Responses`, `Access`, `OpenApi` and `Passwords` on any input | one action per algorithm |
| `AlgorithmsProofs` | proofs about `Decisions` | |
| `MCRouteCache`, `MCAlgorithms`, `MCRequests` | values and inputs for the run `Requests`, and the other two algorithms | |
| `MCLocalBackend` | the tasks of `LocalMemCache` or the threads of `SyncCacheAccess` for the run `LocalMemCache` | |
| `MCConnections` | a connection of one of the three kinds for the run `Connections` | |
| other `MC...` | values of the constants, and what a document says where the code disagrees | |

Definitions that begin with `Bug` are plausible mistakes in the definition that
follows. No specification uses them; `PROJECT.json` names, for each property, the
one that breaks it.

### LocalMemCache

`cache` and `expire` are `_cache` and `_expire_track`; `owner` and `waiters` are
the `anyio.Lock`: a free lock is taken at once, and a release hands it to the
head of the queue. Everything between acquiring and releasing runs without a
suspension point, so the body of an operation is one action (`GetAsync`,
`SetAsync`, ...), while a call, its wait, its cancellation and its return are
actions of their own, and the clock may tick between any two. `BackendTtl` is
`get_backend_ttl`: `None` is the default, 0 is one second ago. `HasExpired` is
true of an untracked key, as in the code; `touch_async` leaves an expired entry
in place, and `delete_async` does not look at the expiry at all.

*Properties.* `TablesAgree`: the readers look at one table and index the other. `LockOK`:
cancelled callers leave nothing in the lock. `NoResurrection`: only a set makes a dead key
live. `KeepsPromise`: filtered by its live entries the backend implements `ExpiringCache`,
in which there is no lock, no queue, and no expired entry. That module is written from the
documents (`cache/interface.py`, `docs/techniques/caching.md`): a ttl of 0 means never,
counting what is not there starts at 0. In the calls where the code does otherwise
(`Contradicted`: an explicit ttl of 0, a configured one of 0 or none, counting what is not
there), nothing is promised about the reply and the key of the call, and all else still is
(`Unpromised`); two runs show two of these contradictions, section 5 lists all three. Deltas
are any integers, as the code takes them. `EveryCallEnds`.

### SyncCacheAccess

A synchronous endpoint runs in a pool thread, and the wrappers run their
coroutine in an event loop of that thread. All of them use one `anyio.Lock`,
whose `acquire` tests the owner and then sets it, and whose `release` tests the
waiters and then clears the owner. The module has each of these as a step of its
own, for threads that increment one counter. `OverlapByTaking` names the cause of what
goes wrong: the only step that brings a second thread past the lock is a `TakeLock` after
an earlier test, never a lock handed over, whatever other threads have overwritten or wiped.
`Block` is a thread in its selector that nothing wakes: a woken event of another
loop only appends a callback there.

### RequestPipeline

One request. `stage` and `level` are where it is (which layer, and which
middleware, guard or interceptor), `exc` the exception on its way out. The
order of the layers is that of `App.build_middleware_stack`:
`RequestServiceProviderMiddleware` (which also answers 500), versioning, session,
identity, user middleware, `ExceptionMiddleware`, router, guards, interceptors,
endpoint, response. `flag`, `seen` and `serverSeen` are the three records of a
started response; `StartFrom` says which of them a start message passes on its way
to the server. Application code chooses at each place whether it returns, raises
a "known" exception (one with a handler) or an "unknown" one, answers itself, or
hides an exception. A function middleware may also return something that is no
`Response`: then `FunctionBasedMiddleware` sends nothing (`core/middleware/function.py:66`),
and unless it had called the next layer the call ends without an answer and without an
exception (`MiddlewareIsSilent`, `MiddlewareHides`; `muted` records it).

The contract the model assumes of application code, because the code relies on it and does
not check it: a function middleware does not answer a request that is answered already; an
interceptor calls the next one at most once; what is awaited returns or raises.

*Properties.* `OneStart`, `GuardsDecide`, `Answered` (a call that ends has started
a response, or its 500 handler failed and the exception was re-raised, or a function
middleware returned no response: the framework itself drops nothing),
`CutOffReported`, and `KeepsContract`, the refinement of `AsgiExchange`, which has
the termination of the call too, and names the one breach that application code can
commit (`Drop`).

### RequestScope

A context is a `RequestScopeContext`; `var` is `SCOPED_CONTEXT_VAR` in each task.
`get` is synchronous: a task of the loop finishes it before another task runs
(`Runs`), and a thread interleaves. Resolving is a stack of frames, one per
dependency, with the three moments that matter: the scope is asked (`Find`,
`Build`), the dependency is resolved, the instance is constructed and kept
(`Construct`). `Holds` says which of them lie inside the reentrant lock of the
injector library: building a singleton, and resolving a constructor's
dependencies, but not `RequestScope.get`. A mounted application sets the variable
again and resets it to `None`. `given` records what callers and constructors got.
A constructor has at most one dependency in the model, and dependencies form no circle
(`DependencyAssumption`): the library raises `CircularDependency` for one.

*Properties.* `OneSingleton`, `ContextsApart` (no request gets an object of
another one), `OnePerContext` (all that the event loop runs for a context shares
one object; a request that uses pool threads is excluded, and the run
`RequestScopeInstantiatedOnce` shows why), `EveryGetEnds`.

### ApplicationLifecycle

The phases of an application, from `AppFactory` to the end of the lifespan.
`configured` is `config.EXCEPTION_HANDLERS`, `handlers` the copy the App took of
it, `service` and `stack500` the tables in the two layers of the current stack.
`todo` is what the factory has still to read; a module whose setup waits for services is
kept in `dynamic` until the injector has those of the static ones, and one that waits for
the App in `dependent` until there is one.
Synchronous code up to the lifespan is one action per call; `install_module` has
its three outcomes (done, a provider that cannot be registered, a `before_init` or
constructor that raises); `add_exception_handler` takes one or two handlers, with
the comparison of the code (`IsAdded`, `Adding`). The lifespan's task groups have a task
per hook: scheduled, running, done, failed or cancelled. The loop over the modules is
one action per module (`InitModule`: `before_init`, the constructor, the hook's task), and
ends (`LoopEnds`) or breaks off because a module raises (`LoopBreaks`), after which hooks
that were scheduled still begin. It never suspends, so no hook begins before (`Hook`).

*Properties.* `StackCurrent` (the stack in use is the one a build from nothing
would give), `RoutesComplete` (every module that should be reachable is, once), `ServesStarted`,
`InitialisedFirst` (while nothing has raised, the first hook runs after `before_init` of
every module, also of those after its own in the loop; and no hook ever before that of its
own module), `StopsStarted`, `LifespanEnds`.

### RemoteCache and RouteCache

A call of `CacheService` becomes a command of a server (`Command`), or two when redis
gets ttl 0 or memcached refuses a value: `at` is `"between"` while anybody else may act.
`Begin` is `get_backend` and the choice of a server; redis chooses for writing only when
told to, and no operation tells it, so `PickServer(FALSE)` is any server but the first.
The two backends differ in ttl (`RedisTtl`, `MemcachedDeadline`), counters, touch and
what they accept, and so do the actions. `RouteCache` adds requests: `Lookup`,
`ServeCached` or `Miss`, `Compute`, `Stored`, while `Change` moves what endpoints read.
`data` 0 stands for a response that is false, which is stored and never served. Every
request has the options of its own handler; as a key is the url and a prefix, without the
method, the handlers of one url share an entry though their options differ. Any command may
fail (`Fails`), and the delete after a set that memcached refused may do nothing, since its
result is not looked at (`MemcachedForget`).

*Properties.* `FreshResponse`: no response comes from the cache after the ttl of the handler
that stored it (`Lifetime`), for either unit of ttl, any server, any overlap of stores, and
though an old value may stay when a new one is refused. It may be older than the handler
that is asked would have allowed (section 5). `OwnResponse`. Both assume that other
tasks of the application leave the keys of cached routes (`RouteKeys`) alone
(`KeyAssumption`), and that a ttl is a natural number or none (`OptionsAssumption`).

### WebSocketSession, SocketGateway, SessionCookie

`WebSocketSession` follows `handle_request` and `WebSocketExtraHandler.dispatch`.
`closeCode` is the local variable of that name, which an exception with a code of its
own leaves at 1000, and `wireCode` what the client saw. `on_connect` runs before the
`try`, so that `on_disconnect` follows only if it returned.

In `SocketGateway` every event is a task (`op`): context, guards, parameters, handler,
and on an error a message and a disconnection. `ServerDisconnect` waits for the handler
of `disconnect`, which is an event too; the library makes a second disconnection of
one client return at once. `context` is the attribute all of them share.

`SessionCookie` has the client's cookie (`jar`), the copy a request carries and
`scope["session"]`. `LateChange` is a change after the headers are out. `Fail` is an
exception that nothing inside handles: the 500 is sent by the outermost layer
(`core/middleware/di.py:60`), not through the `send` that `SessionMiddleware` wraps, so it
carries no `Set-Cookie`.

*Properties.* `DisconnectOnce`, `LeavingEnds`; `ToldWhy`, `EventsEnd` (no cycle of
disconnections waits for itself); `SequentialSession`: requests that do not overlap leave
the client exactly what those of them did that were answered through `SessionMiddleware`,
and those that ended in that 500 leave the session as it was.

### The algorithms

Each of these modules has the algorithm of the code as operators and, after the last line, a
reference definition that is not derived from it: what the documentation says of a single
parameter, of a single route, of a policy as a Boolean formula. One input is taken up at a
time (`case`), and one invariant per module compares the two. `Decisions` does this for six
of them, with the inputs as constants; `MCAlgorithms` gives these values, and has the other
two, which are checked only. Where the code is known to do something else, a predicate names
these inputs (`Unusual`, `StatusLost`, `Entangled`, `TurnedAway`, `Misread`, `Outrun`,
`Unprocessed`, `Unmarked`, `Unlucky`), the comment of the invariant says what it leaves to
them, and section 5 lists them. They are not violations of a run because each has a reading
under which it is intended, or the documents do not say.

- `Parameters` (`ArgumentsBound`). `FieldOf` is the compilation of a parameter,
  `ResolveDependencies` the reading of a request. A value is the set of places it was read
  from, so that a value from the wrong place or under the wrong name shows. Body, form
  and file parameters become one combined field whose kind is the media type that sorts
  last. `Together` is what several resolvers give: the last value of a name, and the
  errors of all. A path, a cookie, and a form that a body parameter is read from, hold one
  value each (`Single`), and a missing one is validated as null. A body parameter whose form
  is empty is looked for in the raw body once more (`ReadAgain`). Reference: `Wanted`.
- `Routes` (`RouteChosen`). Sorted collections on two levels, full and partial matches,
  versions with a default, 404, 405 and 406. Sorting is by the characters of a path
  (`Code`, a constant), and `Served` takes routes by their ranks instead of building the
  sorted list. Reference: `RightAnswer`, over the flat set
  of routes: of those that fit, one whose segments all come before `{` (`BeforeParam`) wins
  over one that takes a parameter.
- `Responses` (`ResponseSent`). Status from a pair, a response object or the only
  declared one; the model of that status, or Ellipsis, or an empty one. Reference:
  `SentAsDeclared`.
- `Access` (`RightlyAdmitted`). Schemes, guards, interceptors and policies up to the
  endpoint. A policy is a list of nodes, each of which combines nodes before it, and `made`
  is what was declared before the route. `ClassFor` is the table of policy classes that all
  policies with a requirement share. A scheme that raises (`Broken`) ends in a 500, since
  `IdentityMiddleware` lies outside `ExceptionMiddleware`; the bearer scheme raises for
  every other word. Reference: `RightlyEntered`, but for two schemes or requirements that
  share a name or a hash (`Entangled`), and for a request that the first scheme to answer
  broke off or left without a name (`TurnedAway`).
- `OpenApi` (`DocumentRight`). The operations of a document: which parameters and body each
  shows, which responses and guards, and which route is described last of a path and a method.
  The reference is the other derivation: `Sources` runs `ResolveDependencies` on a request
  that has all the endpoint can take (`Everything`), and the places its values come from are
  compared with those shown. An endpoint that refuses even this request, as one with a
  model for its body beside a file, is not compared.
- `Providers` (`ProviderChosen`). Modules are read depth first into a dictionary, built in
  reverse, those that wait for services or the App last; each registers its providers,
  then `register_services` hooks run. Reference: the outermost module that declares a type.
- `Controllers` (`ControllersServe`). The statements of a file, one class each, with
  guards below and above `@Controller`. `Target` and `Mark` are the attribute by which a
  class names its metadata, which a derived class inherits. Reference: own and inherited
  routes, own guards. A file raises exactly when a class is `Reused` or `Unmarked`, and only
  a class that is `Unprocessed` may be left without its routes.
- `Passwords` (`PasswordsChecked`). A hash made under one table of algorithms and costs is
  checked under another, and made anew by the setter. A hash is what it was made from, and
  an algorithm what it distinguishes of a password; those of two algorithms are assumed to
  begin differently. Reference: `LoggedInRightly`, which allows a check to raise only when the
  preferred algorithm is gone; of `Unlucky` ones it still says that no wrong password passes.

## 3. The runs

| Run | Instance | Distinct states | Shows |
|---|---|---|---|
| `LocalMemCache` | 3 clients, 1 key, 1 call each, ttl 0, 1 or none, deltas -1 and 2, clock 0..1; or 3 threads | 315,600 | all properties of `LocalMemCache`, and `OverlapByTaking` |
| `LocalMemCacheTtlZero` | the same, ttl 0 | violation | a set with ttl 0 is unreadable at once |
| `LocalMemCacheCounters` | the same, ttl 0, delta 1 | violation | `incr` of a missing key stores nothing |
| `SyncCacheAccessLost` | 2 threads | violation | an increment is lost |
| `RequestPipeline` | 2 middleware, 2 guards, 2 interceptors | 552 | all properties of `RequestPipeline` |
| `RequestScope` | 2 requests, one with a task and one with a thread, a singleton and a request-scoped service that needs it, 2 calls, mounts and overrides | 223,400 | all properties of `RequestScope` |
| `RequestScopeInstantiatedOnce` | the same, without mounts and overrides | violation | two objects in one request |
| `ApplicationLifecycle` | 4 modules, one of each setup, handlers for 400, 404 and 500, 2 installations | 13,133 | all properties of `ApplicationLifecycle` |
| `ApplicationLifecycleModuleHandlers` | the same | violation | handlers of late modules never apply |
| `Requests` | 2 symmetric requests, 1 or 2 urls, equal or different options, a task, 3 redis servers, memcached, 1 call each, clock 10..11, 1 change; or one input of an algorithm | 4,268,257 | all properties of `RouteCache` and of the algorithms |
| `Connections` | 3 messages on a WebSocket; or 2 messages to a gateway; or 3 visits with 2 changes each | 297,853 | all properties of the three modules |
| `SocketGatewayGuards` | the same | violation | the handler of a refused event runs |

`LocalMemCache`, `Requests` and `Connections` each check models that share no state: a run
explores one of them at a time, and the others stay at their initial states.

Why the bounds are enough:

- *LocalMemCache.* Operations touch one key, and the tables have no other
  dependence between keys, so one key suffices. Three clients are the fewest for
  which one owns the lock while two queue, so that order and cancellation in the
  middle of the queue happen. Within one call each, three operations follow one
  another on the same key; a set, an expiry and a touch are among them. Deadlines
  are -1, 0 (+1) and 2 ticks away, so entries are dead at once, die during the
  run, and outlive it. A negative delta turns an increment into a decrement below zero.
- *LocalMemCache, threads.* Two threads lose an increment; the third makes a queue of
  two and a hand-over to a waiter while another thread is between test and set.
- *RequestPipeline.* Two of each layer are the fewest that have an inner and an
  outer one; the safety properties are proved for any number.
- *RequestScope.* Two calls race on one service from any two of the four tasks;
  with a dependency each is two or more frames deep.
- *ApplicationLifecycle.* One module per setup; the handlers collide on 404 and on
  500; two installations can repeat a module or fail and then repeat.
- *Requests, cached endpoints.* Two requests overlap in every order of look, endpoint
  and store; the task sets, deletes, touches and counts on its own key, with ttl 0 and with
  none, on both backends. One tick separates the ttl of 1 from the default of 2. With
  three servers, redis chooses between two for each read and each write.
- *Requests, algorithms.* Parameters: pairs, since every interaction is of two (one combined
  body, one alias that is another's name); each kind with a default, null or none; bodies
  that are null, malformed or no JSON, and form values that are empty. Routes: three in two
  mounts, where one may hide another within its mount or across, with a parameter, a method
  and a version each. Responses: all sets of three statuses with seven models. Access: two
  schemes of five kinds, keys in every place but a cookie, three levels of guards,
  interceptors and policies. OpenAPI: three routes in two mounts, with any two parameters,
  or with guards on two levels. Providers: four modules with a diamond, every kind of setup,
  overrides of a test. Controllers: three classes, a chain or a fork. Passwords: five
  algorithms and one of the application's own, any of which may change its cost or be gone.
- *Connections.* Three messages put a good one before and after one that fails; two
  messages of a gateway with connect and disconnect are four tasks on one instance; two
  visits overlap while a third comes before or after.

`CHECK_DEADLOCK FALSE` is set in every configuration because the systems stop: a
request ends, an application stops, callers have made all their calls.

**Fairness.** `LocalMemCache`: weak fairness of the body and the return of each
call, because the event loop resumes every ready task; none for calls,
cancellation or the clock. `RequestPipeline`: weak fairness of `Next`: there is one
request, the loop resumes it, and application code returns. `RequestScope`: weak
fairness of `Resolve` per task, since `get` is synchronous and threads are
scheduled; no request has to arrive, go on or close. `ApplicationLifecycle`: weak
fairness of `Lifespan`, as the server drives the lifespan and hooks return or
raise; neither the application's calls nor the server's shutdown are fair.
`SyncCacheAccess` states scheduling of threads and checks no liveness; with
`Block` a thread may wait for ever. `Connections`: weak fairness of the server's side of
a WebSocket and of each task of a gateway, since the event loop resumes what is ready
and handlers of the application end; none for the client. `Requests` checks no liveness.

## 4. The proofs

TLAPS proves the following for all values of the constants that satisfy the assumptions
named; TLC evaluates these assumptions in every run of the module. The bounds that keep
TLC's runs finite (`MaxTime`, `MaxCalls`, `MaxGets`, ...) are constants too, so that the
theorems hold for runs of any length.

**`LocalMemCacheProofs`**, from `NobodyAssumption`, `ValueAssumption`,
`DeltaAssumption`, `TtlAssumption` and `DefaultAssumption`:

- `Typing`, `TablesTogether`, `LockBookkeeping` (`TypeOK`, `TablesAgree`, `LockOK`), all
  from `Invariance`. The inductive invariant `IInv` is their conjunction: typing needs the
  lock, since only its owner runs a body and only then is its request a request; `LockOK`
  rests on three lemmas about taking, handing on and leaving the queue (`AcquireLemma`,
  `ReleaseLemma`, `RemoveAtLemma`), `TablesAgree` on what each body does to the tables.
- `OnlySetRevives`: the action property `NoResurrection`. A body that is not a set leaves
  a dead key out of the tables or its deadline alone, and time only moves deadlines closer.
- `Refinement`: `KeepsPromise`, for any deltas, ttls and configured ttl: each step is one of
  `ExpiringCache`, a stutter, or the answer to a call that is `Contradicted`, which changes
  no other key (`Unpromised`).
  `LiveEntries` is what the mapping puts for the abstract store. Evicting an expired entry
  does not change it (`EvictLemma`), and neither does a tick other than by what the
  specification lets die; `BodyEffect` says of each body which operation of
  `ExpiringCache` it is. The mapping needs one more fact (`RInv`): a call that is not done
  has no reply, so that a cancelled one leaves none behind.

**`SyncCacheAccessProofs`**, from `ThreadAssumption`, for any number of threads:

- `OnlyTornAcquire`: `OverlapByTaking`. The invariant is: until two threads overlapped, at
  most one is past the lock (`Apart`), and (`OwnerInside`) the owner is the thread inside,
  or was wiped by one on its way out. So a waiter that was handed the lock is never the
  second.
- `NothingInvented`: however many threads overlap, the counter never shows more increments
  than were written, because what a thread has read never did.

**`RequestPipelineProofs`**, from `LayersAssumption`, for any number of middleware, guards
and interceptors:

- `Typing`, `OneResponse`, `RefusalIsFinal`, `EveryRequestAccounted`, `CutOffIsReported`:
  `TypeOK`, `OneStart`, `GuardsDecide`, `Answered`, `CutOffReported`.
- `Contract`: the initial states of the pipeline are initial states of `AsgiExchange`, and
  every step is a step of it or a stutter.

`Answered` and `Contract` name the one way in which a call goes unanswered: `muted`, a
function middleware that returned no response. The inductive invariant has four parts beside
the types. `FlagsAgree` relates the three flags to the messages the server got:
`ExceptionMiddleware`'s is exact for what lies inside it, the error layer's until that layer
itself answers. That is why the two layers never answer twice. `Progress` says how far the
response is at each place, `Refusal` that a refused request has left the route for good, and
`Accounted` that on the way out an exception, an answer, a failed 500 handler or a
middleware that returned nothing stands for every request.

**`RequestScopeProofs`**, from `BindingAssumption`, `DependencyAssumption` and
`TaskAssumption`, for any requests, tasks, threads, services, scopes and dependencies:
`OneObject` (`OneSingleton`), `RequestsApart` (`ContextsApart`), `OnePerRequest`
(`OnePerContext`). The invariant `ScopeInv`:

- `Owned`: a context that is in use, in a task's variable, in a frame or in what was
  given, is in use by one request only. It has to cover all three places, because a frame
  keeps its context when a mount sets the variable again.
- `Stacked`: all frames of a task but the last wait, and each is about a service deeper in
  the dependencies than the one below. So a frame is the only one of its task for its
  service, and what is built above it is not what it is about to keep.
- `Mutex`: the library's lock has one holder; `Singles`, on top of it: while a singleton is
  being built there is none, and what was given of it is the one that is kept.
- `Kept`: no two contexts keep the same object, and none keeps one given in another.
- `Sole`: what the event loop was given in a context is what the context keeps. It is only
  claimed of a request without a thread, and needs that no other task of it runs while
  one is inside a `get` (`AloneLemma`); with a thread it is false, which the violation
  run shows.

**`ApplicationLifecycleProofs`**, from `ModuleAssumption` and `HandlerAssumption`, for any
modules, setups and trees, any handlers, and any order of installations:

- `RoutesOnce`: `RoutesComplete`. While the factory works, a module is in one of its lists
  or has its reference, never both (`Reading`); the routes are those of a first part of the
  references until there is an application, and then those of all of them but the broken
  (`RoutesFollow`).
- `StackNeverStale`: `StackCurrent`. The tables are built from those of the build before,
  not from nothing. `BuiltLemma` says that this makes no difference if the list of handlers
  has only grown at its end (`Extends`), which is what `add_exception_handler` does.
- `ServingAfterStartup`, `InitialisedBeforeHooks`, `StoppedAfterStarted`: `ServesStarted`,
  `InitialisedFirst`, `StopsStarted`. The invariant is `HookInv`, whose core is `OpenStart`:
  while the startup group is open, each module that is present is initialised or still
  `pending` in the loop, during which no hook runs, and otherwise its hook waits, runs or
  has returned. A group that ends open has therefore started them all.

**`RouteCacheProofs`**, from `ServerAssumption`, `BackendAssumption`,
`RemoteBoundAssumption`, `RequestAssumption`, `OptionsAssumption` and `KeyAssumption`, for
any requests and other callers, servers and backends, and any options of each handler:
`OwnResponses` (`OwnResponse`), `FreshResponses` (`FreshResponse`). `CacheInv` follows a
response through its stations: the call of a request carries its own key and response
(`Asking`), what a server keeps under the key of a route is a response of its url that dies
in the time its own handler gave (`Entries`), and so is what a get answers (`Answers`), as
long as the answer waits to be taken.

**`ConnectionsProofs`**, from no assumption, for any number of messages, tasks, visits and
changes:

- `TornDownOnce`: `DisconnectOnce`; where the connection stands says whether it was entered
  and whether its handler has been told (`WsInv`).
- `WarnedBeforeClosed`: `ToldWhy`. A task that is about to close the connection has warned
  the client, unless the connection was closed already, and a closed one stays closed; so
  this remains true of each such task while the others go on (`GatewayInv`).
- `SessionKept`: `SequentialSession`. Without overlap at most one request is away, and what
  had to be kept is, one after the other, in the cookie it carries, in its session, in the
  cookie of its response and in the client's jar; `before` is what the jar holds meanwhile,
  to which a request that fails goes back (`CookieInv`).

**`AlgorithmsProofs`**, from the assumptions of `Routes` and `Decisions`: six of the
algorithms are right for every input. Each theorem has a form about one input
(`ArgumentsRight`, `RoutesRight`, `ResponsesRight`, `AccessRight`, `DocumentsRight`,
`LoginsRight`) and one about `CaseSpec`, whose only invariant is that `case` is an input
(`Inputs`):

- `ArgumentsGiven` (`ArgumentsBound`), from `ParameterAssumption`: parameters are declared as
  Python allows, with different names. `ReadLemma` says of each resolver that it gives what
  `Wanted` wants of one field, `PartsLemma` the same of a model, `MemberLemma` and `WholeLemma`
  of a body. `Binds` says of a result that it has the values of some of the parameters, or
  errors when one of them has none; it holds of every resolver alone and of `Together`
  (`JoinLemma`), so that of the whole signature as well (`ResolvedLemma`).
- `RoutesAnswered` (`RouteChosen`), from `CodeAssumption` (segments have numbers by which
  they are sorted, no two the same) and `RouteAssumption`. Where the mark of a parameter
  comes in that order is left open. The order of routes is a total one (`PrecedesTotal`), so
  that each route has a rank of its own and `Served` takes all of them, each once
  (`ServedLemma`, where the ranks are counted); the first that matches is then the least one
  that does (`FirstLemma`), and a path of segments before the mark comes before what would
  hide it (`LiteralFirst`). The default version is not the string by which a missing one is
  marked (`NotSet`).
- `ResponsesSent` (`ResponseSent`), from `ResponseAssumption`: finite tables of models, and
  statuses from 100 to 599 or Ellipsis where one may be declared.
- `RequestsAdmitted` (`RightlyAdmitted`), from `AccessAssumption`: a user has its own id, a
  policy was declared before it is asked, and of each thing there is at most one. `InForce`
  gives the nearest list (`InForceLemma`), the first scheme that answers decides
  (`AuthenticatedLemma`), and a policy whose requirements hash apart is what it says
  (`HoldsLemma`). But for `Entangled` and `TurnedAway`; a key of a scheme is never empty.
- `DocumentsDescribed` (`DocumentRight`), from `DocumentAssumption`: the parameters of the
  routes were accepted when they were declared. It rests on `ResolvedLemma`: a request with
  everything in it is read where each parameter was declared (`SourcesLemma`, `AllRead`). What
  is shown are these places and the names of the paths (`InputsShown`, `PlacesLemma`), one
  parameter for each name (`ParametersLemma`), and nothing that is described later replaces an
  operation unless it has its path and method (`LastDescribed`).
- `LoginsChecked` (`PasswordsChecked`), from no assumption: any tables of algorithms and costs,
  then and now, any passwords, salts and preferred algorithms.

**What proof attempts found.** These places were changed because a proof failed for a good
reason:

- `FreshResponse` is not inductive unless the keys of routes are told from those of other
  tasks, which the models now say (`KeyAssumption`).
- Several algorithms were written as CASE with overlapping guards, which TLA+ does not take
  in order as `if` and `elif` are, although TLC does: they are IF, ELSE IF now.
- What a fold or a recursive operator builds cannot be reasoned about by these provers. The
  sorted list of routes, the policies, the combined results and the document are therefore
  written by places and ranks; TLC found the same as before.
- The reference for parameters said too much: a list in a cookie or in a form that a body
  parameter is read from, an empty value of a form, a body of `null` with a null default,
  and a default that is never used where null is validated in its place. The first three are
  now what `Wanted` says, the last is in `Unusual`. `Unusual` had also excluded more than
  needed of the shorthand and of defaults; it is narrower now.
- A name of the path whose parameter has an alias is shown in a document under the alias
  only, and a handler with an empty list of guards is shown with those of its controller
  (section 5).

**Only model-checked:**

- Everything under fairness: `EveryCallEnds`, `EveryGetEnds`, `LifespanEnds`,
  `LeavingEnds`, `EventsEnd`, and the termination in `KeepsContract`. Liveness and ENABLED
  are out of the prover's reach.
- `ProviderChosen` and `ControllersServe`. The first reads a tree of modules and the second
  carries out a file, statement by statement, each changing what the next one finds: what
  these recursive operators and folds compute is an induction over data.

## 5. Where code and documents disagree

Shown by a run, in `PROJECT.json` under `findings`:

- a ttl of 0 expires at once (`cache/model.py:79`), while `cache/interface.py:40`
  says it never does;
- `incr` and `decr` of a missing key raise `ValueError` (`local_cache.py:144`), while
  `cache/interface.py:71` and `:79` say it is set to 0;
- the local cache is not thread-safe (`local_cache.py:17`), against
  `docs/techniques/caching.md:260`;
- a request-scoped service may be built twice in one request
  (`di/scopes.py:49`), against `docs/basics/injector-scopes.md:69`;
- exception handlers of modules that are set up after the App never apply
  (`core/main.py:65`), against `docs/overview/modules.md:110`;
- the handler of a Socket.IO event that a guard refused runs (`socket_io/gateway.py:178`),
  against `docs/overview/guards.md:4` and `docs/websockets/socketio.md:202`.

Met while modelling, and not shown by a run (some are in the models as they are):

- a configured ttl of 0 or `None` becomes 300 seconds, while
  `docs/techniques/caching.md:304` has entries expire at once or never;
- `before_init` is called twice for a module that is installed before the
  startup, by `install_module` and by the lifespan (`inits` counts), and its result
  is not used;
- `application_ready` (`docs/overview/modules.md:91`) is never called;
- `install_module` of a module whose first installation raised returns the
  instance without its routes (`core/main.py:148`);
- a module that is installed after startup gets `on_shutdown` and no `on_startup`;
  after a failed startup no module gets `on_shutdown`; an `on_shutdown` that raises
  cancels those of the other modules;
- `add_exception_handler` ignores a second class handler for a key, and
  `CallableExceptionHandler.__eq__` compares `other` with itself;
- API exceptions raised outside `ExceptionMiddleware` (authentication, user
  middleware) become 500;
- a function middleware that returns no response and did not call the next one leaves the
  request unanswered, without an exception (`core/middleware/function.py:66`);
- a mounted ellar application leaves the outer request without its context.

*Caches* (`RemoteCache`, `RouteCache`):

- no call asks redis for a connection to write, so with several servers sets go to a
  random one of all but the first (`cache/backends/redis/backend.py:102`);
- a bool is not pickled, since it is an int, and redis refuses it, while the comment of
  `cache/backends/serializer.py:28` wants it pickled; ttl 0 makes redis raise after the
  old value was deleted;
- handlers of one url, as a GET and a POST, share an entry, since a key has no method
  (`cache/decorator.py:28`): one with a ttl of 1 may be answered with what the other stored
  for 300 seconds;
- when memcached refuses a value and then also the delete that follows, the old value stays
  (`cache/backends/base.py:29`), though the comment there wants to make sure it does not.

*Connections* (`SessionCookie`, `SocketGateway`):

- the 500 for an unhandled exception carries no `Set-Cookie`: what the request stored in the
  session is lost, and a session that it cleared goes on (`core/middleware/di.py:60`);
- the tasks of one connection share the message kept in the instance
  (`socket_io/gateway.py:89`, `:148`): a handler may get the data of another event;
- a result that is no `WsResponse` is sent to everybody (`socket_io/gateway.py:171`).

*Parameters* (`Unusual`):

- an alias in a combined JSON body becomes the name of the keyword argument
  (`common/params/args/request_model.py:79`), by which the endpoint is called;
- the model of the shorthand `Form[...]` is not grouped, and `Query[...]` with a list field
  is refused, against `docs/techniques/validations/query-params.md:165`, because the
  generator is looked up by the default of the parameter; constraints of `Path[T, P]` are
  dropped;
- a default of a cookie, or of a body parameter that is read from a form, is used only if it is
  null, against
  `docs/techniques/validations/cookie-params.md:13`, where a value is validated as null;
- a body of `null` with only optional members raises instead of being refused; files of a
  list come in the order in which reading them ends;
- a body beside a file is read from the form, but when that is empty from the raw body as
  JSON (`common/params/resolvers/parameter.py:171`), and binds.

*Responses* (`StatusLost`):

- an injected response object that was left alone turns the declared or returned status
  into 200 (`common/responses/models/base.py:175`); a template forgets its status;
  Ellipsis as the only declared status is taken for the status, and the call fails.

*Routes and versions:*

- the url resolver takes any path segment that begins like a version, as `/s3/`, for one
  (`core/versioning/resolver.py:80`); `ModuleRouter(version="10")` allows the versions 1
  and 0 (`common/routing/mount.py:110`);
- a segment that begins with `|`, `}`, `~` or a character beyond ASCII sorts after `{`, so
  that a route with a parameter in its place hides it (`common/routing/route_collections.py:48`).

*Access* (`Entangled`, `TurnedAway`):

- schemes with the same default name replace each other; a scheme for HTTP is called with
  credentials that are None; the bearer scheme raises for any other word, before a later
  scheme is asked, and what a scheme raises becomes a 500; an identity without an id ends
  the search;
- policies with a requirement share one table keyed by the hash of the requirement
  (`auth/policy/base.py:62`), so that two classes, or -1 and -2, get one handler;
- guards and interceptors of a handler replace those of its controller
  (`core/guards/consumer.py:20`), as `docs/overview/guards.md:104` and `:107` have it, which
  is what the reference says; `docs/overview/guards.md:84` and
  `docs/overview/interceptors.md:118` attach those of a controller to every handler.

*OpenAPI* (`Misread`):

- a declared 422 is replaced by the one for validation errors; parameters are told apart
  by name only; a path parameter is not shown when a field of a group has its name, or when
  the parameter of that name has another alias; building a document twice repeats tags and
  security;
- of a handler with `@UseGuards()` and nothing in it, the document shows the guards of the
  controller (`openapi/route_doc_models.py:82`), while a request meets those of the
  application.

*Providers* (`Outrun`):

- modules whose setup waits for services or the App are built after everything, so that
  their providers replace those of the root and of a test; a module keeps the place in the
  dictionary where it was read first; `register_services` runs after a test's overrides; a
  `use_value` that is false is ignored; a singleton made for a setup stays when a later
  module binds its type anew.

*Passwords* (`Unlucky`):

- md5 removes its name wherever it is in a hash (`core/security/hashers/md5.py:45`), so that
  a salt or a checksum that holds "md5" makes the right password fail; scrypt takes no bytes
  (`core/security/hashers/scrypt.py:31`), against
  `docs/security/encryption_and_hashing.md:67`, also when it is to replace another hash, and
  the check raises; a memory cost of one's own for argon2 is compared with the library's
  (`core/security/hashers/argon2.py:57`; costs in the model are those of the hasher).

*Controllers* (`Unprocessed`, `Unmarked`):

- a class derived from a controller that is no `ControllerBase` is not processed, and
  refused later as no controller; a plain class whose base has metadata and which has
  none raises `KeyError` (`common/decorators/controller.py:119`); a base's guards are not
  inherited, its routes are, and overriding one leaves the base's registered as well.

## 6. Not modelled

- Validation and conversion by pydantic and by serializers: outcomes only, valid or not.
- What libraries do: signing of cookies, the servers behind redis and memcached, the
  Socket.IO server, starlette's router below the decision which route matches, TrustedHost
  and CORS; `map` marks what is modelled of them from their use as external.
- How a version is taken out of a header, host, query or path, and the parts of a cache
  key that contain its separator: strings.
- Values that cannot be pickled (a set of one raises before it changes anything).
- Configuration, events, templating, static files, execution contexts: read once or
  passed through; no operation of theirs interleaves with another or depends on an order
  beyond that of a list.
- Schemas, tags and metadata of the OpenAPI document: text about types.
- Test contexts of `reflect`: used by the repository's own tests only.

`PROJECT.json` gives the reason for each component and what is left out of those that are
partly modelled.

## 7. The plan

Done, in this order: `LocalMemCache` with `ExpiringCache`, `RequestPipeline` with
`AsgiExchange`, `SyncCacheAccess`, `RequestScope`, `ApplicationLifecycle`; then
`RemoteCache` with `RouteCache`, the three kinds of connections, and the eight algorithms;
then a proof of every safety property of the state machines that a run checks, and of six of
the algorithms for every input.

Left to prove: `ProviderChosen` and `ControllersServe`, once they can be stated without folds;
and action properties that the invariants suggest, as that a context never changes the object
it keeps of a service unless a thread works in it.

Model left to add: the lookup of exception handlers by class and status code against
`docs/overview/exception_handling.md`, which `RequestPipeline` abstracts.
