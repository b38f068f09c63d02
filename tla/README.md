# GraphQL Engine Plus: TLA+ models and proofs

GraphQL Engine Plus is a Go server in front of Hasura's GraphQL engine. It
launches and watches a scripting server (Python) and one or two Hasura engines,
routes queries and mutations to them, caches the responses of `@cached` queries
in Redis and an in-process groupcache, and lets scripts be uploaded and executed
at run time. This directory holds TLA+ models of the parts that keep state or
run concurrently, TLC configurations for them, and TLAPS proofs.

Source paths below are relative to the repository (`src/cache_service.go` is
`src/src/cache_service.go` in `PROJECT.json`).

## Inventory

| component | state | operations | hard because |
| --- | --- | --- | --- |
| response cache (`src/cache_service.go`, `query_cache.go`, `fiber_graphql_handler.go`) | the key and its `.ETA` lock in Redis, one groupcache per process, calls in flight | `Get`, `GetterFunc` (pipeline, lock, wait loop), `Set`, the query handler | several processes; commands of a pipeline interleave; expiry, eviction, crashes, failed commands; waiting for others |
| groupcache cluster (`cache_service.go`, `main.go` `setupRedisClient`) | set of node URLs in Redis, each node's pool | join, refresh loop, removal of failed peers, `Close` | removals race additions; lost commands; dead nodes |
| supervisor (`graphql_engine_servers.go`, `main.go` `main`) | child processes, contexts, clean-up operations | launch, startup loops, monitor loop, shutdown | goroutines, deadlines, rendezvous over an unbuffered channel |
| replica output relay (`graphql_engine_servers.go` `StartScannerForBuffer`, `ParseLog`) | lines in an OS pipe, an `io.Pipe` and a channel | copy, scan, pass on, parse | each stage may stop while the one before it blocks, and `Cmd.Wait` waits for the first |
| script and library cache (`scripting/exec_cache.py`, `scripting/server.py`) | compiled function and text length per server, text in Redis, file on disk, imported module | execute, `load_lib`, upload, background writes | awaits between reading and using; unordered background writes; failed writes; restarts |
| request classification, ttl and cache key (`gql_parser.go`, `query_cache.go`, `jwt_auth.go`) | none | pure functions | boundary values of the ttl, order of headers and claims, renewed tokens |
| HTTP endpoints (`main.go`, `fiber_graphql_handler.go`) | none of their own: the startup contexts, the cache | health, metadata, scripting, the GraphQL endpoints | requests arrive while engines start, are given up or fail |
| scripting GraphQL client (`scripting/gql_client.py`, health check in `server.py`) | one client object per engine, their sessions and schemas, the replica flag | `execute`, `subscribe`, `validate`, `setup_client` | scripts share the objects; retries; answers that never come |
| address discovery (`net_ip.go`, `main.go` `setupRedisClient`) | the server's own URL | metadata services, interfaces | fails and goes on with the loopback address |
| configuration, tracing | settings | reading the environment | - |

The components meet in few places. The HTTP handlers look at the supervisor's
startup contexts; the query handler calls the response cache around its upstream
call; the cluster decides which node's groupcache owns a key; the scripting
server's health check is what the supervisor's startup loop polls; the replica's
`Wait`, which the supervisor's shutdown needs, depends on the output relay.

What makes each of them correct:

* response cache: a client gets its own response or one that was published; an
  error response is never cached; a copy does not outlive its ttl by much; a
  waiting request is always released, within the configured wait;
* cluster: running nodes end up in each other's pools, dead ones out of them;
* supervisor: a dead child takes the server down, a shutdown leaves no child
  behind and reports what went wrong;
* relay: no line is lost before the shutdown, and the relay does not keep the
  `Wait` for the replica from returning;
* script cache: a call runs the text that Redis held, as far as lengths tell
  texts apart; an image's script never replaces an uploaded one;
* library cache: after `load_lib` the file, and the module the script works with,
  are the text that Redis held, again as far as lengths tell;
* endpoints: writes reach the primary only, engines that were never healthy are
  spared until the wait for them is given up, a cached response only answers
  requests that look like the one it answered, equal requests share a key, every
  GraphQL request is answered;
* GraphQL client: a session belongs to one call, `execute` gives a result or
  raises, and every call ends.

## Modules

| module | contents |
| --- | --- |
| `QueryCache` | the response cache for one cached query |
| `ReadThroughCache` | what the response cache promises, the abstract specification |
| `MCQueryCache` | constants for TLC |
| `QueryCacheProofs` | its invariants and the refinement, proved |
| `ClusterMembership` | address discovery, the node set in Redis and the pools |
| `ClusterMembershipProofs` | its type correctness, proved |
| `Readiness` | what the endpoints may rely on: two contexts that end once, an abstract specification |
| `Supervisor` | launch, startup, monitoring and shutdown against the clock; implements `Readiness` |
| `SupervisorProofs` | its invariants and the safety part of `Readiness`, proved |
| `ReplicaLog` | the relay of the replica's output |
| `ReplicaLogProofs` | its invariants, proved |
| `RequestRules` | classification, ttl and cache key of a request, as operators |
| `Gateway`, `MCGateway` | the HTTP endpoints, composed with `Readiness` and `RequestRules` |
| `GatewayProofs` | lemmas about the cache key and the ttl, the endpoints' invariants, proved |
| `ExecCache`, `MCExecCache` | the cache of compiled scripts for one file |
| `ExecCacheProofs` | its invariants, proved |
| `LibCache`, `MCLibCache` | `load_lib` and uploads for one library |
| `LibCacheProofs` | its invariants and action properties, proved |
| `GqlClient` | the GraphQL client that the scripts of a server share |
| `GqlClientProofs` | its invariants, proved |

`Supervisor` and `Gateway` meet in `Readiness`: the first is checked to implement
it, the second instantiates it as its environment. What `Gateway` shows thus
holds with any supervisor that keeps these promises, and does not have to be
multiplied by the states of one. In the same way `Gateway` sees the cache as a
map that may lose entries, and `QueryCache` models how the map is kept.

Operators whose comment starts with "Mutant" are deliberately wrong variants of
the definition they precede. Nothing uses them: replacing the definition by the
variant must break the property `PROJECT.json` pairs it with, which shows that
the property depends on that piece of code.

### QueryCache

A node is a server process in the default mode, where each groupcache owns every
key itself. `redis` and `lock` are the key and its `.ETA` entry, `group` the
groupcaches. groupcache runs one `GetterFunc` call at a time per key and hands
its result to everyone who asked meanwhile: that is a *flight*, one per node,
with its program counter `stage` and the locals `got`, `reply` and `eta`.
`pc`, `answer` and `outcome` belong to the requests' handlers. `stored`, `age`
and `waited` are history variables, read only by properties.

The pipeline `GET`, `TTL`, `SETNX` is three steps, since a Redis pipeline is not
a transaction. With `SETNX` comes the return from the pipeline: hit, miss, or
wait. The wait loop is a `GET` step, a `TTL` step and a time-out; polling without
finding anything is not a step. `Set` is a Redis step and a groupcache step.
With `Faults` every Redis command may fail, and a failed write may have taken
effect; a context that ends during the wait is the same as a failed `GET`. It
ends after 3.3 s or with the server: fasthttp's `c.Context()` does not end when
a client leaves.

Bodies are identified by the request that fetched them. A response that upstream
never gave (a failed `DoTimeout`) is a body too, because the code stores it.

Time: a tick is half a second, the granularity at which Redis rounds a `TTL`
reply to seconds. A deadline counts the whole ticks left and an entry in its last
tick may vanish at any moment, so every fractional alignment of the clocks is
covered. The model assumes that a Redis round trip, with the code around it,
fits into a tick (`Tick` does not happen inside a pipeline, nor between the two
halves of `Set`). Upstream calls take any time. The ETA in Redis is an absolute
time that other processes compare with their own clocks; these are taken to be
synchronized.

`WaitsUpToETA` bounds a wait by the configured one, and by the lock as long as
there is one. It is not bounded by the lock alone: when the lock lapses between
`SETNX` and the read of its ETA the flight waits a whole ETA for nobody
(`cache_service.go:269`). That the requests of a flight begin and end together is
groupcache's promise, an assumption of the model and no property of it.

### ClusterMembership

`members` is the set in Redis, `pool` what each node passed to `pool.Set`,
`current` the list its loop compares with. The refresh pipeline is an `SADD` and
an `SMEMBERS` step. A node that is closing keeps its loop running between the
`SREM` and the closing of the clients, because a signal does not end the loop's
context. `ReaderWritable` says whether the reader connection accepts the `SADD`.
All nodes use the same port, as a deployment does. `Discover` is the choice of
the server's address in `setupRedisClient`: a server in `Undiscoverable` may find
none, and then registers the loopback address, under which nobody else reaches
it. `JoinAlone` is a server without a cluster mode.

### Supervisor

`phase` is where `StartGraphqlEngineServers` is, `proc` the children. `reaped` are
those whose `ProcessState` is set, which is what the monitor loop reads, `waited`
those whose `Wait` has returned, which is what the shutdown waits for: for the
replica the second comes later, when its output has been copied (`WaitReturn`,
and `ReplicaLog` for what may keep it). `startup` and `readonly` are the two startup
contexts, which end by readiness, deadline or cancellation. `Init` has both
configurations, with and without a replica.
`gfshutdown.GracefulShutdown` is outside the repository; it is modelled by how
`main` uses it: a signal or the end of `mainCtx` starts all clean-up operations
at once, the process exits when all are done or when the time-out has passed.

`clock` counts coarse ticks since the contexts were made and `grace` the ticks
left until the forced exit. Goroutines of the process itself, and its timers, do
what they can before the next tick (`Settled`); children take any time. Only the
order of the three time-outs matters (30 s of grace, 60 s and 180 s of startup),
and `TimeoutsAssumption` states it. A signal cancels `startServerCtx` but not
`startupCtx`, so that a startup loop outlasts the grace: `ShutdownLastsForCause`
names this and an unreaped child as the only reasons a shutdown can take time.

### Gateway and RequestRules

A request runs in a goroutine of its own; `pc` is where its handler is, `key`,
`upstream`, `status` and `body` what became of it. What the regular expressions
and the header rules tell apart is a record (`doc`, `headers`). What goes into the
key is text: variables are a value and the text `fmt.Sprint` prints for it (`Sprint`),
which other values may share, and a header line, or a line for a claim printed
with `%v`, is a number, the rank of the printed line among strings, so that the
code's sorting is a sorting and claims that print alike are one line. The walk
over Go's maps is any permutation, and `Sorted`, which stands for `sort.Strings`,
is the walk in ascending order: it is defined by what it is and not by how it is
computed, so that it can be reasoned about. A body is the identity of the request
it answers, that is query, operation, variables and user, or `Failed`.

An `Authorization` of less than 7 bytes is a class of its own, `Panics`: computing
the key slices it, nothing recovers, and the process dies (`died`), after which
nothing happens any more. The run of this module therefore does not check
deadlock.

The constants carry what is assumed of the traffic. `UserHeadersAssumption`: one
user's requests have the same headers, but for the not-cached ones and for the
claims a renewal changes. `TrafficAssumption`: the lines are finitely many and
ordered, a ttl is a natural number or `true`. Nothing is assumed to tell two users
apart: `CachedAnswerLooksAlike` says that an answer from the cache was made for the
same query and operation and for variables, headers and claims that print the
same, and no more than that is true of the code. It admits `Failed`, because the
code stores the response of a failed call (`cache_engine_response`). The maximal
ttl is any integer, as the setting is: `StoredWithinMaximum` bounds the ttl a
response is stored with. It says nothing of the copies that `QueryCache` reads
back from Redis (`cache_max_ttl`).

`Reply` has three outcomes: a response with status 200, which `Store` may store, one
with another status, which `main.go:92` does not let through, and a failed call,
whose status reads as 200. `RequestsAnswered` is about the GraphQL endpoints,
whose upstream calls have a time-out; the metadata and scripting proxies have
none. It excepts the requests that a panic took the process from.

### ReplicaLog

A counter per stage says how many lines passed it; a blocked goroutine is a
disabled action. The copier goroutine and the blocking write are os/exec's and
io.Pipe's documented behaviour. A line is plain, of the kind the parser drops on
purpose (`ParseLine`), or longer than the scanner's buffer: then `Scan` returns
false and the scanner goroutine is gone (`ScanTooLong`). `printed` are the lines
that reached the log. `Wait` is not how the server notices that the replica
ended (see `Supervisor`), but the shutdown needs it to return.

### ExecCache

A function is identified by the version of the text it was compiled from. `Chars`
and `Bytes` are the two lengths of a text: an upload counts the characters of a
Python string, a reply of Redis counts bytes. asyncio switches only at awaits, so
each action is the code between two suspensions: a call is a `Read` and what
follows the reply. Background writes wait in `pending` and run in any order or get
lost. A write to the disk may fail in opening the file, which leaves it, or after
that, which leaves it `Empty`; a partly written text is taken for an empty one.
Such a text has no `main`, so that a call fails with it (`Fail`).

### LibCache

The same for a library: `file` is the server's disk, `module` what Python has
imported. A load is a `Read` and what follows the reply, with the import and, if
`load_lib` says that the text changed, the reload, as the repository's example
script does it. Nothing validates a library, so that an import of a version in
`Broken` raises; a reload that raises leaves the old module under the new length
(`Import`). A write may fail in opening the file, which leaves it, or, with
`DiskFaults`, after that, and then mode `"w"` has emptied it, in a load
(`LoadTorn`) or an upload. A partly written text is taken for an empty one. Two
history variables mark what the properties except: `unwritten`, servers whose
last write of the file failed; `unannounced`, servers where an upload or a failed
write or reload left another module than the file's, so that no later load sees a
change. Python's bytecode cache, which goes by the file's time and size, is left
out.

### GqlClient

A client object is a pair of the engine and the number of objects made for it
before. `turn` is the coroutine that runs between choosing an object and its
first suspension; nothing else happens meanwhile, and the retry loop relies on
it. The transport of the gql library (it connects without suspending, it refuses
to connect twice and stays open then, HTTP has no subscriptions) is modelled from
how it is used; `requirements.txt` does not pin a version, so that this is an
assumption. A call of `validate` may fetch the schema over the session of another
call; it is not one of the sessions `SessionPerCall` counts. The fetch is bounded by
aiohttp's own time-out and not by `execute_timeout`.
The health check is here because it alone sets `_client_ro_available`; `answered`
is a history variable: a health check got a 200 from the replica.

## Runs

| run | shows |
| --- | --- |
| `cache_faults` | ttl 2 s, lock 1.5 s, any Redis command may fail: type, `StoredBeforeServed`, `BoundedStaleness`, refinement of `ReadThroughCache` (1,600,000 states) |
| `cache_live` | ttl 1 s, lock 1 s, crashes but no Redis faults: `WaitsUpToETA`, and every request that missed is answered or its process died. With faults a waiter that cannot read the ETA may outlast a lock that is there, so `WaitsUpToETA` is claimed here only (325,000) |
| `supervisor` | with and without a replica: no orphans, a success hides no killed engine, a shutdown lasts only for cause, a dead child stops the server, and `Readiness` is implemented, its liveness included (250,000) |
| `log_relay` | while the server is not shutting down: plain lines before an over-long one reach the log, `Wait` returns if all lines fit, nothing is lost before it does (17,000) |
| `exec_cache` | function and length stay together, uploads win, a call runs a text as long as Redis' (850,000) |
| `lib_cache` | the remembered length belongs to the file, a load leaves a text as long as Redis' on disk and in the module, with failing writes and imports (1,260,000) |
| `cluster_converge` | pools converge when disturbances end, with lost commands, wrong removals and an undiscoverable address before; a dead peer is forgotten after it was met once (310,000) |
| `gateway` | routing, cache keys and ttl, and the wait for startup, while engines come and go; every GraphQL request is answered unless a panic ends the process (375,000) |
| `gql_client` | sessions are not shared and do not leak, the retry loop never runs out, a replica is used only after it answered a health check, every call ends (260,000) |

These runs fail on purpose: each checks one statement of a comment or of the
configuration's documentation that the code does not keep. The findings in
`PROJECT.json` quote it and say what happens.

| run | statement | what happens |
| --- | --- | --- |
| `cache_max_ttl` | there is a maximal ttl (`config.go:144`) | a `TTL` reply of 0, -2 or an error makes a copy without expiry |
| `cache_engine_response` | engine responses are cached (`cache_service.go:223`) | the empty response of a failed call is cached |
| `log_shutdown` | the shutdown waits for all processes (`graphql_engine_servers.go:216`) | the wait may never end |

Other statements the code does not keep to the letter are part of the models and
have no run of their own; the hazards in `PROJECT.json` list them:

* `cache_service.go:229` reads body and ttl "at the same time": a `Set` in between
  pairs the old body with the new ttl. `BoundedStaleness` says what is left: twice
  the ttl.
* `cache_service.go:266` takes a held lock for a process that populates the key:
  the lock outlives its holder, and hits take it too. `WaitsUpToETA` and
  `RequestsFinish` say what is left.
* `main.go:177` and `fiber_graphql_handler.go:67`: the startup contexts also end by
  their deadlines, so `/health` may answer and queries may go to the replica
  before the engines are ready. `UnseenServersSpared` says that nothing else lets
  a request through.
* `config.go:81` calls a discovery mode `host_net`, `main.go:346` knows
  `host_ipnet`: with the documented name the server stays outside the cluster
  (`JoinAlone`).
* `gql_client.py`: `subscribe` cannot work over the HTTP transport, and `validate`
  only while another call's session is open; the model has both as failures.
* `config.go:112` calls the primary the endpoint for writes: the expressions of
  `gql_parser.go:30` are anchored, so that a mutation behind a fragment or a comment
  is taken for a query and may go to the replica. `MCGateway` has such a document
  (`lead` is `"other"`); no property is about it.
* `query_cache.go:128` takes the variables into the key: it is their printed text
  (line 193), which different variables share. `CachedAnswerLooksAlike` says what
  is left.
* `query_cache.go:177` hashes an `Authorization` of another kind than a bearer
  token: one of less than 7 bytes ends the process (line 144; `died`).
* `graphql_engine_servers.go:232`: a child that ends with a non-zero exit code
  counts as a success (`CaptureError`).
* `cache_service.go:263` lets others wait for the ETA to expire: if it expired before
  it could be read (line 269), the flight waits a full ETA for nobody. `WaitsUpToETA`
  says that even then it waits no longer than configured.
* `graphql_engine_servers.go:137` passes the replica's output on to stdout: a line over
  64 KiB ends the scanner (line 26), the rest is lost, and the replica may block on
  its full pipe. `LinesReachLog` and `WaitReturnsServing` are about what comes before.
* `server.py:189` promises that uploads change scripts on the fly: a text as long as
  the version in another server's memory is not run there (`exec_cache.py:30`).
  `RunsTextOfRedisLength` says what is left.
* `exec_cache.py:113` writes a changed library to its file: not one of the same length
  (line 112), nor one whose upload remembered its length and then failed to write
  it (`server.py:503`). `LoadedFileFits` says what is left.
* `exec_cache.py:91` says that `load_lib` returns True for a changed text: not after
  an upload through the same server, which sets the length itself (`server.py:503`),
  nor after a reload that raised. `ScriptTextFits` says what is left.
* `gql_client.py:120` uses the replica when it is available: the flag is never reset
  when a health check fails (`server.py:573`). `ReplicaSeenHealthy` is about the way
  in only.
* `cache_service.go:441`, `main.go:342`: a server that registered the loopback
  address is removed by the others whenever they fail to reach it, and adds itself
  again every second. `PoolsConverge` does not cover it, since its premise is that
  such disturbances end.
* `cache_service.go:128`: a refresh may leave a node out of its own pool;
  `PoolsConverge` says that it heals.
* `cache_service.go:158`: with a read-only reader connection (`ReaderWritable`
  FALSE) every refresh fails and the pool stays what it was at the start. The
  run has it TRUE.

### Bounds

* QueryCache: two nodes, three requests, two of them on one node. That gives
  coalesced requests, a flight that waits for another node, and a `Set` of one
  node inside the pipeline of another after a first body was stored. Each request
  runs once. `AgeCap`, twice the ttl, bounds the history of ages; the bound
  proved is below it. Crashes are unbounded.
* ClusterMembership: two nodes that may start, crash and restart without limit,
  one of which may not find its address, and any leftover set. A third node would
  only be another source of the same removals. `MaxRemovals` 1 bounds the removals
  a server has under way.
* Supervisor: time-outs of 1, 2 and 3 ticks, the smallest with the order of the
  real ones, and one clean-up operation besides the engine servers', since they
  do not touch each other. A single server process is finite.
* ReplicaLog: `MaxLines` 4, one line for each place a line can be in, each of any of
  the three kinds.
* Gateway: a cached query of one user and a second request of every kind: the
  same again, with a renewed token, of another user, with other variables and with
  others that print the same, with a short `Authorization`, a ttl above the maximum,
  a refresh, mutations and a subscription, an unreadable body, and the other
  endpoints. Every property relates at most two requests. The four configurations
  have a replica with weights 0, 50 and 100 and none, Redis on and off, and a
  maximal ttl of 5, 0 and -1.
* ExecCache and LibCache: two servers, two calls on one of them, three versions,
  each uploaded once, one of them longer in bytes than in characters and two of as
  many bytes. In `lib_cache` the import of one of them raises.
* GqlClient: three calls, so that one replaces a client while another executes and
  a third closes, the code's 3 attempts, and a weight that allows both engines.

### Fairness

Goroutines and coroutines that can run do (weak fairness of their steps). Upstream
calls end, because `DoTimeout` has a time-out. Redis and groupcache expire entries
and time passes; ticks get strong fairness since short steps interrupt them over
and over. Children obey the signals they are sent; `Wait` returns for a child that
ended, except that nothing is assumed of the replica's `Wait` once the shutdown
has begun (`ReplicaLog`); the forced exit is a timer like the deadlines. In
`Gateway` the deadlines end the contexts and every handler goes on; the health
check, which has no time-out in the code, is taken to be answered, but no liveness
is claimed of it. In `GqlClient` the event loop runs what is ready and time-outs
fire, an answer of the engine need never come. Nothing is assumed of crashes,
faults, evictions, arrivals of requests, signals, and of children becoming ready;
`cache_live` has crashes but no Redis faults, which only end a wait earlier.
`cluster_converge` puts the end of disturbances into the property instead of the
specification. `exec_cache` and `lib_cache` have safety properties only.

## Proofs

TLC's runs show the properties on small instances; the theorems show them for
every value of the constants that the named assumptions of the modules allow.
Every invariant and every action property of a passing run is stated by a
theorem. Each proofs module has an inductive invariant `IInv` (for the cluster,
`TypeOK` itself), with a lemma per action or group of actions; TLC has checked
each `IInv` under the constants of the component's run.

**`QueryCacheProofs`**, for any nodes and requests, any positive or infinite ttl,
any wait, with or without faults: `TypeCorrectness`, `OnlyStoredServed`,
`StalenessBounded`, `WaitIsBounded` and `Refinement` (`Spec => ReadThrough`).
That groupcache only holds stored bodies needs that Redis does (`RedisInv`), that
a flight between its `GET` and the filling of groupcache does (`FlightInv`), and that a request has stored its body when it
comes to groupcache's `Set` (`RequestInv`). The bound on staleness needs an exact
clock: the age of the body in Redis and its remaining ticks add up to the ttl,
and what a pipeline holds was in Redis in the same tick, so it is at most a ttl
old; the deadline of the copy is at most another ttl away (`ClockInv`).
`WaitIsBounded` has the hypothesis `Faults = FALSE`, for the reason given at
`cache_live`; that what a flight has waited and what is left make up less than a
full wait holds without it, and is part of `FlightInv`. The refinement maps
`stored` to `published`; each action publishes, answers or stutters.

**`ExecCacheProofs`**, for any servers, calls and versions: `TypeCorrectness`,
`LengthTracked`, `UploadsReplace` (from the invariant that a pending SET carries
an uploaded version), and `RunsEquallyLong`. Nothing is assumed of the lengths:
that a call runs the very text, for versions of which no two have a length in
common, is the special case.

**`LibCacheProofs`**, likewise, for any broken versions and with or without disk
faults: `TypeCorrectness`, `LengthIsOfFile`, and the action properties
`FileFitsRedis` and `ScriptFitsRedis`. The invariant adds that a server without a
remembered length has imported nothing and that an imported module is the file's
text unless the server is in `unannounced`: `load_lib` asks for a reload by comparing
lengths, and only with these does "same length" say anything of the module.

**`GqlClientProofs`**, for any number of calls, any weight and number of attempts:
`TypeCorrectness`, `SessionsSeparate`, `ReplicaSeen`, and `RetryLoopSuffices`
for `MaxRetries >= 2` (the code has 3). The heart is `CallOK`: a call that has
replaced the client holds an object nobody has connected, and nobody else runs
before it connects, so no call replaces a client twice. With one attempt the
loop would run out, which the invariant says as well.

**`SupervisorProofs`**, with and without a replica, for any time-outs in the
order of the code's and any clean-up operations: `TypeCorrectness`,
`LeavesNoOrphans`, `KilledEngineTold`, `ShutdownHasCause`, and
`ReadinessSafety`, that the initial states and all steps of the supervisor are
those of `Readiness`. The invariant says that the errors are collected only when
every child was waited for, that the clean-up is told exactly then, and that an
open startup context during a shutdown means that the signal came during startup.

**`ReplicaLogProofs`**, for any number of lines of any kinds: `TypeCorrectness` and
`LastWordsAreRead`, from the invariant that the parser returns only on shutdown,
and the scanner only on shutdown or at an over-long line that it leaves in the
pipe, so that nothing is left in any stage once `Wait` has returned.

**`GatewayProofs`**, for any configurations, requests and traffic within the
assumptions above: `TypeCorrectness`, `OnlySeenServersAsked`,
`CacheAnswersAlike`, `IdentitySharesKey` and `MaximumBoundsTTL`. Three lemmas carry
the cache: `KeyIsLooks`, that two requests have the same key, for any walks of
their headers, if and only if they look alike, `IdentityLooks`, that requests of
one identity do, and `TTLBounds`. The first rests on `SortedTellsLines`:
two sorted walks are equal exactly when the sets of lines are. Since what `CHOOSE`
picks can only be reasoned about once it is known to exist, `SortedWalkExists`
builds the sorted walk from the ranks of the lines, by cardinalities of finite
sets and without induction. The invariant then relates each request's key to its headers,
each cache entry to a request that stored it, and each request's server to the
contexts' states when it was chosen.

**`ClusterMembershipProofs`**, for any nodes, with faults or not:
`TypeCorrectness`, with it that no refresh loop outlives the Redis clients it
uses. What matters most of the cluster is liveness.

Only model-checked, because the prover has neither fairness nor `ENABLED`:
`RequestsFinish`, `DeadChildStopsServer`, `LinesReachLog`, `WaitReturnsServing`,
`PoolsConverge`, `DeadPeerForgotten`, `RequestsAnswered`, `CallsEnd`, and the
fairness of `Readiness` in `ImplementsReadiness`. `WaitIsBounded` is the safety part
of `RequestsFinish`: no wait has more than the configured time.

## Not modelled

* Keys owned by remote groupcache peers: the ownership follows groupcache's
  consistent hashing, which is outside the repository. A Redis reader that lags
  behind the writer, and the cache without groupcache.
* The hash of the cache key, and the concatenation of its parts: `CalculateCacheKey`
  writes the printed texts into fnv64a one after the other without separators. The
  key of the model is the sequence of these texts; that different sequences have
  different keys is an idealisation.
* Scripts from URLs, debug mode and the mode without Redis of the scripting
  server, `/validate` and the mapping of exceptions to responses.
* Headers of proxied requests and responses, the bytes of a cached response, and
  the CORS middleware.
* Reading the environment (`config.go`, where `StripTrailingSlash` takes for granted
  that the scripting path is set, although line 30 lets it be unset). The name of
  the header with the token is read before the environment is, so that
  `Authorization` is the only one (`HeaderLines`).
* Tracing, the migration script and the examples.

`PROJECT.json` lists every component.

## Plan

1. `QueryCache`, its abstract specification and its proofs: done.
2. `ReplicaLog`, `ExecCache`, `ClusterMembership`: done.
3. `Supervisor` against the clock, `Readiness`, and `Gateway` with `RequestRules`
   on top of it: done.
4. `LibCache` and `GqlClient`: done.
5. Proofs of all invariants and action properties, and of the safety part of
   `Readiness`: done.
6. The response cache in cluster mode: a key owned by a peer, the fall back when
   the peer is gone, on top of `ClusterMembership`.
