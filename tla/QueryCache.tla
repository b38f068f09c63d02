----------------------------- MODULE QueryCache -----------------------------
(***************************************************************************)
(* The response cache of GraphQL Engine Plus for ONE cached query: several *)
(* server processes (Nodes), each with an in-process groupcache, in front  *)
(* of one Redis.  A request looks in its node's groupcache; on a miss the  *)
(* node runs one GetterFunc for all the requests that miss together (a     *)
(* flight), which asks Redis, may wait for another process to fill the key *)
(* and otherwise sends the requests upstream; a request that went upstream *)
(* stores what it got in Redis and then in groupcache.                     *)
(*                                                                         *)
(* A cached body is identified by the request that fetched it.             *)
(*                                                                         *)
(* Time.  A tick is half a second, the unit Redis rounds TTL replies with. *)
(* Every deadline is a countdown of whole ticks left: 0 means "in its last *)
(* tick", where the entry may vanish at any moment and has to before the   *)
(* next tick.  Negative values are Redis' own: -1 no expiry, -2 no entry.  *)
(***************************************************************************)
EXTENDS Integers

CONSTANTS
    Nodes,      \* server processes
    Requests,   \* requests for the cached query, each runs once
    NodeOf,     \* the node that receives a request
    TTL,        \* seconds the query is cached for, or -1 for ever
    WaitETA,    \* ENGINE_PLUS_GROUPCACHE_WAIT_ETA, in ticks; 0 disables the wait
    Faults,     \* whether Redis commands may fail (or contexts be cancelled)
    None,       \* no value
    Failed      \* a command that returned an error other than redis.Nil

ASSUME NodeOfAssumption == NodeOf \in [Requests -> Nodes]
ASSUME TTLAssumption == TTL \in Int /\ (TTL > 0 \/ TTL = -1)
ASSUME WaitETAAssumption == WaitETA \in Int /\ WaitETA >= 0
ASSUME FaultsAssumption == Faults \in BOOLEAN
ASSUME NoneAssumption == None \notin Requests /\ Failed \notin Requests /\ None # Failed

VARIABLES
    redis,      \* the key in Redis: the body and the ticks it has left
    lock,       \* the key's ".ETA" entry in Redis: ticks left
    group,      \* each node's groupcache entry
    stage,      \* where each node's flight (GetterFunc call) is
    got,        \* what the flight's GET returned
    reply,      \* what the flight's TTL command returned
    eta,        \* ticks until the flight gives up waiting
    waited,     \* history: ticks the flight has been in the wait loop
    pc,         \* where each request's handler is
    answer,     \* whose body a request was answered with
    outcome,    \* how the request's upstream call ended
    stored,     \* history: the bodies ever written to Redis
    age         \* history: ticks since a body was written

redisVars == <<redis, lock>>
flightVars == <<stage, got, reply, eta, waited>>
requestVars == <<pc, answer, outcome>>
historyVars == <<stored, age>>
vars == <<redisVars, group, flightVars, requestVars, historyVars>>

-----------------------------------------------------------------------------
(* Deadlines *)

Never == -1     \* exists and does not expire
Gone == -2      \* does not exist

NoEntry == [val |-> None, left |-> Gone]

\* Ticks a body has when it is written with the query's ttl.
FullLife == IF TTL > 0 THEN 2 * TTL - 1 ELSE Never

\* The age past which the history variable stops counting.
AgeCap == IF TTL > 0 THEN 4 * TTL ELSE 0

\* Redis' TTL reply, seconds rounded to the nearest: 0 in the last half second.
TTLReply(left) == IF left >= 0 THEN (left + 1) \div 2 ELSE left

\* Mutant: the reply, already a duration, is multiplied by the unit again.
CopyLeftScaledTwice(ttl) == IF ttl > 0 THEN 4 * ttl + 1 ELSE Never

\* GetterFunc's expire: no expiry unless the reply is positive.
CopyLeft(ttl) == IF ttl > 0 THEN 2 * ttl - 1 ELSE Never

Countdown(left) == IF left > 0 THEN left - 1 ELSE left

-----------------------------------------------------------------------------
(* The flights *)

\* The requests coalesced on node n's flight.
Members(n) == {r \in Requests : NodeOf[r] = n /\ pc[r] = "flight"}

EndFlight(n) ==
    /\ stage' = [stage EXCEPT ![n] = "none"]
    /\ got' = [got EXCEPT ![n] = None]
    /\ reply' = [reply EXCEPT ![n] = 0]
    /\ eta' = [eta EXCEPT ![n] = 0]
    /\ waited' = [waited EXCEPT ![n] = 0]

\* GetterFunc fills groupcache with body v and everyone on the flight gets it.
Deliver(n, v, left) ==
    /\ group' = [group EXCEPT ![n] = [val |-> v, left |-> left]]
    /\ pc' = [r \in Requests |-> IF r \in Members(n) THEN "done" ELSE pc[r]]
    /\ answer' = [r \in Requests |-> IF r \in Members(n) THEN v ELSE answer[r]]
    /\ EndFlight(n)

\* GetterFunc returns an error and everyone on the flight goes upstream.
NotFound(n) ==
    /\ pc' = [r \in Requests |-> IF r \in Members(n) THEN "upstream" ELSE pc[r]]
    /\ EndFlight(n)
    /\ UNCHANGED <<group, answer>>

-----------------------------------------------------------------------------
Init ==
    /\ redis = NoEntry
    /\ lock = Gone
    /\ group = [n \in Nodes |-> NoEntry]
    /\ stage = [n \in Nodes |-> "none"]
    /\ got = [n \in Nodes |-> None]
    /\ reply = [n \in Nodes |-> 0]
    /\ eta = [n \in Nodes |-> 0]
    /\ waited = [n \in Nodes |-> 0]
    /\ pc = [r \in Requests |-> "idle"]
    /\ answer = [r \in Requests |-> None]
    /\ outcome = [r \in Requests |-> "none"]
    /\ stored = {}
    /\ age = [r \in Requests |-> 0]

-----------------------------------------------------------------------------
(* RedisCacheClient.Get: the lookup in the node's groupcache *)

GetHit(r) ==
    /\ pc[r] = "idle"
    /\ group[NodeOf[r]].left # Gone
    /\ pc' = [pc EXCEPT ![r] = "done"]
    /\ answer' = [answer EXCEPT ![r] = group[NodeOf[r]].val]
    /\ UNCHANGED <<redisVars, group, flightVars, outcome, historyVars>>

\* A miss joins the node's flight, or starts it.
GetMiss(r) ==
    /\ pc[r] = "idle"
    /\ group[NodeOf[r]].left = Gone
    /\ pc' = [pc EXCEPT ![r] = "flight"]
    /\ stage' = [stage EXCEPT ![NodeOf[r]] = IF @ = "none" THEN "get" ELSE @]
    /\ UNCHANGED <<redisVars, group, got, reply, eta, waited, answer, outcome, historyVars>>

-----------------------------------------------------------------------------
(* GetterFunc: the pipeline GET, TTL, SETNX.  Redis may run the commands of *)
(* other clients, and expire the key, between them.                         *)

GetterGet(n) ==
    /\ stage[n] = "get"
    /\ \/ got' = [got EXCEPT ![n] = redis.val]
       \/ Faults /\ got' = [got EXCEPT ![n] = Failed]
    /\ stage' = [stage EXCEPT ![n] = "ttl"]
    /\ UNCHANGED <<redisVars, group, reply, eta, waited, requestVars, historyVars>>

\* A TTL command that failed has the zero value.
GetterTTL(n) ==
    /\ stage[n] = "ttl"
    /\ \/ reply' = [reply EXCEPT ![n] = TTLReply(redis.left)]
       \/ Faults /\ reply' = [reply EXCEPT ![n] = 0]
    /\ stage' = [stage EXCEPT ![n] = "setnx"]
    /\ UNCHANGED <<redisVars, group, got, eta, waited, requestVars, historyVars>>

\* The SETNX of the ETA entry.  Without a wait nothing is sent, and the flight
\* is free to go on as if it had the lock; a lost reply reads as "not set".
SetNX(acquired) ==
    LET entry == IF lock = Gone /\ WaitETA > 0 THEN WaitETA - 1 ELSE lock
    IN  \/ /\ acquired = (lock = Gone \/ WaitETA = 0)
           /\ lock' = entry
        \/ /\ Faults /\ WaitETA > 0
           /\ ~ acquired
           /\ lock' \in {lock, entry}

\* GET returned a body: it is copied into groupcache with the TTL reply.
GetterHit(n) ==
    /\ stage[n] = "setnx" /\ got[n] \in Requests
    /\ \E acquired \in BOOLEAN : SetNX(acquired)
    /\ Deliver(n, got[n], CopyLeft(reply[n]))
    /\ UNCHANGED <<redis, outcome, historyVars>>

\* GET failed, or found nothing and the flight got the lock (or needs none).
GetterMiss(n) ==
    /\ stage[n] = "setnx" /\ got[n] \notin Requests
    /\ \E acquired \in BOOLEAN : (got[n] = None => acquired) /\ SetNX(acquired)
    /\ NotFound(n)
    /\ UNCHANGED <<redis, outcome, historyVars>>

\* GET found nothing and the ETA entry was already there.
GetterMustWait(n) ==
    /\ stage[n] = "setnx" /\ got[n] = None
    /\ SetNX(FALSE)
    /\ stage' = [stage EXCEPT ![n] = "eta"]
    /\ UNCHANGED <<redis, group, got, reply, eta, waited, requestVars, historyVars>>

-----------------------------------------------------------------------------
(* GetterFunc: the wait loop *)

\* Mutant: the ETA entry is never read.
ReadETADefault(n) ==
    /\ stage[n] = "eta"
    /\ eta' = [eta EXCEPT ![n] = WaitETA - 1]
    /\ stage' = [stage EXCEPT ![n] = "wait"]
    /\ UNCHANGED <<redisVars, group, got, reply, waited, requestVars, historyVars>>

\* The deadline is the ETA entry's, or a full WaitETA, counted from the
\* pipeline, when it cannot be read: because it lapsed since the SETNX as well.
ReadETA(n) ==
    /\ stage[n] = "eta"
    /\ \/ lock # Gone /\ eta' = [eta EXCEPT ![n] = lock]
       \/ (lock = Gone \/ Faults) /\ eta' = [eta EXCEPT ![n] = WaitETA - 1]
    /\ stage' = [stage EXCEPT ![n] = "wait"]
    /\ UNCHANGED <<redisVars, group, got, reply, waited, requestVars, historyVars>>

\* The loop's GET finds a body.  (Finding none, it sleeps 5 ms and loops.)
WaitGet(n) ==
    /\ stage[n] = "wait"
    /\ redis.left # Gone
    /\ got' = [got EXCEPT ![n] = redis.val]
    /\ stage' = [stage EXCEPT ![n] = "wttl"]
    /\ UNCHANGED <<redisVars, group, reply, eta, waited, requestVars, historyVars>>

\* The loop's TTL: a body without a usable TTL is not taken, the loop goes on.
\* (So it does when the TTL command fails, as if it had not polled.)
WaitTTL(n) ==
    LET ttl == TTLReply(redis.left)
    IN  /\ stage[n] = "wttl"
        /\ \/ /\ ttl = -1 \/ ttl > 0
              /\ Deliver(n, got[n], CopyLeft(ttl))
           \/ /\ ~ (ttl = -1 \/ ttl > 0)
              /\ stage' = [stage EXCEPT ![n] = "wait"]
              /\ got' = [got EXCEPT ![n] = None]
              /\ UNCHANGED <<group, reply, eta, waited, pc, answer>>
        /\ UNCHANGED <<redisVars, outcome, historyVars>>

\* Mutant: the loop ends only once there is a body.
WaitTimeoutPopulated(n) ==
    /\ stage[n] = "wait"
    /\ eta[n] = 0 /\ redis.left # Gone
    /\ NotFound(n)
    /\ UNCHANGED <<redisVars, outcome, historyVars>>

WaitTimeout(n) ==
    /\ stage[n] = "wait"
    /\ eta[n] = 0
    /\ NotFound(n)
    /\ UNCHANGED <<redisVars, outcome, historyVars>>

\* The loop's GET fails, or the context of the flight's first request ends.
WaitFail(n) ==
    /\ Faults
    /\ stage[n] = "wait"
    /\ NotFound(n)
    /\ UNCHANGED <<redisVars, outcome, historyVars>>

-----------------------------------------------------------------------------
(* The handler after a miss: the upstream call and RedisCacheClient.Set *)

\* Mutant: the response is sent before it is saved.
UpstreamOKAnswersFirst(r) ==
    /\ pc[r] = "upstream"
    /\ outcome' = [outcome EXCEPT ![r] = "ok"]
    /\ pc' = [pc EXCEPT ![r] = "save"]
    /\ answer' = [answer EXCEPT ![r] = r]
    /\ UNCHANGED <<redisVars, group, flightVars, historyVars>>

\* Upstream answered 200.
UpstreamOK(r) ==
    /\ pc[r] = "upstream"
    /\ outcome' = [outcome EXCEPT ![r] = "ok"]
    /\ pc' = [pc EXCEPT ![r] = "save"]
    /\ UNCHANGED <<redisVars, group, flightVars, answer, historyVars>>

\* Upstream answered another status: passed on, not cached.
UpstreamError(r) ==
    /\ pc[r] = "upstream"
    /\ outcome' = [outcome EXCEPT ![r] = "error"]
    /\ pc' = [pc EXCEPT ![r] = "done"]
    /\ answer' = [answer EXCEPT ![r] = r]
    /\ UNCHANGED <<redisVars, group, flightVars, historyVars>>

\* DoTimeout failed.  The handler still processes the response, which was
\* never filled: its status code reads 200 and its body is empty.
UpstreamUnreachable(r) ==
    /\ pc[r] = "upstream"
    /\ outcome' = [outcome EXCEPT ![r] = "unreachable"]
    /\ pc' = [pc EXCEPT ![r] = "save"]
    /\ UNCHANGED <<redisVars, group, flightVars, answer, historyVars>>

\* The body reaches Redis.
WriteRedis(r) ==
    /\ redis' = [val |-> r, left |-> FullLife]
    /\ stored' = stored \union {r}
    /\ UNCHANGED <<lock, age>>

SetRedis(r) ==
    /\ pc[r] = "save"
    /\ WriteRedis(r)
    /\ pc' = [pc EXCEPT ![r] = "gcset"]
    /\ UNCHANGED <<group, flightVars, answer, outcome>>

\* Mutant: an error of the Redis SET no longer skips groupcache.
SetRedisFailGoesOn(r) ==
    /\ Faults
    /\ pc[r] = "save"
    /\ pc' = [pc EXCEPT ![r] = "gcset"]
    /\ UNCHANGED <<redisVars, group, flightVars, answer, outcome, historyVars>>

\* The Redis SET returns an error (applied or not): groupcache is not touched.
SetRedisFail(r) ==
    /\ Faults
    /\ pc[r] = "save"
    /\ WriteRedis(r) \/ UNCHANGED <<redisVars, historyVars>>
    /\ pc' = [pc EXCEPT ![r] = "done"]
    /\ answer' = [answer EXCEPT ![r] = r]
    /\ UNCHANGED <<group, flightVars, outcome>>

SetGroupcache(r) ==
    /\ pc[r] = "gcset"
    /\ group' = [group EXCEPT ![NodeOf[r]] = [val |-> r, left |-> FullLife]]
    /\ pc' = [pc EXCEPT ![r] = "done"]
    /\ answer' = [answer EXCEPT ![r] = r]
    /\ UNCHANGED <<redisVars, flightVars, outcome, historyVars>>

-----------------------------------------------------------------------------
(* The environment: crashes, expiry, eviction and the clock *)

Active == {"flight", "upstream", "save", "gcset"}

\* The process dies with its requests and its groupcache, and restarts empty.
Crash(n) ==
    /\ group[n].left # Gone \/ \E r \in Requests : NodeOf[r] = n /\ pc[r] \in Active
    /\ pc' = [r \in Requests |-> IF NodeOf[r] = n /\ pc[r] \in Active THEN "dead" ELSE pc[r]]
    /\ group' = [group EXCEPT ![n] = NoEntry]
    /\ EndFlight(n)
    /\ UNCHANGED <<redisVars, answer, outcome, historyVars>>

RedisExpire ==
    /\ redis.left = 0
    /\ redis' = NoEntry
    /\ UNCHANGED <<lock, group, flightVars, requestVars, historyVars>>

LockExpire ==
    /\ lock = 0
    /\ lock' = Gone
    /\ UNCHANGED <<redis, group, flightVars, requestVars, historyVars>>

GroupExpire(n) ==
    /\ group[n].left = 0
    /\ group' = [group EXCEPT ![n] = NoEntry]
    /\ UNCHANGED <<redisVars, flightVars, requestVars, historyVars>>

\* groupcache's LRU makes room for another key.
GroupEvict(n) ==
    /\ group[n].left \notin {Gone, 0}
    /\ group' = [group EXCEPT ![n] = NoEntry]
    /\ UNCHANGED <<redisVars, flightVars, requestVars, historyVars>>

\* A Redis round trip is shorter than a tick, and so is the wait loop's poll.
Tick ==
    /\ \A n \in Nodes : stage[n] \notin {"ttl", "setnx", "eta", "wttl"}
    /\ \A r \in Requests : pc[r] # "gcset"
    /\ redis.left # 0 /\ lock # 0
    /\ \A n \in Nodes : group[n].left # 0 /\ ~ (stage[n] = "wait" /\ eta[n] = 0)
    /\ redis' = [redis EXCEPT !.left = Countdown(@)]
    /\ lock' = Countdown(lock)
    /\ group' = [n \in Nodes |-> [group[n] EXCEPT !.left = Countdown(@)]]
    /\ eta' = [n \in Nodes |-> Countdown(eta[n])]
    /\ age' = [r \in Requests |-> IF r \in stored /\ age[r] < AgeCap THEN age[r] + 1 ELSE age[r]]
    /\ waited' = [n \in Nodes |-> IF stage[n] = "wait" THEN waited[n] + 1 ELSE waited[n]]
    /\ UNCHANGED <<stage, got, reply, requestVars, stored>>

-----------------------------------------------------------------------------
\* What a node's flight does by itself.
FlightStep(n) ==
    \/ GetterGet(n) \/ GetterTTL(n)
    \/ GetterHit(n) \/ GetterMiss(n) \/ GetterMustWait(n)
    \/ ReadETA(n) \/ WaitGet(n) \/ WaitTTL(n) \/ WaitTimeout(n)

\* What a request's handler does by itself.
HandlerStep(r) ==
    \/ UpstreamOK(r) \/ UpstreamError(r) \/ UpstreamUnreachable(r)
    \/ SetRedis(r) \/ SetRedisFail(r) \/ SetGroupcache(r)

Next ==
    \/ \E r \in Requests : GetHit(r) \/ GetMiss(r) \/ HandlerStep(r)
    \/ \E n \in Nodes : FlightStep(n) \/ WaitFail(n) \/ Crash(n)
    \/ RedisExpire \/ LockExpire
    \/ \E n \in Nodes : GroupExpire(n) \/ GroupEvict(n)
    \/ Tick

\* Goroutines run, upstream calls end (UPSTREAM_TIME_OUT), entries expire and
\* time passes.  Nothing is assumed of faults, crashes, evictions and arrivals.
Fairness ==
    /\ \A n \in Nodes : WF_vars(FlightStep(n)) /\ WF_vars(GroupExpire(n))
    /\ \A r \in Requests : WF_vars(HandlerStep(r))
    /\ WF_vars(RedisExpire) /\ WF_vars(LockExpire)
    /\ SF_vars(Tick)

Spec == Init /\ [][Next]_vars

FairSpec == Spec /\ Fairness

-----------------------------------------------------------------------------
(* Properties *)

Stages == {"none", "get", "ttl", "setnx", "eta", "wait", "wttl"}
Deadline == Gone .. (IF TTL > 0 THEN 2 * TTL - 1 ELSE Never)
Entry == [val : Requests \union {None}, left : Deadline]

\* Every variable has its type: in particular no countdown ever passes below
\* Redis' -2 or above a full ttl.
TypeOK ==
    /\ redis \in Entry
    /\ lock \in {Gone} \union 0 .. WaitETA - 1
    /\ group \in [Nodes -> Entry]
    /\ stage \in [Nodes -> Stages]
    /\ got \in [Nodes -> Requests \union {None, Failed}]
    /\ reply \in [Nodes -> Gone .. (IF TTL > 0 THEN TTL ELSE 0)]
    /\ eta \in [Nodes -> 0 .. WaitETA]
    /\ waited \in [Nodes -> 0 .. WaitETA]
    /\ pc \in [Requests -> {"idle", "done", "dead"} \union Active]
    /\ answer \in [Requests -> Requests \union {None}]
    /\ outcome \in [Requests -> {"none", "ok", "error", "unreachable"}]
    /\ stored \in SUBSET Requests
    /\ age \in [Requests -> 0 .. AgeCap]

\* Whatever a groupcache holds, and whatever body of another request someone
\* is answered with, was written to Redis by a Set (cache_service.go:419 "We
\* are not going to save to groupcache if redis set failed"), and was never a
\* response with an error status (main.go:92), whoever failed or crashed.
StoredBeforeServed ==
    /\ \A n \in Nodes : group[n].left # Gone => group[n].val \in stored
    /\ \A r \in Requests : answer[r] \in Requests \ {r} => answer[r] \in stored
    /\ \A v \in stored : outcome[v] # "error"

\* A groupcache copy that expires at all is gone, and no longer served, before
\* its body is twice its ttl old, however GetterFunc's GET and TTL interleave
\* with expiry and with the Set of another node.
BoundedStaleness ==
    \A n \in Nodes : group[n].left >= 0 => age[group[n].val] + group[n].left <= 2 * FullLife

\* A flight waits, in all, less than the configured wait (config.go:87 "the
\* others process will wait up to ENGINE_PLUS_GROUPCACHE_WAIT_ETA (ms)"),
\* however its polls, the bodies that expire under it and the lock go, a lock
\* that lapsed before its ETA was read included; and while there is a lock, the
\* one it waits for or one taken since, it gives up no later than that lapses.
WaitsUpToETA ==
    \A n \in Nodes : stage[n] \in {"wait", "wttl"} =>
        /\ waited[n] + eta[n] < WaitETA
        /\ lock # Gone => eta[n] <= lock

\* Every request that missed groupcache is answered in the end, unless its
\* process crashed: GetterFunc always returns, and no wait for a process that
\* will never write the body is endless.
RequestsFinish == \A r \in Requests : pc[r] \in Active ~> pc[r] \in {"done", "dead"}

\* The cache promises what ReadThroughCache says, with the bodies written to
\* Redis for the published ones.
Promise == INSTANCE ReadThroughCache WITH published <- stored
ReadThrough == Promise!Spec

(* What comments and documentation say and the code does not ensure *)

\* config.go:144 "The maximum allowed cache TTL for a query": with a positive
\* ttl no copy of the body is kept without an expiry.
MaxTTLRespected == TTL > 0 => \A n \in Nodes : group[n].left # Never

\* cache_service.go:223 "populate cache with the response data from the Hasura
\* GraphQL Engine": what is stored is a response the engine gave.
StoredIsEngineResponse == \A v \in stored : outcome[v] = "ok"

-----------------------------------------------------------------------------
(* The inductive invariant behind the safety properties *)

\* The key in Redis is a stored body, or nothing.
RedisInv ==
    /\ redis.left = Gone => redis.val = None
    /\ redis.left # Gone => redis.val \in stored
    /\ TTL > 0 => redis.left # Never

GroupInv == \A n \in Nodes : group[n].left # Gone => group[n].val \in stored

\* A flight holds a body only inside a pipeline, and then a stored one; it
\* waits only if waiting is configured, and what it has waited and what is left
\* make up less than the configured wait.
FlightInv ==
    \A n \in Nodes :
        /\ got[n] \in Requests => got[n] \in stored /\ stage[n] \in {"ttl", "setnx", "wttl"}
        /\ stage[n] = "wttl" => got[n] \in Requests
        /\ stage[n] \in {"eta", "wait", "wttl"} => WaitETA > 0
        /\ stage[n] \in {"wait", "wttl"} => waited[n] + eta[n] < WaitETA
        /\ stage[n] \notin {"wait", "wttl"} => waited[n] = 0

\* A request stores its body between its upstream call and its answer.
RequestInv ==
    \A r \in Requests :
        /\ pc[r] \in {"idle"} \union Active => answer[r] = None
        /\ pc[r] \in {"idle", "flight", "upstream", "save"} => r \notin stored
        /\ pc[r] \in {"save", "gcset"} => outcome[r] # "error"
        /\ pc[r] = "gcset" => r \in stored
        /\ answer[r] \in Requests \ {r} => answer[r] \in stored
        /\ r \in stored => outcome[r] # "error"

\* How old the body behind each copy is: the Redis entry's age and remaining
\* time make up the ttl, what a pipeline holds was in Redis in this very tick.
ClockInv ==
    TTL > 0 =>
        /\ redis.left # Gone => age[redis.val] + redis.left = FullLife
        /\ \A n \in Nodes : got[n] \in Requests => age[got[n]] <= FullLife
        /\ \A r \in Requests : r \notin stored \/ pc[r] = "gcset" => age[r] = 0
        /\ BoundedStaleness

IInv == TypeOK /\ RedisInv /\ GroupInv /\ FlightInv /\ RequestInv /\ ClockInv
=============================================================================
