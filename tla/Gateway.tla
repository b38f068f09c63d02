------------------------------- MODULE Gateway -------------------------------
(***************************************************************************)
(* The HTTP endpoints of GraphQL Engine Plus: what they do with a request, *)
(* which engine it is sent to, and what is answered from the query cache,  *)
(* while the engines start, become healthy and fail (Readiness).           *)
(*                                                                         *)
(* Each request runs in a goroutine of its own.  The cache is a map that   *)
(* may lose an entry at any time; QueryCache models how it is kept.        *)
(***************************************************************************)
EXTENDS RequestRules

CONSTANTS
    Configs,    \* configurations: replica URLs set, weight, Redis, max TTL, execute URL allowed
    Requests,
    Traffic,    \* what the requests are: a set of functions from Requests
    Failed,     \* the response of an upstream call that failed
    None

ASSUME ConfigsAssumption ==
    Configs \subseteq [replica : BOOLEAN, weight : Nat, redis : BOOLEAN, maxTTL : Int, allowExecUrl : BOOLEAN]
ASSUME TrafficAssumption ==
    \A t \in Traffic :
        /\ DOMAIN t = Requests
        /\ \A r \in Requests :
            /\ t[r].doc.value \in Nat \union {TrueParam}
            /\ KeyLines(t[r]) \subseteq Int /\ IsFiniteSet(KeyLines(t[r]))

\* The same header, or the same token but for the claims that are renewed.
SameHeader(g, h) ==
    \/ g = h
    \/ /\ g.class = "bearer" /\ h.class = "bearer"
       /\ DOMAIN g.claims \ RenewedClaims = DOMAIN h.claims \ RenewedClaims
       /\ \A c \in DOMAIN h.claims \ RenewedClaims : g.claims[c] = h.claims[c]

\* One user's requests have the same headers, but for those that differ from
\* call to call.
ASSUME UserHeadersAssumption ==
    \A t \in Traffic : \A r, q \in Requests :
        t[r].user = t[q].user =>
            \A h \in t[r].headers :
                h.class = "notCached" \/ \E g \in t[q].headers : SameHeader(g, h)

VARIABLES
    config,     \* the configuration
    traffic,    \* what each request is
    pc,         \* where its handler is
    ask,        \* the engines a deep health check looks at
    key,        \* its cache key
    upstream,   \* the server it was sent to
    status,     \* the status it was answered with
    body,       \* the response it was answered with: whose it is
    cache,      \* the query cache
    died,       \* whether a handler panicked, and took the process with it
    startup, readonly, healthy,     \* of Readiness
    seen        \* history: the servers that were healthy at some time

gateVars == <<pc, ask, key, upstream, status, body, cache>>
ctxVars == <<startup, readonly, healthy, seen>>
vars == <<config, traffic, gateVars, died, ctxVars>>

Engines == INSTANCE Readiness

Init ==
    /\ config \in Configs
    /\ traffic \in Traffic
    /\ pc = [r \in Requests |-> "idle"]
    /\ ask = [r \in Requests |-> {}]
    /\ key = [r \in Requests |-> None]
    /\ upstream = [r \in Requests |-> "none"]
    /\ status = [r \in Requests |-> "none"]
    /\ body = [r \in Requests |-> None]
    /\ cache = {}
    /\ died = FALSE
    /\ Engines!Init
    /\ seen = {}

-----------------------------------------------------------------------------
Goto(r, l) == pc' = [pc EXCEPT ![r] = l]

Answer(r, s, b) ==
    /\ Goto(r, "done")
    /\ status' = [status EXCEPT ![r] = s]
    /\ body' = [body EXCEPT ![r] = b]

Send(r, server) ==
    /\ Goto(r, "sent")
    /\ upstream' = [upstream EXCEPT ![r] = server]
    /\ UNCHANGED <<status, body>>

\* Mutant: only a successful startup lets requests through.
StartupOverReady == startup = "ready"

\* startupCtx.Err() # nil, and the end of <-startupCtx.Done().
StartupOver == startup # "open"

-----------------------------------------------------------------------------
(* The health endpoints *)

Alive(r) ==
    /\ pc[r] = "idle" /\ traffic[r].path = "/health"
    /\ Answer(r, IF StartupOver THEN "ok" ELSE "unavailable", None)
    /\ UNCHANGED <<ask, key, upstream, cache>>

HealthTooEarly(r) ==
    /\ pc[r] = "idle" /\ traffic[r].path = "health"
    /\ ~ StartupOver
    /\ Answer(r, "unavailable", None)
    /\ UNCHANGED <<ask, key, upstream, cache>>

\* Which engines are asked for is decided before the call.
Health(r) ==
    /\ pc[r] = "idle" /\ traffic[r].path = "health"
    /\ StartupOver
    /\ ask' = [ask EXCEPT ![r] =
                {"primary"} \union (IF config.replica /\ readonly # "open" THEN {"replica"} ELSE {})]
    /\ Goto(r, "probe")
    /\ UNCHANGED <<key, upstream, status, body, cache>>

\* healthcheck_graphql_engine, in the scripting server.
HealthAnswer(r) ==
    /\ pc[r] = "probe"
    /\ Answer(r, IF {"scripting"} \union ask[r] \subseteq healthy THEN "ok" ELSE "failed", None)
    /\ UNCHANGED <<ask, key, upstream, cache>>

-----------------------------------------------------------------------------
(* The scripting and metadata endpoints *)

\* The secret, and the execute URL where it is not allowed, are looked at
\* before the wait for startup.
Refused(req) ==
    /\ req.path = "scripting"
    /\ req.secret # "right" \/ (req.execUrl /\ ~ config.allowExecUrl)

ScriptingRefused(r) ==
    /\ pc[r] = "idle" /\ Refused(traffic[r])
    /\ Answer(r, "refused", None)
    /\ UNCHANGED <<ask, key, upstream, cache>>

Proxy(r) ==
    /\ pc[r] = "idle" /\ traffic[r].path \in {"meta", "scripting"}
    /\ ~ Refused(traffic[r])
    /\ StartupOver
    /\ Send(r, IF traffic[r].path = "meta" THEN "primary" ELSE "scripting")
    /\ UNCHANGED <<ask, key, cache>>

-----------------------------------------------------------------------------
(* The GraphQL endpoints: read-write and readonly *)

Graphql(r) == pc[r] = "idle" /\ traffic[r].path \in {"rw", "ro"} /\ StartupOver

\* ParseGraphQLRequest: no JSON, or no query in it.
ParseFails(req) == req.query = None

\* A body without a query, a subscription, a mutation on the readonly path.
Rejected(req) ==
    \/ ParseFails(req)
    \/ IsSubscriptionGraphQLRequest(req.doc)
    \/ req.path = "ro" /\ IsMutationGraphQLRequest(req.doc)

GraphqlReject(r) ==
    /\ Graphql(r) /\ Rejected(traffic[r])
    /\ Answer(r, "refused", None)
    /\ UNCHANGED <<ask, key, upstream, cache>>

\* graphqlMutationHandler.
Mutation(r) ==
    /\ Graphql(r) /\ ~ Rejected(traffic[r])
    /\ IsMutationGraphQLRequest(traffic[r].doc)
    /\ Send(r, "primary")
    /\ UNCHANGED <<ask, key, cache>>

TTL(r) == IsCachedQueryGraphQLRequest(traffic[r].doc, config.maxTTL)

\* graphqlQueryHandler: everything else.
Query(r) == Graphql(r) /\ ~ Rejected(traffic[r]) /\ ~ IsMutationGraphQLRequest(traffic[r].doc)

QueryUncached(r) ==
    /\ Query(r) /\ (TTL(r) = 0 \/ ~ config.redis)
    /\ Goto(r, "route")
    /\ UNCHANGED <<ask, key, upstream, status, body, cache>>

\* Mutant: the cache client is not looked at.
QueryCachedAlways(r) ==
    /\ Query(r) /\ TTL(r) # 0
    /\ \E walk \in WalkOrders(KeyLines(traffic[r])) :
        key' = [key EXCEPT ![r] = CalculateCacheKey(traffic[r], walk)]
    /\ Goto(r, "lookup")
    /\ UNCHANGED <<ask, upstream, status, body, cache>>

QueryCached(r) ==
    /\ Query(r) /\ TTL(r) # 0 /\ config.redis
    /\ ~ Panics(traffic[r])
    /\ \E walk \in WalkOrders(KeyLines(traffic[r])) :
        key' = [key EXCEPT ![r] = CalculateCacheKey(traffic[r], walk)]
    /\ Goto(r, "lookup")
    /\ UNCHANGED <<ask, upstream, status, body, cache>>

\* Nothing recovers from a panic in a handler's goroutine: the process dies.
QueryPanics(r) ==
    /\ Query(r) /\ TTL(r) # 0 /\ config.redis
    /\ Panics(traffic[r])
    /\ died' = TRUE
    /\ UNCHANGED gateVars

CacheHit(r) ==
    /\ pc[r] = "lookup"
    /\ \E e \in cache : e.key = key[r] /\ Answer(r, "ok", e.body)
    /\ UNCHANGED <<ask, key, upstream, cache>>

\* No entry, an expired one, or an error of the cache.
CacheMiss(r) ==
    /\ pc[r] = "lookup"
    /\ Goto(r, "route")
    /\ UNCHANGED <<ask, key, upstream, status, body, cache>>

\* The draw is from 0 .. 99.
ToPrimary == ~ config.replica \/ readonly = "open" \/ config.weight > 0

\* Mutant: the replica's context is not looked at.
ToReplicaByWeight == config.replica /\ config.weight < 100

ToReplica == config.replica /\ readonly # "open" /\ config.weight < 100

RoutePrimary(r) ==
    /\ pc[r] = "route" /\ ToPrimary
    /\ Send(r, "primary")
    /\ UNCHANGED <<ask, key, cache>>

RouteReplica(r) ==
    /\ pc[r] = "route" /\ ToReplica
    /\ Send(r, "replica")
    /\ UNCHANGED <<ask, key, cache>>

\* processProxyResponse: only queries with a key are stored, with a time to
\* live that RedisCacheClient.Set accepts.  The status of a call that failed
\* reads as 200, and it is stored like a response.
Store(r, b) ==
    cache' = IF key[r] = None \/ TTL(r) < -1 THEN cache
             ELSE {e \in cache : e.key # key[r]} \union {[key |-> key[r], body |-> b, ttl |-> TTL(r)]}

\* DoTimeout, proxy.Do: the server answers, with status 200 or with another,
\* which is passed on and not stored; or the call fails.
Reply(r) ==
    /\ pc[r] = "sent"
    /\ \/ /\ upstream[r] \in healthy
          /\ Answer(r, "ok", Identity(traffic[r]))
          /\ Store(r, Identity(traffic[r]))
       \/ /\ Answer(r, "error", None)
          /\ UNCHANGED cache
       \/ /\ Answer(r, "failed", Failed)
          /\ Store(r, Failed)
    /\ UNCHANGED <<ask, key, upstream>>

-----------------------------------------------------------------------------
Handler(r) ==
    \/ Alive(r) \/ HealthTooEarly(r) \/ Health(r) \/ HealthAnswer(r)
    \/ ScriptingRefused(r) \/ Proxy(r)
    \/ GraphqlReject(r) \/ Mutation(r) \/ QueryUncached(r) \/ QueryCached(r)
    \/ CacheHit(r) \/ CacheMiss(r) \/ RoutePrimary(r) \/ RouteReplica(r) \/ Reply(r)

\* A step of a request, while the process lives.
Step(r) ==
    /\ ~ died
    /\ \/ Handler(r) /\ UNCHANGED died
       \/ QueryPanics(r)
    /\ UNCHANGED <<config, traffic, ctxVars>>

Environment(A) ==
    /\ ~ died
    /\ A
    /\ seen' = seen \union healthy'
    /\ UNCHANGED <<config, traffic, gateVars, died>>

Next ==
    \/ \E r \in Requests : Step(r)
    \/ Environment(Engines!Next)

Spec == Init /\ [][Next]_vars

\* The deadlines fire, and every handler goes on: the upstream calls of the
\* GraphQL endpoints have a timeout.
FairSpec ==
    /\ Spec
    /\ WF_vars(Environment(Engines!ContextEnds))
    /\ \A r \in Requests : WF_vars(Step(r))

-----------------------------------------------------------------------------
(* Properties *)

\* Every variable has its type, and only requests for the query cache have a
\* key.
TypeOK ==
    /\ config \in Configs /\ traffic \in Traffic
    /\ pc \in [Requests -> {"idle", "probe", "lookup", "route", "sent", "done"}]
    /\ ask \in [Requests -> SUBSET {"primary", "replica"}]
    /\ upstream \in [Requests -> {"none"} \union Engines!Servers]
    /\ status \in [Requests -> {"none", "ok", "unavailable", "error", "failed", "refused"}]
    /\ died \in BOOLEAN
    /\ \A r \in Requests :
        /\ key[r] # None => config.redis /\ TTL(r) # 0
        /\ body[r] \in {None, Failed} \/ \E q \in Requests : body[r] = Identity(traffic[q])
    /\ startup \in Engines!Ctx /\ readonly \in Engines!Ctx
    /\ healthy \subseteq seen /\ seen \subseteq Engines!Servers

\* A server that was never healthy is sent something only because the wait
\* for it was given up: requests wait for startup, queries keep to the primary
\* until the replica's context ends, and a context does not end as ready
\* without its server (main.go:43, fiber_graphql_handler.go:69).
UnseenServersSpared ==
    \A r \in Requests :
        /\ upstream[r] \in {"scripting", "primary"} \ seen => startup = "over"
        /\ upstream[r] \in {"replica"} \ seen => startup # "open" /\ readonly = "over"

\* What a request is answered from the cache is a failure, or the engine's
\* response to a request that looks alike: the same query and operation, and
\* variables, headers and claims that print the same, whoever's they are and
\* in whichever order they are walked (query_cache.go:124).
CachedAnswerLooksAlike ==
    \A r \in Requests :
        key[r] # None /\ status[r] = "ok" =>
            \/ body[r] = Failed
            \/ \E q \in Requests :
                LooksAlike(traffic[r], traffic[q]) /\ body[r] = Identity(traffic[q])

\* Requests of the same identity share their key: neither the order of the
\* headers, nor those that differ from call to call, nor a renewed token
\* separates them (query_cache.go:184).
SameIdentitySameKey ==
    \A r, q \in Requests :
        /\ key[r] # None /\ key[q] # None
        /\ Identity(traffic[r]) = Identity(traffic[q])
        => key[r] = key[q]

\* The time to live a response is stored with is at most the configured
\* maximum, whatever the document asks for; there is none at all only where
\* the maximum is -1, and nothing is stored when that is 0 (config.go:145).
\* It says nothing of copies read back from Redis: see QueryCache.
StoredWithinMaximum ==
    \A e \in cache :
        e.ttl <= config.maxTTL /\ (e.ttl > 0 \/ (e.ttl = -1 /\ config.maxTTL = -1))

\* A GraphQL request is answered, if not by the engines then after their
\* startup was given up or with an error (main.go:46 "this wait can last for
\* max 60s"); unless a request, its own or another's, ends the process.
RequestsAnswered ==
    \A r \in Requests : traffic[r].path \in {"rw", "ro"} ~> (pc[r] = "done" \/ died)
=============================================================================
