--------------------------- MODULE GatewayProofs -----------------------------
(***************************************************************************)
(* Gateway, for any configurations, any number of requests and any traffic *)
(* of the assumed kind: who shares a cache key, what is answered from the  *)
(* cache and stored in it, and that servers nobody saw healthy are spared. *)
(***************************************************************************)
EXTENDS Gateway, FiniteSetTheorems, TLAPS

-----------------------------------------------------------------------------
(* Lemmas about the cache key *)

\* How many lines of a set are not after x.
Rank(L, x) == Cardinality({y \in L : y <= x})

\* Different lines have different ranks, and the ranks are 1 .. Cardinality(L).
LEMMA RankOrder ==
    ASSUME NEW L, IsFiniteSet(L), L \subseteq Int
    PROVE  /\ Cardinality(L) \in Nat
           /\ \A x \in L : Rank(L, x) \in 1 .. Cardinality(L)
           /\ \A x, y \in L : x < y => Rank(L, x) < Rank(L, y)
<1> DEFINE below(x) == {y \in L : y <= x}
<1>1. Cardinality(L) \in Nat
  BY FS_CardinalityType
<1>2. ASSUME NEW x \in L
      PROVE  /\ IsFiniteSet(below(x)) /\ Cardinality(below(x)) \in Nat
             /\ Cardinality(below(x)) <= Cardinality(L)
             /\ Cardinality(below(x)) # 0
  <2>1. below(x) \in SUBSET L
    OBVIOUS
  <2>2. IsFiniteSet(below(x)) /\ Cardinality(below(x)) <= Cardinality(L)
    BY <2>1, FS_Subset
  <2>3. x \in below(x)
    OBVIOUS
  <2>4. Cardinality(below(x)) \in Nat /\ (Cardinality(below(x)) = 0 => below(x) = {})
    BY <2>2, FS_CardinalityType, FS_EmptySet
  <2> QED BY <2>2, <2>3, <2>4
<1>3. ASSUME NEW x \in L, NEW y \in L, x < y
      PROVE  Cardinality(below(x)) < Cardinality(below(y))
  <2>1. below(x) \in SUBSET below(y)
    <3> SUFFICES ASSUME NEW z \in L, z <= x PROVE z <= y
      OBVIOUS
    <3>1. x \in Int /\ y \in Int /\ z \in Int
      OBVIOUS
    <3> QED BY <1>3, <3>1
  <2>2. y \in below(y) /\ y \notin below(x)
    BY <1>3
  <2>3. Cardinality(below(x)) <= Cardinality(below(y)) /\ Cardinality(below(x)) # Cardinality(below(y))
    BY <1>2, <2>1, <2>2, FS_Subset
  <2> QED BY <1>2, <2>3
<1>4. \A x \in L : Rank(L, x) \in 1 .. Cardinality(L)
  BY <1>1, <1>2 DEF Rank
<1> QED BY <1>1, <1>3, <1>4 DEF Rank

\* Header lines can be walked in their order: sort.Strings has an outcome.
LEMMA SortedWalkExists ==
    ASSUME NEW L, IsFiniteSet(L), L \subseteq Int
    PROVE  \E s \in WalkOrders(L) : \A i, j \in DOMAIN s : i < j => s[i] < s[j]
<1> DEFINE n == Cardinality(L)
           rank == [x \in L |-> Rank(L, x)]
<1>1. n \in Nat /\ rank \in [L -> 1 .. n]
  BY RankOrder
<1>2. \A x, y \in L : x # y => rank[x] # rank[y]
  <2>1. ASSUME NEW x \in L, NEW y \in L, x < y PROVE rank[x] # rank[y]
    <3>1. rank[x] < rank[y]
      BY <2>1, RankOrder
    <3> QED BY <1>1, <3>1
  <2>2. \A x, y \in L : x # y => x < y \/ y < x
    <3>1. \A x, y \in Int : x # y => x < y \/ y < x
      OBVIOUS
    <3> QED BY <3>1
  <2> QED BY <2>1, <2>2
<1>3. \A i \in 1 .. n : \E x \in L : rank[x] = i
  <2>1. rank \in Injection(L, 1 .. n)
    BY <1>1, <1>2 DEF Injection, IsInjective
  <2>2. IsFiniteSet(1 .. n) /\ Cardinality(1 .. n) = n
    BY <1>1, FS_Interval
  <2>3. rank \in Surjection(L, 1 .. n)
    BY <2>1, <2>2, FS_Injection
  <2> QED BY <2>3 DEF Surjection
<1> DEFINE s == [i \in 1 .. n |-> CHOOSE x \in L : rank[x] = i]
<1>4. \A i \in 1 .. n : s[i] \in L /\ rank[s[i]] = i
  BY <1>3
<1>5. s \in [1 .. n -> L] /\ DOMAIN s = 1 .. n
  BY <1>4
<1> HIDE DEF s
<1>6. {s[i] : i \in DOMAIN s} = L
  <2>1. ASSUME NEW x \in L PROVE s[rank[x]] = x
    BY <1>1, <1>2, <1>4
  <2>2. \A x \in L : rank[x] \in DOMAIN s /\ s[rank[x]] = x
    BY <1>1, <1>5, <2>1
  <2> QED BY <1>4, <1>5, <2>2
<1>7. ASSUME NEW i \in 1 .. n, NEW j \in 1 .. n, i < j PROVE s[i] < s[j]
  <2>1. s[i] \in L /\ s[j] \in L /\ rank[s[i]] = i /\ rank[s[j]] = j
    BY <1>4
  <2>2. s[i] # s[j]
    BY <1>7, <2>1
  <2>3. s[j] < s[i] => rank[s[j]] < rank[s[i]]
    BY <2>1, RankOrder
  <2>4. s[i] \in Int /\ s[j] \in Int /\ i \in Int /\ j \in Int
    <3>1. i \in Int /\ j \in Int
      BY <1>1
    <3> QED BY <2>1, <3>1
  <2>5. ~ (s[j] < s[i])
    BY <1>7, <2>1, <2>3, <2>4
  <2> QED BY <2>2, <2>4, <2>5
<1>8. s \in WalkOrders(L)
  BY <1>5, <1>6 DEF WalkOrders
<1> QED BY <1>5, <1>7, <1>8

\* A walk in order, of the lines L.
InOrder(s, L) == s \in WalkOrders(L) /\ \A i, j \in DOMAIN s : i < j => s[i] < s[j]

\* In such a walk a line's place is its rank.
LEMMA PlaceIsRank ==
    ASSUME NEW L, IsFiniteSet(L), L \subseteq Int, NEW s, InOrder(s, L), NEW i \in DOMAIN s
    PROVE  s[i] \in L /\ Rank(L, s[i]) = i
<1> DEFINE n == Cardinality(L)
           T == {y \in L : y <= s[i]}
           f == [j \in 1 .. i |-> s[j]]
<1>1. n \in Nat /\ s \in [1 .. n -> L] /\ {s[j] : j \in DOMAIN s} = L /\ DOMAIN s = 1 .. n
  BY FS_CardinalityType DEF InOrder, WalkOrders
<1>2. \A j, k \in 1 .. n : j < k => s[j] < s[k]
  BY <1>1 DEF InOrder
<1>3. i \in 1 .. n /\ 1 .. i \subseteq 1 .. n /\ \A j \in 1 .. n : s[j] \in L /\ s[j] \in Int
  BY <1>1
<1>4. \A j \in 1 .. n : s[j] <= s[i] <=> j <= i
  <2> SUFFICES ASSUME NEW j \in 1 .. n PROVE s[j] <= s[i] <=> j <= i
    OBVIOUS
  <2>1. CASE j < i
    BY <1>2, <1>3, <2>1
  <2>2. CASE j = i
    BY <1>3, <2>2
  <2>3. CASE i < j
    <3>1. s[i] < s[j] /\ s[i] \in Int /\ s[j] \in Int
      BY <1>2, <1>3, <2>3
    <3> QED BY <1>3, <2>3, <3>1
  <2> QED BY <1>3, <2>1, <2>2, <2>3
<1>5. f \in [1 .. i -> T]
  BY <1>3, <1>4
<1>6. f \in Surjection(1 .. i, T)
  <2>1. ASSUME NEW y \in T PROVE \E j \in 1 .. i : f[j] = y
    <3>1. PICK j \in 1 .. n : s[j] = y
      BY <1>1
    <3> QED BY <1>3, <1>4, <3>1
  <2> QED BY <1>5, <2>1 DEF Surjection
<1>7. f \in Injection(1 .. i, T)
  <2>1. ASSUME NEW j \in 1 .. i, NEW k \in 1 .. i, f[j] = f[k] PROVE j = k
    <3>1. j \in 1 .. n /\ k \in 1 .. n /\ s[j] = s[k] /\ s[j] \in Int
      BY <1>3, <2>1
    <3>2. ~ (j < k) /\ ~ (k < j)
      BY <1>2, <3>1
    <3> QED BY <3>1, <3>2
  <2> QED BY <1>5, <2>1 DEF Injection, IsInjective
<1>8. IsFiniteSet(1 .. i) /\ Cardinality(1 .. i) = i
  BY <1>3, FS_Interval
<1>9. Cardinality(T) = i
  BY <1>6, <1>7, <1>8, FS_Surjection
<1> QED BY <1>3, <1>9 DEF Rank

\* Sorting has one outcome, whatever the walk: Sorted leaves nothing open.
LEMMA SortedIsTheOrder ==
    ASSUME NEW L, IsFiniteSet(L), L \subseteq Int, NEW w \in WalkOrders(L)
    PROVE  InOrder(Sorted(w), L) /\ \A s : InOrder(s, L) => s = Sorted(w)
<1>1. {w[i] : i \in DOMAIN w} = L
  BY DEF WalkOrders
<1>2. InOrder(Sorted(w), L)
  BY <1>1, SortedWalkExists DEF Sorted, InOrder
<1>3. ASSUME NEW s, InOrder(s, L), NEW t, InOrder(t, L) PROVE s = t
  <2> DEFINE n == Cardinality(L)
  <2>1. s \in [1 .. n -> L] /\ t \in [1 .. n -> L] /\ n \in Nat
    BY <1>3, FS_CardinalityType DEF InOrder, WalkOrders
  <2> HIDE DEF n
  <2>2. ASSUME NEW i \in 1 .. n PROVE s[i] = t[i]
    <3>1. i \in DOMAIN s /\ i \in DOMAIN t
      BY <2>1
    <3>2. s[i] \in L /\ Rank(L, s[i]) = i
      BY <1>3, <3>1, PlaceIsRank
    <3>3. t[i] \in L /\ Rank(L, t[i]) = i
      BY <1>3, <3>1, PlaceIsRank
    <3>4. s[i] \in Int /\ t[i] \in Int /\ ~ (i < i)
      <4>1. i \in Int
        BY <2>1
      <4>2. s[i] \in Int /\ t[i] \in Int
        BY <3>2, <3>3
      <4> QED BY <4>1, <4>2
    <3>5. ~ (s[i] < t[i]) /\ ~ (t[i] < s[i])
      BY <3>2, <3>3, <3>4, RankOrder
    <3> QED BY <3>4, <3>5
  <2> QED BY <2>1, <2>2
<1> QED BY <1>2, <1>3

\* Two walks of the same lines sort alike; walks that sort alike are of the
\* same lines.
LEMMA SortedTellsLines ==
    ASSUME NEW L, IsFiniteSet(L), L \subseteq Int, NEW v \in WalkOrders(L),
           NEW M, IsFiniteSet(M), M \subseteq Int, NEW w \in WalkOrders(M)
    PROVE  Sorted(v) = Sorted(w) <=> L = M
<1>1. InOrder(Sorted(v), L) /\ InOrder(Sorted(w), M)
  BY SortedIsTheOrder
<1>2. ASSUME NEW s, NEW N, InOrder(s, N) PROVE {s[i] : i \in DOMAIN s} = N
  BY <1>2 DEF InOrder, WalkOrders
<1>3. Sorted(v) = Sorted(w) => L = M
  BY <1>1, <1>2
<1>4. L = M => Sorted(v) = Sorted(w)
  BY <1>1, SortedIsTheOrder
<1> QED BY <1>3, <1>4

\* A header that differs in renewed claims only adds the same to the key
\* (query_cache.go:152-157).
LEMMA SameHeaderLines ==
    ASSUME NEW g, NEW h, SameHeader(g, h)
    PROVE  HeaderLines(g) = HeaderLines(h)
<1>1. CASE g = h
  BY <1>1
<1>2. CASE g.class = "bearer" /\ h.class = "bearer"
  <2>1. HeaderLines(g) = {g.claims[c] : c \in DOMAIN g.claims \ RenewedClaims}
    BY <1>2 DEF HeaderLines
  <2>2. HeaderLines(h) = {h.claims[c] : c \in DOMAIN h.claims \ RenewedClaims}
    BY <1>2 DEF HeaderLines
  <2>3. CASE g # h
    BY <2>1, <2>2, <2>3 DEF SameHeader
  <2> QED BY <1>1, <2>3
<1> QED BY <1>1, <1>2 DEF SameHeader

\* Requests of the same user have the same header lines.
LEMMA UsersLines ==
    ASSUME NEW t \in Traffic, NEW r \in Requests, NEW q \in Requests, t[r].user = t[q].user
    PROVE  KeyLines(t[r]) = KeyLines(t[q])
<1>1. ASSUME NEW a \in Requests, NEW b \in Requests, t[a].user = t[b].user
      PROVE  KeyLines(t[a]) \subseteq KeyLines(t[b])
  <2> SUFFICES ASSUME NEW h \in t[a].headers, NEW l \in HeaderLines(h)
               PROVE  \E g \in t[b].headers : l \in HeaderLines(g)
    BY DEF KeyLines
  <2>1. h.class # "notCached"
    BY DEF HeaderLines
  <2>2. PICK g \in t[b].headers : SameHeader(g, h)
    BY <1>1, <2>1, UserHeadersAssumption
  <2> QED BY <2>2, SameHeaderLines
<1> QED BY <1>1

\* Two requests have the same cache key exactly if they look alike, in
\* whichever orders their headers are walked (query_cache.go:184).
LEMMA KeyIsLooks ==
    ASSUME NEW t \in Traffic, NEW r \in Requests, NEW q \in Requests,
           NEW v \in WalkOrders(KeyLines(t[r])), NEW w \in WalkOrders(KeyLines(t[q]))
    PROVE  CalculateCacheKey(t[r], v) = CalculateCacheKey(t[q], w)
             <=> LooksAlike(t[r], t[q])
<1>1. Sorted(v) = Sorted(w) <=> KeyLines(t[r]) = KeyLines(t[q])
  BY TrafficAssumption, SortedTellsLines
<1>2. CalculateCacheKey(t[r], v) = CalculateCacheKey(t[q], w) <=>
        /\ t[r].query = t[q].query /\ t[r].operationName = t[q].operationName
        /\ Sorted(v) = Sorted(w) /\ Sprint(t[r].variables) = Sprint(t[q].variables)
  BY DEF CalculateCacheKey
<1> QED BY <1>1, <1>2 DEF LooksAlike

\* Requests of the same identity look alike.
LEMMA IdentityLooks ==
    ASSUME NEW t \in Traffic, NEW r \in Requests, NEW q \in Requests,
           Identity(t[r]) = Identity(t[q])
    PROVE  LooksAlike(t[r], t[q])
<1>1. /\ t[r].query = t[q].query /\ t[r].operationName = t[q].operationName
      /\ t[r].user = t[q].user /\ t[r].variables = t[q].variables
  BY DEF Identity
<1> QED BY <1>1, UsersLines DEF LooksAlike, Sprint

\* A time to live, if there is one, is at most the configured maximum, and is
\* that maximum where it is not a number of seconds (gql_parser.go:45).
LEMMA TTLBounds ==
    ASSUME NEW t \in Traffic, NEW r \in Requests, NEW max \in Int,
           IsCachedQueryGraphQLRequest(t[r].doc, max) # 0
    PROVE  /\ IsCachedQueryGraphQLRequest(t[r].doc, max) \in Int
           /\ IsCachedQueryGraphQLRequest(t[r].doc, max) <= max
           /\ \/ IsCachedQueryGraphQLRequest(t[r].doc, max) > 0
              \/ IsCachedQueryGraphQLRequest(t[r].doc, max) = max
<1>1. t[r].doc.value \in Nat \union {TrueParam}
  BY TrafficAssumption
<1> QED BY <1>1 DEF IsCachedQueryGraphQLRequest

-----------------------------------------------------------------------------
(* The inductive invariant *)

\* How far a request has come, and what is decided by then: its server and its
\* key are decided once, and startup is over before the request is looked up
\* or routed (fiber_graphql_handler.go).
StageOK(r) ==
    /\ pc[r] = "idle" => upstream[r] = "none"
    /\ pc[r] \in {"idle", "probe"} => key[r] = None
    /\ pc[r] # "done" => status[r] = "none"
    /\ pc[r] \in {"lookup", "route"} => startup # "open"

\* A key is that of the request, for some walk of its headers, and only a
\* request that may be cached has one.
KeyOK(r) ==
    key[r] # None =>
        /\ config.redis /\ TTL(r) # 0
        /\ \E walk \in WalkOrders(KeyLines(traffic[r])) :
                key[r] = CalculateCacheKey(traffic[r], walk)

\* A request is answered with nothing, a failure, or the response to some
\* request; to one that looks alike if it has a key.
BodyOK(r) ==
    /\ body[r] \in {None, Failed} \/ \E q \in Requests : body[r] = Identity(traffic[q])
    /\ key[r] # None /\ status[r] = "ok" =>
        \/ body[r] = Failed
        \/ \E q \in Requests :
            LooksAlike(traffic[r], traffic[q]) /\ body[r] = Identity(traffic[q])

\* It was sent to a server nobody saw healthy only when the wait for that
\* server was given up.
ServerOK(r) ==
    /\ upstream[r] \in {"scripting", "primary"} \ seen => startup = "over"
    /\ upstream[r] \in {"replica"} \ seen => startup # "open" /\ readonly = "over"

RequestOK(r) == StageOK(r) /\ KeyOK(r) /\ BodyOK(r) /\ ServerOK(r)

\* An entry was stored by a request that had its key.
StoredBy(q, e) ==
    /\ key[q] # None /\ e.key = key[q] /\ e.ttl = TTL(q) /\ ~ (TTL(q) < -1)
    /\ e.body \in {Identity(traffic[q]), Failed}

CacheInv == \A e \in cache : \E q \in Requests : StoredBy(q, e)

\* A context that ended as ready ended because its servers were healthy, and
\* startupReadonlyCtx is given up after startupCtx.
ReadyInv ==
    /\ startup = "ready" => {"scripting", "primary"} \subseteq seen
    /\ readonly = "ready" => "replica" \in seen
    /\ readonly = "over" => startup # "open"

IInv ==
    /\ TypeOK /\ DOMAIN key = Requests /\ DOMAIN body = Requests
    /\ \A r \in Requests : RequestOK(r)
    /\ CacheInv /\ ReadyInv

\* Nothing is asked and nothing is healthy.
LEMMA InitIInv == Init => IInv
<1> SUFFICES ASSUME Init PROVE IInv
  OBVIOUS
<1>1. TypeOK
  BY DEF Init, TypeOK, Engines!Init, Engines!Ctx, Engines!Servers
<1>2. \A r \in Requests : RequestOK(r)
  BY DEF Init, RequestOK, StageOK, KeyOK, BodyOK, ServerOK
<1>3. CacheInv /\ ReadyInv
  BY DEF Init, CacheInv, ReadyInv, Engines!Init
<1> QED BY <1>1, <1>2, <1>3 DEF IInv, Init

-----------------------------------------------------------------------------
(* A handler's step concerns its own request *)

\* What a step of r's handler leaves alone.
OnlyConcerns(r) ==
    /\ UNCHANGED <<config, traffic, died, ctxVars>>
    /\ DOMAIN key' = Requests /\ DOMAIN body' = Requests
    /\ pc' \in [Requests -> {"idle", "probe", "lookup", "route", "sent", "done"}]
    /\ ask' \in [Requests -> SUBSET {"primary", "replica"}]
    /\ upstream' \in [Requests -> {"none"} \union Engines!Servers]
    /\ status' \in [Requests -> {"none", "ok", "unavailable", "error", "failed", "refused"}]
    /\ key[r] # None => key'[r] = key[r]
    /\ \A q \in Requests \ {r} :
        /\ pc'[q] = pc[q] /\ key'[q] = key[q] /\ upstream'[q] = upstream[q]
        /\ status'[q] = status[q] /\ body'[q] = body[q]

\* The other requests keep what they have, and so does what the cache holds,
\* because a key is never changed.
LEMMA OthersKeep ==
    ASSUME IInv, NEW r \in Requests, OnlyConcerns(r), RequestOK(r)',
           \A e \in cache' : e \in cache \/ StoredBy(r, e)'
    PROVE  IInv'
<1>1. /\ config' = config /\ traffic' = traffic /\ startup' = startup /\ readonly' = readonly
      /\ healthy' = healthy /\ seen' = seen
  BY DEF OnlyConcerns, ctxVars
<1>2. \A q \in Requests : TTL(q)' = TTL(q)
  BY <1>1 DEF TTL
<1>3. ASSUME NEW q \in Requests \ {r} PROVE RequestOK(q)'
  <2>1. /\ pc'[q] = pc[q] /\ key'[q] = key[q] /\ upstream'[q] = upstream[q]
        /\ status'[q] = status[q] /\ body'[q] = body[q]
    BY DEF OnlyConcerns
  <2>2. RequestOK(q)
    BY DEF IInv
  <2>3. StageOK(q)'
    BY <1>1, <2>1, <2>2 DEF RequestOK, StageOK
  <2>4. KeyOK(q)'
    BY <1>1, <1>2, <2>1, <2>2 DEF RequestOK, KeyOK
  <2>5. BodyOK(q)'
    BY <1>1, <2>1, <2>2 DEF RequestOK, BodyOK
  <2>6. ServerOK(q)'
    BY <1>1, <2>1, <2>2 DEF RequestOK, ServerOK
  <2> QED BY <2>3, <2>4, <2>5, <2>6 DEF RequestOK
<1>4. \A q \in Requests : RequestOK(q)'
  BY <1>3
<1>5. TypeOK'
  <2>1. \A q \in Requests : KeyOK(q)' /\ BodyOK(q)'
    BY <1>4 DEF RequestOK
  <2> QED BY <1>1, <2>1 DEF IInv, TypeOK, OnlyConcerns, KeyOK, BodyOK
<1>6. CacheInv'
  <2> SUFFICES ASSUME NEW e \in cache, NEW q \in Requests, StoredBy(q, e) PROVE StoredBy(q, e)'
    BY DEF IInv, CacheInv
  <2>1. key'[q] = key[q]
    BY DEF OnlyConcerns, StoredBy
  <2> QED BY <1>1, <1>2, <2>1 DEF StoredBy
<1>7. ReadyInv'
  BY <1>1 DEF IInv, ReadyInv
<1> QED BY <1>4, <1>5, <1>6, <1>7 DEF IInv, OnlyConcerns

\* The handlers that answer by themselves (main.go's health endpoints and the
\* refusals) have looked nothing up.
LEMMA AnswerNothingKeeps ==
    ASSUME IInv, UNCHANGED <<config, traffic, died, ctxVars>>, NEW r \in Requests,
           NEW s \in {"ok", "unavailable", "failed", "refused"},
           pc[r] \in {"idle", "probe"}, Answer(r, s, None), UNCHANGED <<ask, key, upstream, cache>>
    PROVE  IInv'
<1>1. RequestOK(r) /\ key[r] = None
  BY DEF IInv, RequestOK, StageOK
<1>2. pc'[r] = "done" /\ body'[r] = None /\ key'[r] = None /\ upstream'[r] = upstream[r]
  BY <1>1 DEF IInv, TypeOK, Answer, Goto
<1>3. OnlyConcerns(r)
  BY DEF IInv, TypeOK, OnlyConcerns, Answer, Goto
<1>4. ServerOK(r)'
  BY <1>1, <1>2 DEF RequestOK, ServerOK, ctxVars
<1>5. RequestOK(r)'
  BY <1>2, <1>4 DEF RequestOK, StageOK, KeyOK, BodyOK
<1> QED BY <1>3, <1>5, OthersKeep

\* The deep health check has decided whom to ask and is on its way.
LEMMA HealthKeeps ==
    ASSUME IInv, UNCHANGED <<config, traffic, died, ctxVars>>, NEW r \in Requests, Health(r)
    PROVE  IInv'
<1>1. RequestOK(r) /\ key[r] = None /\ upstream[r] = "none" /\ status[r] = "none"
  BY DEF IInv, RequestOK, StageOK, Health
<1>2. pc'[r] = "probe" /\ UNCHANGED <<key, upstream, status, body, cache>>
  BY DEF IInv, TypeOK, Health, Goto
<1>3. ask' \in [Requests -> SUBSET {"primary", "replica"}]
  BY DEF IInv, TypeOK, Health
<1>4. OnlyConcerns(r)
  BY <1>2, <1>3 DEF IInv, TypeOK, OnlyConcerns, Health, Goto
<1>5. RequestOK(r)'
  BY <1>1, <1>2 DEF RequestOK, StageOK, KeyOK, BodyOK, ServerOK
<1> QED BY <1>2, <1>4, <1>5, OthersKeep

\* A request that is sent on keeps the invariant if it is sent where it may.
LEMMA SendKeeps ==
    ASSUME IInv, UNCHANGED <<config, traffic, died, ctxVars>>, NEW r \in Requests,
           NEW server \in Engines!Servers,
           pc[r] \in {"idle", "route"}, Send(r, server), UNCHANGED <<ask, key, cache>>,
           ServerOK(r)'
    PROVE  IInv'
<1>1. RequestOK(r) /\ status[r] = "none"
  BY DEF IInv, RequestOK, StageOK
<1>2. pc'[r] = "sent" /\ upstream'[r] = server /\ UNCHANGED <<key, status, body, cache>>
  BY DEF IInv, TypeOK, Send, Goto
<1>3. OnlyConcerns(r)
  BY <1>2 DEF IInv, TypeOK, OnlyConcerns, Send, Goto
<1>4. TTL(r)' = TTL(r)
  BY DEF TTL
<1>5. KeyOK(r)' /\ BodyOK(r)' /\ StageOK(r)'
  BY <1>1, <1>2, <1>4 DEF RequestOK, StageOK, KeyOK, BodyOK
<1>6. RequestOK(r)'
  BY <1>5 DEF RequestOK
<1> QED BY <1>2, <1>3, <1>6, OthersKeep

\* When startup is over as ready, the scripting server and the primary engine
\* were seen healthy.
LEMMA StartedServersSeen ==
    ASSUME IInv, startup # "open", NEW server \in {"scripting", "primary"}
    PROVE  server \in seen \/ startup = "over"
  BY DEF IInv, TypeOK, ReadyInv, Engines!Ctx

\* The metadata and scripting proxies wait for startup (main.go:43).
LEMMA ProxyKeeps ==
    ASSUME IInv, UNCHANGED <<config, traffic, died, ctxVars>>, NEW r \in Requests, Proxy(r)
    PROVE  IInv'
<1>1. PICK server \in {"scripting", "primary"} : Send(r, server)
  BY DEF Proxy
<1>2. server \in Engines!Servers /\ upstream'[r] = server
  BY <1>1 DEF Send, IInv, TypeOK, Engines!Servers
<1>3. server \in seen \/ startup = "over"
  BY StartedServersSeen DEF Proxy, StartupOver
<1>4. ServerOK(r)'
  BY <1>1, <1>2, <1>3 DEF ServerOK, Proxy, ctxVars
<1> QED BY <1>1, <1>2, <1>4, SendKeeps DEF Proxy

\* A recognised mutation goes to the primary (fiber_graphql_handler.go).
LEMMA MutationKeeps ==
    ASSUME IInv, UNCHANGED <<config, traffic, died, ctxVars>>, NEW r \in Requests, Mutation(r)
    PROVE  IInv'
<1>1. "primary" \in Engines!Servers /\ upstream'[r] = "primary"
  BY DEF Mutation, Send, IInv, TypeOK, Engines!Servers
<1>2. "primary" \in seen \/ startup = "over"
  BY StartedServersSeen DEF Mutation, Graphql, StartupOver
<1>3. ServerOK(r)'
  BY <1>1, <1>2 DEF ServerOK, ctxVars
<1> QED BY <1>1, <1>3, SendKeeps DEF Mutation, Graphql

\* What is taken for a query may be sent to the replica, once the replica's
\* context has ended.
LEMMA RouteKeeps ==
    ASSUME IInv, UNCHANGED <<config, traffic, died, ctxVars>>, NEW r \in Requests,
           RoutePrimary(r) \/ RouteReplica(r)
    PROVE  IInv'
<1>1. startup # "open" /\ pc[r] = "route"
  BY DEF RoutePrimary, RouteReplica, IInv, RequestOK, StageOK
<1>2. CASE RoutePrimary(r)
  <2>1. "primary" \in Engines!Servers /\ upstream'[r] = "primary"
    BY <1>2 DEF RoutePrimary, Send, IInv, TypeOK, Engines!Servers
  <2>2. "primary" \in seen \/ startup = "over"
    BY <1>1, StartedServersSeen
  <2>3. ServerOK(r)'
    BY <1>1, <2>1, <2>2 DEF ServerOK, ctxVars
  <2> QED BY <1>1, <1>2, <2>1, <2>3, SendKeeps DEF RoutePrimary
<1>3. CASE RouteReplica(r)
  <2>1. "replica" \in Engines!Servers /\ upstream'[r] = "replica"
    BY <1>3 DEF RouteReplica, Send, IInv, TypeOK, Engines!Servers
  <2>2. "replica" \in seen \/ readonly = "over"
    BY <1>3 DEF RouteReplica, ToReplica, IInv, TypeOK, ReadyInv, Engines!Ctx
  <2>3. ServerOK(r)'
    BY <1>1, <2>1, <2>2 DEF ServerOK, ctxVars
  <2> QED BY <1>1, <1>3, <2>1, <2>3, SendKeeps DEF RouteReplica
<1> QED BY <1>2, <1>3

\* A query that is not cached, or not in the cache, is to be routed.
LEMMA ToRouteKeeps ==
    ASSUME IInv, UNCHANGED <<config, traffic, died, ctxVars>>, NEW r \in Requests,
           QueryUncached(r) \/ CacheMiss(r)
    PROVE  IInv'
<1>1. RequestOK(r) /\ status[r] = "none" /\ startup # "open"
  BY DEF IInv, RequestOK, StageOK, QueryUncached, CacheMiss, Query, Graphql, StartupOver
<1>2. pc'[r] = "route" /\ UNCHANGED <<ask, key, upstream, status, body, cache>>
  BY DEF IInv, TypeOK, QueryUncached, CacheMiss, Goto
<1>3. OnlyConcerns(r)
  BY <1>2 DEF IInv, TypeOK, OnlyConcerns, QueryUncached, CacheMiss, Goto
<1>4. TTL(r)' = TTL(r)
  BY DEF TTL
<1>5. StageOK(r)' /\ KeyOK(r)' /\ BodyOK(r)' /\ ServerOK(r)'
  BY <1>1, <1>2, <1>4 DEF RequestOK, StageOK, KeyOK, BodyOK, ServerOK, ctxVars
<1>6. RequestOK(r)'
  BY <1>5 DEF RequestOK
<1> QED BY <1>2, <1>3, <1>6, OthersKeep

\* A cached query is given its key, once.
LEMMA QueryCachedKeeps ==
    ASSUME IInv, UNCHANGED <<config, traffic, died, ctxVars>>, NEW r \in Requests, QueryCached(r)
    PROVE  IInv'
<1>1. /\ RequestOK(r) /\ key[r] = None /\ status[r] = "none" /\ upstream[r] = "none"
      /\ startup # "open"
  BY DEF IInv, RequestOK, StageOK, QueryCached, Query, Graphql, StartupOver
<1>2. PICK walk \in WalkOrders(KeyLines(traffic[r])) :
        key' = [key EXCEPT ![r] = CalculateCacheKey(traffic[r], walk)]
  BY DEF QueryCached
<1>3. key'[r] = CalculateCacheKey(traffic[r], walk) /\ DOMAIN key' = Requests
      /\ \A q \in Requests \ {r} : key'[q] = key[q]
  BY <1>2 DEF IInv
<1>4. pc'[r] = "lookup" /\ UNCHANGED <<ask, upstream, status, body, cache>>
  BY DEF IInv, TypeOK, QueryCached, Goto
<1>5. OnlyConcerns(r)
  BY <1>1, <1>3, <1>4 DEF IInv, TypeOK, OnlyConcerns, QueryCached, Goto
<1>6. TTL(r)' = TTL(r) /\ TTL(r) # 0 /\ config.redis
  BY DEF TTL, QueryCached
<1>7. StageOK(r)' /\ ServerOK(r)' /\ BodyOK(r)'
  BY <1>1, <1>4 DEF RequestOK, StageOK, ServerOK, BodyOK, ctxVars
<1>8. KeyOK(r)'
  BY <1>3, <1>6 DEF KeyOK
<1>9. RequestOK(r)'
  BY <1>7, <1>8 DEF RequestOK
<1> QED BY <1>4, <1>5, <1>9, OthersKeep

\* A request that cannot be given a key ends the process, and nothing else
\* changes.
LEMMA PanicKeeps ==
    ASSUME IInv, UNCHANGED <<config, traffic, ctxVars>>, NEW r \in Requests, QueryPanics(r)
    PROVE  IInv'
<1>1. UNCHANGED <<pc, ask, key, upstream, status, body, cache>> /\ died' \in BOOLEAN
  BY DEF QueryPanics, gateVars
<1>2. \A q \in Requests : TTL(q)' = TTL(q)
  BY DEF TTL
<1>3. TypeOK' /\ CacheInv' /\ ReadyInv'
  BY <1>1, <1>2 DEF IInv, TypeOK, CacheInv, StoredBy, ReadyInv, ctxVars
<1>4. \A q \in Requests : RequestOK(q)'
  BY <1>1, <1>2 DEF IInv, RequestOK, StageOK, KeyOK, BodyOK, ServerOK, ctxVars
<1> QED BY <1>1, <1>3, <1>4 DEF IInv

\* Whoever stored an entry under the request's key looks like it.
LEMMA SameKeyLooksAlike ==
    ASSUME IInv, NEW r \in Requests, NEW q \in Requests, key[r] # None, key[q] # None
    PROVE  key[r] = key[q] <=> LooksAlike(traffic[r], traffic[q])
<1>1. PICK v \in WalkOrders(KeyLines(traffic[r])) : key[r] = CalculateCacheKey(traffic[r], v)
  BY DEF IInv, RequestOK, KeyOK
<1>2. PICK w \in WalkOrders(KeyLines(traffic[q])) : key[q] = CalculateCacheKey(traffic[q], w)
  BY DEF IInv, RequestOK, KeyOK
<1>3. traffic \in Traffic
  BY DEF IInv, TypeOK
<1> QED BY <1>1, <1>2, <1>3, KeyIsLooks

\* An answer from the cache was stored by a request with the same key, which
\* looks alike.
LEMMA CacheHitKeeps ==
    ASSUME IInv, UNCHANGED <<config, traffic, died, ctxVars>>, NEW r \in Requests, CacheHit(r)
    PROVE  IInv'
<1>1. PICK e \in cache : e.key = key[r] /\ Answer(r, "ok", e.body)
  BY DEF CacheHit
<1>2. PICK q \in Requests : StoredBy(q, e)
  BY DEF IInv, CacheInv
<1>3. key[r] # None => LooksAlike(traffic[r], traffic[q])
  BY <1>1, <1>2, SameKeyLooksAlike DEF StoredBy
<1>4. pc'[r] = "done" /\ body'[r] \in {Identity(traffic[q]), Failed}
      /\ UNCHANGED <<ask, key, upstream, cache>>
  BY <1>1, <1>2, <1>3 DEF CacheHit, Answer, Goto, StoredBy, IInv, TypeOK
<1>5. OnlyConcerns(r)
  BY <1>1, <1>4 DEF IInv, TypeOK, OnlyConcerns, Answer, Goto
<1>6. RequestOK(r) /\ TTL(r)' = TTL(r)
  BY DEF IInv, TTL
<1>7. StageOK(r)' /\ KeyOK(r)' /\ BodyOK(r)' /\ ServerOK(r)'
  BY <1>3, <1>4, <1>6 DEF RequestOK, StageOK, KeyOK, BodyOK, ServerOK, ctxVars
<1>8. RequestOK(r)'
  BY <1>7 DEF RequestOK
<1> QED BY <1>4, <1>5, <1>8, OthersKeep

\* The response, or the failure, answers the request and is stored under its
\* key, unless its status is another than 200 (main.go:88).
LEMMA ReplyKeeps ==
    ASSUME IInv, UNCHANGED <<config, traffic, died, ctxVars>>, NEW r \in Requests, Reply(r)
    PROVE  IInv'
<1>1. PICK b \in {Identity(traffic[r]), Failed, None}, s \in {"ok", "error", "failed"} :
        /\ Answer(r, s, b) /\ (s = "ok" => b = Identity(traffic[r]))
        /\ \/ b \in {Identity(traffic[r]), Failed} /\ Store(r, b)
           \/ UNCHANGED cache
  BY DEF Reply
<1>2. pc'[r] = "done" /\ body'[r] = b /\ UNCHANGED <<ask, key, upstream>>
  BY <1>1 DEF Reply, Answer, Goto, IInv, TypeOK
<1>3. OnlyConcerns(r)
  BY <1>1, <1>2 DEF IInv, TypeOK, OnlyConcerns, Answer, Goto
<1>4. RequestOK(r) /\ TTL(r)' = TTL(r)
  BY DEF IInv, TTL
<1>5. StageOK(r)' /\ KeyOK(r)' /\ ServerOK(r)'
  BY <1>1, <1>2, <1>4 DEF RequestOK, StageOK, KeyOK, ServerOK, ctxVars
<1>8. BodyOK(r)'
  <2>1. LooksAlike(traffic[r], traffic[r])
    BY DEF LooksAlike
  <2>2. status'[r] = s /\ traffic' = traffic
    BY <1>1 DEF Answer, IInv, TypeOK
  <2> QED BY <1>1, <1>2, <2>1, <2>2 DEF BodyOK
<1>6. \A e \in cache' : e \in cache \/ StoredBy(r, e)'
  BY <1>1, <1>2, <1>4 DEF Store, StoredBy
<1>7. RequestOK(r)'
  BY <1>5, <1>8 DEF RequestOK
<1> QED BY <1>3, <1>6, <1>7, OthersKeep

\* The engines' health and the contexts change: what was given up stays so,
\* and a context that ends as ready has seen its servers healthy.
LEMMA EnvironmentKeeps == ASSUME IInv, Environment(Engines!Next) PROVE IInv'
<1>1. /\ config' = config /\ traffic' = traffic /\ died' = died
      /\ UNCHANGED <<pc, ask, key, upstream, status, body, cache>>
  BY DEF Environment, gateVars
<1>2. /\ seen' = seen \union healthy'
      /\ healthy' \subseteq Engines!Servers
      /\ startup # "open" => startup' = startup
      /\ readonly # "open" => readonly' = readonly
      /\ startup' \in Engines!Ctx /\ readonly' \in Engines!Ctx
  BY DEF Environment, IInv, TypeOK, Engines!Next, Engines!ContextEnds, Engines!StartupReady,
         Engines!StartupOver, Engines!ReadonlyReady, Engines!ReadonlyOver, Engines!Cancelled,
         Engines!HealthChange, Engines!Ctx, Engines!Servers
<1>3. ReadyInv'
  BY <1>2 DEF Environment, IInv, TypeOK, ReadyInv, Engines!Next, Engines!ContextEnds,
         Engines!StartupReady, Engines!StartupOver, Engines!ReadonlyReady, Engines!ReadonlyOver,
         Engines!Cancelled, Engines!HealthChange, Engines!Ctx
<1>4. \A q \in Requests : TTL(q)' = TTL(q)
  BY <1>1 DEF TTL
<1>5. ASSUME NEW r \in Requests PROVE RequestOK(r)'
  <2>1. RequestOK(r)
    BY DEF IInv
  <2>2. StageOK(r)' /\ KeyOK(r)' /\ BodyOK(r)'
    BY <1>1, <1>2, <1>4, <2>1 DEF RequestOK, StageOK, KeyOK, BodyOK
  <2>3. ServerOK(r)'
    BY <1>1, <1>2, <2>1 DEF RequestOK, ServerOK
  <2> QED BY <2>2, <2>3 DEF RequestOK
<1>6. TypeOK'
  BY <1>1, <1>2, <1>4 DEF IInv, TypeOK
<1>7. CacheInv'
  BY <1>1, <1>4 DEF IInv, CacheInv, StoredBy
<1> QED BY <1>1, <1>3, <1>5, <1>6, <1>7 DEF IInv

\* Every step of a handler, of the engines and of the contexts keeps it.
LEMMA NextIInv == IInv /\ [Next]_vars => IInv'
<1> SUFFICES ASSUME IInv, [Next]_vars PROVE IInv'
  OBVIOUS
<1>0. ASSUME NEW r \in Requests, QueryPanics(r), UNCHANGED <<config, traffic, ctxVars>> PROVE IInv'
  BY <1>0, PanicKeeps
<1>1. ASSUME NEW r \in Requests, Handler(r), UNCHANGED <<config, traffic, died, ctxVars>> PROVE IInv'
  <2> USE <1>1
  <2>1. CASE Alive(r)
    BY <2>1, AnswerNothingKeeps DEF Alive
  <2>2. CASE HealthTooEarly(r) \/ ScriptingRefused(r) \/ GraphqlReject(r)
    BY <2>2, AnswerNothingKeeps DEF HealthTooEarly, ScriptingRefused, GraphqlReject, Graphql
  <2>3. CASE HealthAnswer(r)
    BY <2>3, AnswerNothingKeeps DEF HealthAnswer
  <2>4. CASE ~ (Alive(r) \/ HealthTooEarly(r) \/ ScriptingRefused(r) \/ GraphqlReject(r) \/ HealthAnswer(r))
    BY <2>4, HealthKeeps, ProxyKeeps, MutationKeeps, ToRouteKeeps, QueryCachedKeeps, CacheHitKeeps,
       RouteKeeps, ReplyKeeps DEF Handler
  <2> QED BY <2>1, <2>2, <2>3, <2>4
<1>2. CASE UNCHANGED vars
  <2>1. \A q \in Requests : TTL(q)' = TTL(q)
    BY <1>2 DEF TTL, vars
  <2>2. TypeOK' /\ CacheInv' /\ ReadyInv'
    BY <1>2, <2>1 DEF IInv, TypeOK, CacheInv, StoredBy, ReadyInv, vars, gateVars, ctxVars
  <2>3. \A r \in Requests : RequestOK(r)'
    BY <1>2, <2>1 DEF IInv, RequestOK, StageOK, KeyOK, BodyOK, ServerOK, vars, gateVars, ctxVars
  <2> QED BY <1>2, <2>2, <2>3 DEF IInv, vars, gateVars
<1>3. ASSUME NEW r \in Requests, Step(r) PROVE IInv'
  BY <1>0, <1>1, <1>3 DEF Step
<1> QED BY <1>2, <1>3, EnvironmentKeeps DEF Next

\* The invariant holds throughout, whatever is asked and however engines fail.
LEMMA Invariance == Spec => []IInv
  BY InitIInv, NextIInv, PTL DEF Spec

-----------------------------------------------------------------------------
(* The theorems *)

\* Type correctness, and that only requests for the query cache have a key.
THEOREM TypeCorrectness == Spec => []TypeOK
<1>1. IInv => TypeOK
  BY DEF IInv
<1> QED BY <1>1, Invariance, PTL

\* A server that was never healthy is sent something only after the wait for
\* it was given up (main.go:43, fiber_graphql_handler.go:69).
THEOREM OnlySeenServersAsked == Spec => []UnseenServersSpared
<1>1. IInv => UnseenServersSpared
  BY DEF IInv, RequestOK, ServerOK, UnseenServersSpared
<1> QED BY <1>1, Invariance, PTL

\* An answer from the cache is the response to a request that looks alike, or
\* the failure of one: sorting keeps apart what prints apart, and the rest of
\* the key is the query, the operation and the printed variables.
THEOREM CacheAnswersAlike == Spec => []CachedAnswerLooksAlike
<1>1. IInv => CachedAnswerLooksAlike
  BY DEF IInv, RequestOK, BodyOK, CachedAnswerLooksAlike
<1> QED BY <1>1, Invariance, PTL

\* Requests of the same identity share their key, in whichever order their
\* headers and claims are walked, and whoever renews a token keeps it.
THEOREM IdentitySharesKey == Spec => []SameIdentitySameKey
<1>1. ASSUME IInv, NEW r \in Requests, NEW q \in Requests, key[r] # None, key[q] # None,
             Identity(traffic[r]) = Identity(traffic[q])
      PROVE  key[r] = key[q]
  <2>1. traffic \in Traffic
    BY <1>1 DEF IInv, TypeOK
  <2> QED BY <1>1, <2>1, IdentityLooks, SameKeyLooksAlike
<1>2. IInv => SameIdentitySameKey
  BY <1>1 DEF SameIdentitySameKey
<1> QED BY <1>2, Invariance, PTL

\* No response is stored with a time to live above the configured maximum,
\* nor without one unless the maximum is -1, nor at all when that is 0,
\* whatever ttl the documents ask for.
THEOREM MaximumBoundsTTL == Spec => []StoredWithinMaximum
<1>1. ASSUME IInv, NEW e \in cache
      PROVE  e.ttl <= config.maxTTL /\ (e.ttl > 0 \/ (e.ttl = -1 /\ config.maxTTL = -1))
  <2>1. PICK q \in Requests : StoredBy(q, e)
    BY <1>1 DEF IInv, CacheInv
  <2>2. e.ttl = TTL(q) /\ TTL(q) # 0 /\ ~ (TTL(q) < -1)
    BY <1>1, <2>1 DEF StoredBy, IInv, RequestOK, KeyOK
  <2>3. traffic \in Traffic /\ config.maxTTL \in Int
    BY <1>1, ConfigsAssumption DEF IInv, TypeOK
  <2>4. TTL(q) \in Int /\ TTL(q) <= config.maxTTL /\ (TTL(q) > 0 \/ TTL(q) = config.maxTTL)
    BY <2>2, <2>3, TTLBounds DEF TTL
  <2> QED BY <2>2, <2>3, <2>4
<1>2. IInv => StoredWithinMaximum
  BY <1>1 DEF StoredWithinMaximum
<1> QED BY <1>2, Invariance, PTL
=============================================================================
