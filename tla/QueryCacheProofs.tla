-------------------------- MODULE QueryCacheProofs --------------------------
(***************************************************************************)
(* Proofs about QueryCache, for any number of nodes and requests, any ttl, *)
(* any wait and with or without faults.                                    *)
(***************************************************************************)
EXTENDS QueryCache, TLAPS

ReplyRange == Gone .. (IF TTL > 0 THEN TTL ELSE 0)

-----------------------------------------------------------------------------
(* Lemmas about deadlines *)

\* The deadline a body is written with is a deadline, and not "gone".
LEMMA FullLifeType ==
    /\ FullLife \in Deadline \ {Gone}
    /\ TTL > 0 => FullLife = 2 * TTL - 1
BY TTLAssumption DEF FullLife, Deadline, Gone, Never

\* A TTL reply is at most the query's ttl, whatever Redis holds.
LEMMA TTLReplyType ==
    ASSUME NEW left \in Deadline
    PROVE  TTLReply(left) \in ReplyRange
BY TTLAssumption DEF TTLReply, Deadline, ReplyRange, Gone, Never

\* GetterFunc's expire is a deadline, "never" unless the reply is positive,
\* and no longer than the ttl.
LEMMA CopyLeftType ==
    ASSUME NEW ttl \in ReplyRange
    PROVE  /\ CopyLeft(ttl) \in Deadline \ {Gone}
           /\ TTL > 0 => CopyLeft(ttl) <= FullLife
BY TTLAssumption DEF CopyLeft, ReplyRange, FullLife, Deadline, Gone, Never

\* A tick keeps deadlines deadlines, and what exists existing.
LEMMA CountdownType ==
    ASSUME NEW left \in Deadline
    PROVE  /\ Countdown(left) \in Deadline
           /\ Countdown(left) = Gone <=> left = Gone
           /\ Countdown(left) = Never <=> left = Never
           /\ left > 0 => Countdown(left) = left - 1
BY TTLAssumption DEF Countdown, Deadline, Gone, Never

-----------------------------------------------------------------------------
(* The invariant holds initially and every action preserves it *)

\* Empty caches and idle requests satisfy the invariant.
LEMMA InitInvariant == Init => IInv
<1> SUFFICES ASSUME Init PROVE IInv OBVIOUS
<1> USE TTLAssumption, WaitETAAssumption, NoneAssumption
<1>1. TypeOK
  BY DEF Init, TypeOK, NoEntry, Entry, Deadline, Gone, Never, Stages, Active, AgeCap
<1>2. RedisInv /\ GroupInv
  BY DEF Init, RedisInv, GroupInv, NoEntry, Gone, Never
<1>3. FlightInv /\ RequestInv
  BY DEF Init, FlightInv, RequestInv, Active
<1>4. ClockInv
  BY DEF Init, ClockInv, BoundedStaleness, NoEntry, Gone
<1> QED BY <1>1, <1>2, <1>3, <1>4 DEF IInv

\* A hit in groupcache (Get) answers with a body that was stored.
LEMMA GetHitInvariant ==
    ASSUME IInv, NEW r \in Requests, GetHit(r)
    PROVE  IInv'
<1> USE NodeOfAssumption, NoneAssumption DEF IInv, GetHit, redisVars, flightVars, historyVars
<1>1. TypeOK'
  BY DEF TypeOK, Entry, Active, GroupInv
<1>2. RedisInv' /\ GroupInv' /\ FlightInv'
  BY DEF RedisInv, GroupInv, FlightInv
<1>3. RequestInv'
  <2>1. group[NodeOf[r]].val \in stored
    BY DEF GroupInv
  <2>2. \A q \in Requests : q # r => pc'[q] = pc[q] /\ answer'[q] = answer[q]
    BY DEF TypeOK
  <2>3. pc'[r] = "done" /\ answer'[r] \in stored
    BY <2>1 DEF TypeOK
  <2> QED BY <2>2, <2>3 DEF RequestInv, Active
<1>4. ClockInv'
  BY DEF ClockInv, BoundedStaleness, TypeOK
<1> QED BY <1>1, <1>2, <1>3, <1>4

\* A miss opens a flight or joins the one under way; what that holds is kept.
LEMMA GetMissInvariant ==
    ASSUME IInv, NEW r \in Requests, GetMiss(r)
    PROVE  IInv'
<1> USE NodeOfAssumption, NoneAssumption DEF IInv, GetMiss, redisVars, historyVars
<1>1. TypeOK'
  BY DEF TypeOK, Active, Stages
<1>2. RedisInv' /\ GroupInv'
  BY DEF RedisInv, GroupInv
<1>3. FlightInv'
  BY DEF FlightInv, TypeOK
<1>4. RequestInv'
  <2>1. \A q \in Requests : q # r => pc'[q] = pc[q]
    BY DEF TypeOK
  <2>2. pc'[r] = "flight" /\ pc[r] = "idle"
    BY DEF TypeOK
  <2> QED BY <2>1, <2>2 DEF RequestInv, Active
<1>5. ClockInv'
  BY DEF ClockInv, BoundedStaleness, TypeOK
<1> QED BY <1>1, <1>2, <1>3, <1>4, <1>5

\* A body that is still in Redis is at most its ttl old.
LEMMA RedisBodyAge ==
    ASSUME IInv, TTL > 0, redis.left # Gone
    PROVE  redis.val \in Requests /\ age[redis.val] <= FullLife
<1>1. redis.val \in Requests /\ redis.val \in stored
  BY DEF IInv, RedisInv, TypeOK
<1>2. redis.left \in Int /\ redis.left >= 0
  <2>1. redis.left \in Deadline
    BY DEF IInv, TypeOK, Entry
  <2>2. redis.left # Never
    BY DEF IInv, RedisInv
  <2> QED BY <2>1, <2>2, TTLAssumption DEF Deadline, Gone, Never
<1>3. age[redis.val] \in Int /\ FullLife \in Int
  BY <1>1, TTLAssumption DEF IInv, TypeOK, AgeCap, FullLife, Never
<1>4. age[redis.val] + redis.left = FullLife
  BY DEF IInv, ClockInv
<1> QED BY <1>1, <1>2, <1>3, <1>4

\* Reading the key keeps the invariant: what was read is a stored body of the
\* age Redis accounts for.
LEMMA GetterGetInvariant ==
    ASSUME IInv, NEW n \in Nodes, GetterGet(n)
    PROVE  IInv'
<1> USE NoneAssumption DEF IInv, GetterGet, redisVars, requestVars, historyVars
<1>1. TypeOK'
  BY DEF TypeOK, Entry, Stages
<1>2. RedisInv' /\ GroupInv' /\ RequestInv'
  BY DEF RedisInv, GroupInv, RequestInv
<1>3. got'[n] \in Requests => got'[n] = redis.val /\ redis.left # Gone
  BY DEF TypeOK, RedisInv
<1>4. FlightInv'
  BY <1>3 DEF FlightInv, RedisInv, TypeOK
<1>5. ClockInv'
  <2> SUFFICES ASSUME TTL > 0 PROVE ClockInv' BY DEF ClockInv
  <2>1. redis.left # Gone => age[redis.val] <= FullLife
    BY RedisBodyAge
  <2> QED BY <1>3, <2>1 DEF ClockInv, BoundedStaleness, TypeOK
<1> QED BY <1>1, <1>2, <1>4, <1>5

\* The pipeline's TTL command leaves what its GET found in place, and its
\* reply is at most the ttl.
LEMMA GetterTTLInvariant ==
    ASSUME IInv, NEW n \in Nodes, GetterTTL(n)
    PROVE  IInv'
<1> USE NoneAssumption DEF IInv, GetterTTL, redisVars, requestVars, historyVars
<1>1. TTLReply(redis.left) \in ReplyRange /\ 0 \in ReplyRange
  BY TTLReplyType, TTLAssumption DEF TypeOK, Entry, ReplyRange, Gone
<1>2. TypeOK'
  BY <1>1 DEF TypeOK, Stages, ReplyRange
<1>3. RedisInv' /\ GroupInv' /\ RequestInv'
  BY DEF RedisInv, GroupInv, RequestInv
<1>4. FlightInv'
  BY DEF FlightInv, TypeOK
<1>5. ClockInv'
  BY DEF ClockInv, BoundedStaleness
<1> QED BY <1>2, <1>3, <1>4, <1>5

\* After SETNX the lock has a deadline within the wait, or there is none.
LEMMA SetNXType ==
    ASSUME IInv, NEW acquired \in BOOLEAN, SetNX(acquired)
    PROVE  lock' \in {Gone} \union 0 .. WaitETA - 1
BY WaitETAAssumption DEF IInv, TypeOK, SetNX, Gone

\* A flight that ends with a stored body keeps the invariant, provided the
\* copy's deadline and the body's age are each within the ttl.
LEMMA DeliverInvariant ==
    ASSUME IInv, NEW n \in Nodes, NEW v \in stored, NEW left \in Deadline \ {Gone},
           TTL > 0 => left <= FullLife /\ age[v] <= FullLife,
           Deliver(n, v, left),
           lock' \in {Gone} \union 0 .. WaitETA - 1,
           UNCHANGED <<redis, outcome, historyVars>>
    PROVE  IInv'
<1> USE NoneAssumption DEF IInv, Deliver, EndFlight, historyVars
<1>1. v \in Requests
  BY DEF TypeOK
<1>2. TypeOK'
  BY <1>1, TTLAssumption, WaitETAAssumption DEF TypeOK, Entry, Stages, Members, Gone
<1>3. RedisInv' /\ GroupInv'
  BY <1>1 DEF RedisInv, GroupInv, TypeOK
<1>4. FlightInv'
  BY DEF FlightInv, TypeOK
<1>5. RequestInv'
  <2> SUFFICES ASSUME NEW q \in Requests
               PROVE  /\ q \in Members(n) => pc'[q] = "done" /\ answer'[q] = v /\ pc[q] = "flight"
                      /\ q \notin Members(n) => pc'[q] = pc[q] /\ answer'[q] = answer[q]
    BY DEF RequestInv, Active
  <2> QED BY DEF Members
<1>6. ClockInv'
  <2> SUFFICES ASSUME TTL > 0 PROVE ClockInv' BY DEF ClockInv
  <2>1. \A q \in Requests : pc'[q] = "gcset" => pc[q] = "gcset"
    OBVIOUS
  <2>2. BoundedStaleness'
    <3> SUFFICES ASSUME NEW m \in Nodes, group'[m].left >= 0
                 PROVE  age[group'[m].val] + group'[m].left <= 2 * FullLife
      BY DEF BoundedStaleness
    <3>1. CASE m = n
      BY <1>1, <3>1, FullLifeType, TTLAssumption DEF TypeOK, Deadline, Gone, AgeCap
    <3>2. CASE m # n
      BY <3>2 DEF TypeOK, ClockInv, BoundedStaleness
    <3> QED BY <3>1, <3>2
  <2>3. \A m \in Nodes : got'[m] \in Requests => got'[m] = got[m]
    BY DEF TypeOK
  <2> QED BY <2>1, <2>2, <2>3 DEF ClockInv
<1> QED BY <1>2, <1>3, <1>4, <1>5, <1>6

\* A flight that ends without a body sends its members upstream.
LEMMA NotFoundInvariant ==
    ASSUME IInv, NEW n \in Nodes, NotFound(n),
           lock' \in {Gone} \union 0 .. WaitETA - 1,
           UNCHANGED <<redis, outcome, historyVars>>
    PROVE  IInv'
<1> USE NoneAssumption DEF IInv, NotFound, EndFlight, historyVars
<1>1. TypeOK'
  BY TTLAssumption, WaitETAAssumption DEF TypeOK, Stages, Members, Active, Gone
<1>2. RedisInv' /\ GroupInv'
  BY DEF RedisInv, GroupInv
<1>3. FlightInv'
  BY DEF FlightInv, TypeOK
<1>4. RequestInv'
  <2>1. \A q \in Requests : \/ pc'[q] = pc[q]
                            \/ pc[q] = "flight" /\ pc'[q] = "upstream"
    BY DEF Members
  <2> QED BY <2>1 DEF RequestInv, Active
<1>5. ClockInv'
  <2>1. \A q \in Requests : pc'[q] = "gcset" => pc[q] = "gcset"
    OBVIOUS
  <2>2. \A m \in Nodes : got'[m] \in Requests => got'[m] = got[m]
    BY DEF TypeOK
  <2> QED BY <2>1, <2>2 DEF ClockInv, BoundedStaleness
<1> QED BY <1>1, <1>2, <1>3, <1>4, <1>5

\* GetterFunc returns a body from Redis, which groupcache may keep for at most
\* a ttl, or a miss, after which nothing is held.
LEMMA GetterReturnInvariant ==
    ASSUME IInv, NEW n \in Nodes, GetterHit(n) \/ GetterMiss(n)
    PROVE  IInv'
<1>1. CASE GetterHit(n)
  <2>1. got[n] \in stored /\ (TTL > 0 => age[got[n]] <= FullLife)
    BY <1>1 DEF GetterHit, IInv, FlightInv, ClockInv
  <2>2. reply[n] \in ReplyRange
    BY DEF IInv, TypeOK, ReplyRange
  <2>3. lock' \in {Gone} \union 0 .. WaitETA - 1
    BY <1>1, SetNXType DEF GetterHit
  <2> QED BY <1>1, <2>1, <2>2, <2>3, CopyLeftType, DeliverInvariant DEF GetterHit
<1>2. CASE GetterMiss(n)
  <2>1. lock' \in {Gone} \union 0 .. WaitETA - 1
    BY <1>2, SetNXType DEF GetterMiss
  <2> QED BY <1>2, <2>1, NotFoundInvariant DEF GetterMiss
<1> QED BY <1>1, <1>2

\* A flight that did not get the lock holds nothing while it waits.
LEMMA GetterMustWaitInvariant ==
    ASSUME IInv, NEW n \in Nodes, GetterMustWait(n)
    PROVE  IInv'
<1> USE NoneAssumption DEF IInv, GetterMustWait, requestVars, historyVars
<1>1. lock' \in {Gone} \union 0 .. WaitETA - 1 /\ WaitETA > 0
  <2>1. lock' \in {Gone} \union 0 .. WaitETA - 1
    BY SetNXType
  <2>2. WaitETA # 0 \/ WaitETA > 0
    BY Zenon DEF SetNX
  <2> QED BY <2>1, <2>2, WaitETAAssumption
<1>2. TypeOK'
  BY <1>1 DEF TypeOK, Stages
<1>3. RedisInv' /\ GroupInv' /\ RequestInv'
  BY DEF RedisInv, GroupInv, RequestInv
<1>4. FlightInv'
  BY <1>1 DEF FlightInv, TypeOK
<1>5. ClockInv'
  BY DEF ClockInv, BoundedStaleness
<1> QED BY <1>2, <1>3, <1>4, <1>5

\* The wait read from the .ETA entry is a wait.
LEMMA ReadETAInvariant ==
    ASSUME IInv, NEW n \in Nodes, ReadETA(n)
    PROVE  IInv'
<1> USE NoneAssumption DEF IInv, ReadETA, redisVars, requestVars, historyVars
<1>1. WaitETA > 0 /\ got[n] \notin Requests
  BY DEF FlightInv
<1>2. TypeOK'
  BY <1>1, WaitETAAssumption DEF TypeOK, Stages, Gone
<1>3. RedisInv' /\ GroupInv' /\ RequestInv'
  BY DEF RedisInv, GroupInv, RequestInv
<1>4. FlightInv'
  <2>1. waited[n] = 0 /\ eta'[n] \in 0 .. WaitETA - 1
    BY <1>1, WaitETAAssumption DEF FlightInv, TypeOK, Gone
  <2>2. waited'[n] + eta'[n] < WaitETA
    BY <2>1, WaitETAAssumption
  <2> QED BY <1>1, <2>2 DEF FlightInv, TypeOK
<1>5. ClockInv'
  BY DEF ClockInv, BoundedStaleness
<1> QED BY <1>2, <1>3, <1>4, <1>5

\* The wait loop's GET finds a stored body, as fresh as Redis' own.
LEMMA WaitGetInvariant ==
    ASSUME IInv, NEW n \in Nodes, WaitGet(n)
    PROVE  IInv'
<1> USE NoneAssumption DEF IInv, WaitGet, redisVars, requestVars, historyVars
<1>1. redis.val \in stored /\ redis.val \in Requests
  BY DEF RedisInv, TypeOK
<1>2. TypeOK'
  BY <1>1 DEF TypeOK, Stages
<1>3. RedisInv' /\ GroupInv' /\ RequestInv'
  BY DEF RedisInv, GroupInv, RequestInv
<1>4. FlightInv'
  BY <1>1 DEF FlightInv, TypeOK
<1>5. ClockInv'
  <2> SUFFICES ASSUME TTL > 0 PROVE ClockInv' BY DEF ClockInv
  <2>1. age[redis.val] <= FullLife
    BY RedisBodyAge
  <2> QED BY <2>1 DEF ClockInv, BoundedStaleness, TypeOK
<1> QED BY <1>2, <1>3, <1>4, <1>5

\* The wait loop's TTL ends the wait with a copy of a stored body, or goes on
\* waiting when the body has expired.
LEMMA WaitTTLInvariant ==
    ASSUME IInv, NEW n \in Nodes, WaitTTL(n)
    PROVE  IInv'
<1> DEFINE ttl == TTLReply(redis.left)
<1>1. ttl \in ReplyRange
  BY TTLReplyType DEF IInv, TypeOK, Entry
<1>2. CASE Deliver(n, got[n], CopyLeft(ttl))
  <2>1. got[n] \in stored /\ (TTL > 0 => age[got[n]] <= FullLife)
    BY DEF WaitTTL, IInv, FlightInv, ClockInv
  <2>2. lock' \in {Gone} \union 0 .. WaitETA - 1
    BY DEF WaitTTL, redisVars, IInv, TypeOK
  <2>3. UNCHANGED <<redis, outcome, historyVars>>
    BY DEF WaitTTL, redisVars
  <2>4. CopyLeft(ttl) \in Deadline \ {Gone} /\ (TTL > 0 => CopyLeft(ttl) <= FullLife)
    BY <1>1, CopyLeftType
  <2> QED BY <1>2, <2>1, <2>2, <2>3, <2>4, DeliverInvariant
<1>3. CASE ~ Deliver(n, got[n], CopyLeft(ttl))
  <2> USE <1>3, NoneAssumption DEF IInv, WaitTTL, redisVars, historyVars
  <2>1. TypeOK'
    BY DEF TypeOK, Stages
  <2>2. RedisInv' /\ GroupInv' /\ RequestInv'
    BY DEF RedisInv, GroupInv, RequestInv
  <2>3. FlightInv'
    BY DEF FlightInv, TypeOK
  <2>4. ClockInv'
    BY DEF ClockInv, BoundedStaleness, TypeOK
  <2> QED BY <2>1, <2>2, <2>3, <2>4
<1> QED BY <1>2, <1>3

\* Giving up the wait sends the flight's requests upstream and holds nothing.
LEMMA WaitEndInvariant ==
    ASSUME IInv, NEW n \in Nodes, WaitTimeout(n) \/ WaitFail(n)
    PROVE  IInv'
<1>1. lock' \in {Gone} \union 0 .. WaitETA - 1
  BY DEF WaitTimeout, WaitFail, redisVars, IInv, TypeOK
<1> QED BY <1>1, NotFoundInvariant DEF WaitTimeout, WaitFail, redisVars

-----------------------------------------------------------------------------
(* The handler's steps *)

\* The upstream call's outcome: a body that is stored next, or an error that
\* is not.
LEMMA UpstreamInvariant ==
    ASSUME IInv, NEW r \in Requests,
           UpstreamOK(r) \/ UpstreamError(r) \/ UpstreamUnreachable(r)
    PROVE  IInv'
<1> USE NoneAssumption DEF IInv, UpstreamOK, UpstreamError, UpstreamUnreachable,
                           redisVars, flightVars, historyVars
<1>1. TypeOK'
  BY DEF TypeOK, Active
<1>2. RedisInv' /\ GroupInv' /\ FlightInv'
  BY DEF RedisInv, GroupInv, FlightInv
<1>3. RequestInv'
  <2>1. \A q \in Requests : q # r => pc'[q] = pc[q] /\ answer'[q] = answer[q] /\ outcome'[q] = outcome[q]
    BY DEF TypeOK
  <2>2. /\ pc[r] = "upstream"
        /\ \/ pc'[r] = "save" /\ outcome'[r] # "error" /\ answer'[r] = answer[r]
           \/ pc'[r] = "done" /\ answer'[r] = r
    BY DEF TypeOK
  <2>3. r \notin stored /\ answer[r] = None
    BY <2>2 DEF RequestInv, Active
  <2> QED BY <2>1, <2>2, <2>3 DEF RequestInv, Active
<1>4. ClockInv'
  BY DEF ClockInv, BoundedStaleness, TypeOK
<1> QED BY <1>1, <1>2, <1>3, <1>4

\* The body of a request that is about to save reaches Redis, and the request
\* goes on to groupcache or is answered.
LEMMA WriteRedisInvariant ==
    ASSUME IInv, NEW r \in Requests, pc[r] = "save", WriteRedis(r),
           \/ pc' = [pc EXCEPT ![r] = "gcset"] /\ answer' = answer
           \/ pc' = [pc EXCEPT ![r] = "done"] /\ answer' = [answer EXCEPT ![r] = r],
           UNCHANGED <<group, flightVars, outcome>>
    PROVE  IInv'
<1> USE NoneAssumption DEF IInv, WriteRedis, flightVars
<1>0. redis'.val = r /\ redis'.left = FullLife /\ redis' \in Entry
  BY FullLifeType DEF Entry
<1>1. TypeOK'
  BY <1>0 DEF TypeOK, Active
<1>2. RedisInv'
  <2>1. FullLife # Gone
    BY FullLifeType
  <2>2. TTL > 0 => FullLife # Never
    BY TTLAssumption DEF FullLife, Never
  <2> QED BY <1>0, <2>1, <2>2 DEF RedisInv
<1>3. GroupInv' /\ FlightInv'
  BY DEF GroupInv, FlightInv
<1>4. RequestInv'
  <2>1. \A q \in Requests : q # r => pc'[q] = pc[q] /\ answer'[q] = answer[q]
    BY DEF TypeOK
  <2>2. \/ pc'[r] = "gcset" /\ answer'[r] = None
        \/ pc'[r] = "done" /\ answer'[r] = r
    BY DEF TypeOK, RequestInv, Active
  <2>3. outcome[r] # "error"
    BY DEF RequestInv
  <2> QED BY <2>1, <2>2, <2>3 DEF RequestInv, Active
<1>5. ClockInv'
  <2> SUFFICES ASSUME TTL > 0 PROVE ClockInv' BY DEF ClockInv
  <2>1. age[r] = 0
    BY DEF RequestInv, ClockInv
  <2>2. 0 + FullLife = FullLife
    BY FullLifeType, TTLAssumption
  <2> QED BY <2>1, <2>2 DEF ClockInv, BoundedStaleness, TypeOK
<1> QED BY <1>1, <1>2, <1>3, <1>4, <1>5

\* The SET of a body comes before groupcache sees it, and starts a full ttl
\* for a body of age 0.
LEMMA SetRedisInvariant ==
    ASSUME IInv, NEW r \in Requests, SetRedis(r) \/ SetRedisFail(r)
    PROVE  IInv'
<1>1. CASE SetRedis(r)
  BY <1>1, WriteRedisInvariant DEF SetRedis
<1>2. CASE SetRedisFail(r) /\ WriteRedis(r)
  BY <1>2, WriteRedisInvariant DEF SetRedisFail
<1>3. CASE SetRedisFail(r) /\ ~ WriteRedis(r)
  <2> USE <1>3, NoneAssumption DEF IInv, SetRedisFail, redisVars, flightVars, historyVars
  <2>1. TypeOK'
    BY DEF TypeOK, Active
  <2>2. RedisInv' /\ GroupInv' /\ FlightInv'
    BY DEF RedisInv, GroupInv, FlightInv
  <2>3. RequestInv'
    <3>1. \A q \in Requests : q # r => pc'[q] = pc[q] /\ answer'[q] = answer[q]
      BY DEF TypeOK
    <3>2. pc'[r] = "done" /\ answer'[r] = r
      BY DEF TypeOK
    <3> QED BY <3>1, <3>2 DEF RequestInv, Active
  <2>4. ClockInv'
    BY DEF ClockInv, BoundedStaleness, TypeOK
  <2> QED BY <2>1, <2>2, <2>3, <2>4
<1> QED BY <1>1, <1>2, <1>3

\* groupcache's Set comes after Redis', in the same tick, so that its
\* copy is of a stored body of age 0.
LEMMA SetGroupcacheInvariant ==
    ASSUME IInv, NEW r \in Requests, SetGroupcache(r)
    PROVE  IInv'
<1> USE NoneAssumption, NodeOfAssumption
    DEF IInv, SetGroupcache, redisVars, flightVars, historyVars
<1>1. TypeOK'
  BY FullLifeType DEF TypeOK, Entry, Active
<1>2. r \in stored
  BY DEF RequestInv
<1>3. RedisInv' /\ GroupInv' /\ FlightInv'
  BY <1>2 DEF RedisInv, GroupInv, FlightInv, TypeOK
<1>4. RequestInv'
  <2>1. \A q \in Requests : q # r => pc'[q] = pc[q] /\ answer'[q] = answer[q]
    BY DEF TypeOK
  <2>2. pc'[r] = "done" /\ answer'[r] = r
    BY DEF TypeOK
  <2> QED BY <2>1, <2>2 DEF RequestInv, Active
<1>5. ClockInv'
  <2> SUFFICES ASSUME TTL > 0 PROVE ClockInv' BY DEF ClockInv
  <2>1. age[r] = 0
    BY DEF ClockInv
  <2>2. BoundedStaleness'
    <3> SUFFICES ASSUME NEW m \in Nodes, group'[m].left >= 0
                 PROVE  age[group'[m].val] + group'[m].left <= 2 * FullLife
      BY DEF BoundedStaleness
    <3>1. CASE m = NodeOf[r]
      BY <2>1, <3>1, FullLifeType, TTLAssumption DEF TypeOK
    <3>2. CASE m # NodeOf[r]
      BY <3>2 DEF TypeOK, ClockInv, BoundedStaleness
    <3> QED BY <3>1, <3>2
  <2> QED BY <2>2 DEF ClockInv, TypeOK
<1> QED BY <1>1, <1>3, <1>4, <1>5

-----------------------------------------------------------------------------
(* The environment *)

\* A crash empties the node's groupcache and ends its flight and requests.
LEMMA CrashInvariant ==
    ASSUME IInv, NEW n \in Nodes, Crash(n)
    PROVE  IInv'
<1> USE NoneAssumption DEF IInv, Crash, EndFlight, redisVars, historyVars
<1>1. NoEntry \in Entry /\ NoEntry.left = Gone
  BY TTLAssumption DEF NoEntry, Entry, Deadline, Gone, Never
<1>2. TypeOK'
  BY <1>1, TTLAssumption, WaitETAAssumption DEF TypeOK, Stages, Active, Gone
<1>3. RedisInv' /\ GroupInv'
  BY <1>1 DEF RedisInv, GroupInv, TypeOK
<1>4. FlightInv'
  BY DEF FlightInv, TypeOK
<1>5. RequestInv'
  <2>1. \A q \in Requests : pc'[q] = pc[q] \/ pc'[q] = "dead"
    OBVIOUS
  <2> QED BY <2>1 DEF RequestInv, Active
<1>6. ClockInv'
  <2>1. \A q \in Requests : pc'[q] = "gcset" => pc[q] = "gcset"
    OBVIOUS
  <2>2. \A m \in Nodes : got'[m] \in Requests => got'[m] = got[m]
    BY DEF TypeOK
  <2>3. \A m \in Nodes : group'[m].left >= 0 => group'[m] = group[m]
    BY <1>1 DEF TypeOK, Gone
  <2> QED BY <2>1, <2>2, <2>3 DEF ClockInv, BoundedStaleness
<1> QED BY <1>2, <1>3, <1>4, <1>5, <1>6

\* Expiry and eviction only remove entries.
LEMMA ExpireInvariant ==
    ASSUME IInv,
           \/ RedisExpire \/ LockExpire
           \/ \E n \in Nodes : GroupExpire(n) \/ GroupEvict(n)
    PROVE  IInv'
<1> USE NoneAssumption DEF IInv, flightVars, requestVars, historyVars
<1>1. NoEntry \in Entry /\ NoEntry.left = Gone /\ NoEntry.val = None
  BY TTLAssumption DEF NoEntry, Entry, Deadline, Gone, Never
<1>2. CASE RedisExpire
  <2> USE <1>1, <1>2 DEF RedisExpire
  <2>1. TypeOK'
    BY DEF TypeOK
  <2>2. RedisInv'
    BY DEF RedisInv, Gone, Never
  <2>3. GroupInv' /\ FlightInv' /\ RequestInv'
    BY DEF GroupInv, FlightInv, RequestInv
  <2>4. ClockInv'
    BY DEF ClockInv, BoundedStaleness
  <2> QED BY <2>1, <2>2, <2>3, <2>4
<1>3. CASE LockExpire
  <2> USE <1>3 DEF LockExpire
  <2>1. TypeOK'
    BY DEF TypeOK
  <2>2. RedisInv' /\ GroupInv' /\ FlightInv' /\ RequestInv' /\ ClockInv'
    BY DEF RedisInv, GroupInv, FlightInv, RequestInv, ClockInv, BoundedStaleness
  <2> QED BY <2>1, <2>2
<1>4. ASSUME NEW n \in Nodes, GroupExpire(n) \/ GroupEvict(n) PROVE IInv'
  <2> USE <1>1, <1>4 DEF GroupExpire, GroupEvict, redisVars
  <2>1. TypeOK'
    BY DEF TypeOK
  <2>2. RedisInv' /\ FlightInv' /\ RequestInv'
    BY DEF RedisInv, FlightInv, RequestInv
  <2>3. \A m \in Nodes : group'[m] = group[m] \/ group'[m].left = Gone
    BY DEF TypeOK
  <2>4. GroupInv' /\ ClockInv'
    BY <2>3 DEF GroupInv, ClockInv, BoundedStaleness, Gone
  <2> QED BY <2>1, <2>2, <2>4
<1> QED BY <1>2, <1>3, <1>4

\* A tick: every clock moves by one, so the sums ClockInv bounds do not grow.
LEMMA TickInvariant ==
    ASSUME IInv, Tick
    PROVE  IInv'
<1> USE NoneAssumption DEF IInv, requestVars
<1>0. /\ waited' \in [Nodes -> 0 .. WaitETA]
      /\ \A n \in Nodes :
            /\ stage'[n] \in {"wait", "wttl"} => waited'[n] + eta'[n] < WaitETA
            /\ stage'[n] \notin {"wait", "wttl"} => waited'[n] = 0
  <2> SUFFICES ASSUME NEW n \in Nodes
               PROVE  /\ waited'[n] \in 0 .. WaitETA
                      /\ stage'[n] \in {"wait", "wttl"} => waited'[n] + eta'[n] < WaitETA
                      /\ stage'[n] \notin {"wait", "wttl"} => waited'[n] = 0
    BY DEF Tick
  <2>1. /\ stage'[n] = stage[n] /\ stage[n] # "wttl" /\ ~ (stage[n] = "wait" /\ eta[n] = 0)
        /\ eta'[n] = Countdown(eta[n])
        /\ waited'[n] = IF stage[n] = "wait" THEN waited[n] + 1 ELSE waited[n]
    BY DEF Tick
  <2>2. eta[n] \in 0 .. WaitETA /\ waited[n] \in 0 .. WaitETA /\ WaitETA \in Int
    BY WaitETAAssumption DEF TypeOK
  <2>3. /\ stage[n] = "wait" => waited[n] + eta[n] < WaitETA
        /\ stage[n] # "wait" => waited[n] = 0
    BY <2>1 DEF FlightInv
  <2> QED BY <2>1, <2>2, <2>3 DEF Countdown
<1>1. redis'.val = redis.val /\ redis'.left = Countdown(redis.left) /\ redis.left \in Deadline
  BY DEF Tick, TypeOK, Entry
<1>2. ASSUME NEW n \in Nodes
      PROVE  /\ group'[n].val = group[n].val
             /\ group'[n].left = Countdown(group[n].left)
             /\ group[n].left \in Deadline
  BY DEF Tick, TypeOK, Entry
<1>3. TypeOK'
  <2>1. redis' \in Entry /\ group' \in [Nodes -> Entry]
    BY CountdownType DEF Tick, TypeOK, Entry
  <2>2. lock' \in {Gone} \union 0 .. WaitETA - 1 /\ eta' \in [Nodes -> 0 .. WaitETA]
    BY WaitETAAssumption DEF Tick, TypeOK, Countdown, Gone
  <2>3. age' \in [Requests -> 0 .. AgeCap]
    BY TTLAssumption DEF Tick, TypeOK, AgeCap
  <2> QED BY <1>0, <2>1, <2>2, <2>3 DEF Tick, TypeOK
<1>4. RedisInv'
  BY <1>1, CountdownType DEF Tick, RedisInv
<1>5. GroupInv'
  BY <1>2, CountdownType DEF Tick, GroupInv
<1>6. FlightInv' /\ RequestInv'
  BY <1>0 DEF Tick, FlightInv, RequestInv
<1>7. ClockInv'
  <2> SUFFICES ASSUME TTL > 0 PROVE ClockInv' BY DEF ClockInv
  <2>1. FullLife \in Int /\ FullLife >= 1 /\ AgeCap \in Int /\ AgeCap > 2 * FullLife
    BY TTLAssumption DEF FullLife, AgeCap
  <2>2. ASSUME NEW v \in stored
        PROVE  /\ v \in Requests
               /\ age[v] \in Int /\ age[v] >= 0
               /\ age[v] < AgeCap => age'[v] = age[v] + 1
    BY <2>1 DEF Tick, TypeOK
  <2>3. redis'.left # Gone => age'[redis'.val] + redis'.left = FullLife
    <3> SUFFICES ASSUME redis.left # Gone
                 PROVE  age'[redis.val] + Countdown(redis.left) = FullLife
      BY <1>1, CountdownType
    <3>1. redis.left \in Int /\ redis.left > 0
      <4>1. redis.left # 0 /\ redis.left # Never
        BY DEF Tick, RedisInv
      <4> QED BY <1>1, <4>1, TTLAssumption DEF Deadline, Gone, Never
    <3>2. age[redis.val] + redis.left = FullLife /\ redis.val \in stored
      BY DEF ClockInv, RedisInv
    <3>3. Countdown(redis.left) = redis.left - 1
      BY <3>1 DEF Countdown
    <3> QED BY <2>1, <2>2, <3>1, <3>2, <3>3
  <2>4. \A n \in Nodes : got'[n] \notin Requests
    <3>1. \A n \in Nodes : stage[n] \notin {"ttl", "setnx", "wttl"} /\ got'[n] = got[n]
      BY DEF Tick
    <3> QED BY <3>1 DEF FlightInv
  <2>5. \A r \in Requests : r \notin stored' \/ pc'[r] = "gcset" => age'[r] = 0
    BY DEF Tick, ClockInv, TypeOK
  <2>6. BoundedStaleness'
    <3> SUFFICES ASSUME NEW n \in Nodes, Countdown(group[n].left) >= 0
                 PROVE  age'[group[n].val] + Countdown(group[n].left) <= 2 * FullLife
      BY <1>2 DEF BoundedStaleness
    <3>1. group[n].left \in Int /\ group[n].left > 0
      <4>1. group[n].left # 0 /\ group[n].left \in Deadline
        BY <1>2 DEF Tick
      <4> QED BY <4>1, TTLAssumption DEF Deadline, Countdown, Gone, Never
    <3>2. age[group[n].val] + group[n].left <= 2 * FullLife /\ group[n].val \in stored
      BY <3>1 DEF ClockInv, BoundedStaleness, GroupInv, Gone
    <3>3. Countdown(group[n].left) = group[n].left - 1
      BY <3>1 DEF Countdown
    <3> QED BY <2>1, <2>2, <3>1, <3>2, <3>3
  <2> QED BY <2>3, <2>4, <2>5, <2>6 DEF ClockInv
<1> QED BY <1>3, <1>4, <1>5, <1>6, <1>7

-----------------------------------------------------------------------------
(* The theorems *)

\* Every step of the nodes, Redis and the clock keeps the invariant.
LEMMA NextInvariant ==
    ASSUME IInv, [Next]_vars
    PROVE  IInv'
<1>1. ASSUME NEW r \in Requests, GetHit(r) \/ GetMiss(r) PROVE IInv'
  BY <1>1, GetHitInvariant, GetMissInvariant
<1>2. ASSUME NEW r \in Requests, HandlerStep(r) PROVE IInv'
  BY <1>2, UpstreamInvariant, SetRedisInvariant, SetGroupcacheInvariant DEF HandlerStep
<1>3. ASSUME NEW n \in Nodes, FlightStep(n) PROVE IInv'
  BY <1>3, GetterGetInvariant, GetterTTLInvariant, GetterReturnInvariant, GetterMustWaitInvariant,
     ReadETAInvariant, WaitGetInvariant, WaitTTLInvariant, WaitEndInvariant DEF FlightStep
<1>4. ASSUME NEW n \in Nodes, WaitFail(n) \/ Crash(n) PROVE IInv'
  BY <1>4, WaitEndInvariant, CrashInvariant
<1>5. ASSUME RedisExpire \/ LockExpire \/ \E n \in Nodes : GroupExpire(n) \/ GroupEvict(n) PROVE IInv'
  BY <1>5, ExpireInvariant
<1>6. ASSUME UNCHANGED vars PROVE IInv'
  BY <1>6 DEF vars, redisVars, flightVars, requestVars, historyVars, IInv, TypeOK, RedisInv,
              GroupInv, FlightInv, RequestInv, ClockInv, BoundedStaleness
<1> QED BY <1>1, <1>2, <1>3, <1>4, <1>5, <1>6, TickInvariant DEF Next

\* The strengthened invariant holds throughout every behaviour.
THEOREM Invariance == Spec => []IInv
BY InitInvariant, NextInvariant, PTL DEF Spec

\* Every variable keeps its type: no deadline, reply or wait leaves its range.
THEOREM TypeCorrectness == Spec => []TypeOK
<1>1. IInv => TypeOK BY DEF IInv
<1> QED BY <1>1, Invariance, PTL

\* Whatever is served from a cache was stored in Redis and was no error
\* response: for any number of nodes, requests, faults and crashes.
THEOREM OnlyStoredServed == Spec => []StoredBeforeServed
<1>1. IInv => StoredBeforeServed
  BY DEF IInv, TypeOK, GroupInv, RequestInv, StoredBeforeServed
<1> QED BY <1>1, Invariance, PTL

\* A copy that expires at all does so before its body is twice its ttl old.
THEOREM StalenessBounded == Spec => []BoundedStaleness
<1>1. ASSUME IInv PROVE BoundedStaleness
  <2>1. CASE TTL > 0
    BY <1>1, <2>1 DEF IInv, ClockInv
  <2>2. CASE ~ (TTL > 0)
    <3>1. \A n \in Nodes : group[n].left \in Deadline
      BY <1>1 DEF IInv, TypeOK, Entry
    <3> QED BY <2>2, <3>1 DEF BoundedStaleness, Deadline, Gone, Never
  <2> QED BY <2>1, <2>2
<1> QED BY <1>1, Invariance, PTL

-----------------------------------------------------------------------------
(* The wait for another process *)

\* A flight in GetterFunc's wait loop gives up within the wait, and before the
\* lock lapses if there is one.
WaitInv ==
    \A n \in Nodes :
        stage[n] \in {"wait", "wttl"} =>
            eta[n] <= WaitETA - 1 /\ (lock # Gone => eta[n] <= lock)

\* A step keeps it that starts no wait, and replaces the lock only when there
\* is none, by a full one.
LEMMA NoNewWait ==
    ASSUME IInv, WaitInv,
           lock' \in {lock, Gone} \/ (lock = Gone /\ lock' = WaitETA - 1),
           \A n \in Nodes : stage'[n] \in {"wait", "wttl"} =>
                stage[n] \in {"wait", "wttl"} /\ eta'[n] = eta[n]
    PROVE  WaitInv'
  BY Z3 DEF WaitInv

\* SETNX without faults replaces no lock.
LEMMA SetNXLock ==
    ASSUME Faults = FALSE, NEW acquired \in BOOLEAN, SetNX(acquired)
    PROVE  lock' = lock \/ (lock = Gone /\ lock' = WaitETA - 1)
  BY DEF SetNX

\* A flight that ends waits no more.
LEMMA FlightEnds ==
    ASSUME IInv, NEW n \in Nodes, EndFlight(n)
    PROVE  \A m \in Nodes : stage'[m] \in {"wait", "wttl"} =>
                stage[m] \in {"wait", "wttl"} /\ eta'[m] = eta[m]
  BY DEF EndFlight, IInv, TypeOK

\* GetterFunc's pipeline up to its SETNX, and the end of any flight.
LEMMA PipelineWait ==
    ASSUME Faults = FALSE, IInv, WaitInv, NEW n \in Nodes,
           \/ GetterGet(n) \/ GetterTTL(n) \/ GetterHit(n) \/ GetterMiss(n) \/ GetterMustWait(n)
           \/ WaitTimeout(n) \/ WaitFail(n) \/ Crash(n)
    PROVE  WaitInv'
<1>1. CASE GetterGet(n) \/ GetterTTL(n)
  <2>1. lock' = lock /\ eta' = eta
    BY <1>1 DEF GetterGet, GetterTTL, redisVars
  <2>2. \A m \in Nodes : stage'[m] \in {"wait", "wttl"} => stage[m] \in {"wait", "wttl"}
    BY <1>1 DEF GetterGet, GetterTTL, IInv, TypeOK
  <2> QED BY <2>1, <2>2, NoNewWait
<1>2. CASE GetterHit(n) \/ GetterMiss(n)
  <2>1. lock' = lock \/ (lock = Gone /\ lock' = WaitETA - 1)
    BY <1>2, SetNXLock DEF GetterHit, GetterMiss
  <2>2. EndFlight(n)
    BY <1>2 DEF GetterHit, GetterMiss, Deliver, NotFound
  <2> QED BY <2>1, <2>2, FlightEnds, NoNewWait
<1>3. CASE GetterMustWait(n)
  <2>1. lock' = lock \/ (lock = Gone /\ lock' = WaitETA - 1)
    BY <1>3, SetNXLock DEF GetterMustWait
  <2>2. eta' = eta /\ \A m \in Nodes : stage'[m] \in {"wait", "wttl"} => stage[m] \in {"wait", "wttl"}
    BY <1>3 DEF GetterMustWait, IInv, TypeOK
  <2> QED BY <2>1, <2>2, NoNewWait
<1>4. CASE WaitTimeout(n) \/ WaitFail(n) \/ Crash(n)
  <2>1. EndFlight(n) /\ lock' = lock
    BY <1>4 DEF WaitTimeout, WaitFail, Crash, NotFound, redisVars
  <2> QED BY <2>1, FlightEnds, NoNewWait
<1> QED BY <1>1, <1>2, <1>3, <1>4

\* The deadline is read from the lock, or there is none and it is a full wait
\* (cache_service.go:268-273).
LEMMA ReadETAWait ==
    ASSUME Faults = FALSE, IInv, WaitInv, NEW n \in Nodes, ReadETA(n)
    PROVE  WaitInv'
<1>1. lock' = lock /\ lock \in {Gone} \union 0 .. WaitETA - 1 /\ WaitETA \in Int
  BY WaitETAAssumption DEF ReadETA, redisVars, IInv, TypeOK
<1>2. eta'[n] <= WaitETA - 1 /\ (lock # Gone => eta'[n] <= lock)
  BY <1>1 DEF ReadETA, IInv, TypeOK, Gone
<1>3. \A m \in Nodes \ {n} : stage'[m] = stage[m] /\ eta'[m] = eta[m]
  BY DEF ReadETA, IInv, TypeOK
<1> QED BY <1>1, <1>2, <1>3 DEF WaitInv

\* The wait loop goes on with the deadline it has.
LEMMA WaitLoopWait ==
    ASSUME IInv, WaitInv, NEW n \in Nodes, WaitGet(n) \/ WaitTTL(n)
    PROVE  WaitInv'
<1>1. lock' = lock
  BY DEF WaitGet, WaitTTL, redisVars
<1>2. CASE EndFlight(n)
  BY <1>1, <1>2, FlightEnds, NoNewWait
<1>3. CASE ~ EndFlight(n)
  <2>1. eta' = eta /\ stage[n] \in {"wait", "wttl"}
    BY <1>3 DEF WaitGet, WaitTTL, Deliver
  <2>2. \A m \in Nodes \ {n} : stage'[m] = stage[m]
    BY <1>3 DEF WaitGet, WaitTTL, Deliver, IInv, TypeOK
  <2> QED BY <1>1, <2>1, <2>2, NoNewWait
<1> QED BY <1>2, <1>3

\* The clocks of the lock and of those who wait for it go together, and a lock
\* in its last tick lapses before the next.
LEMMA TickWait == ASSUME IInv, WaitInv, Tick PROVE WaitInv'
<1> SUFFICES ASSUME NEW n \in Nodes, stage'[n] \in {"wait", "wttl"}
             PROVE  eta'[n] <= WaitETA - 1 /\ (lock' # Gone => eta'[n] <= lock')
  BY DEF WaitInv
<1>1. stage[n] \in {"wait", "wttl"} /\ eta'[n] = Countdown(eta[n]) /\ lock' = Countdown(lock)
  BY DEF Tick
<1>2. stage[n] = "wait" /\ eta[n] # 0 /\ lock # 0
  BY <1>1 DEF Tick
<1>3. eta[n] <= WaitETA - 1 /\ (lock # Gone => eta[n] <= lock)
  BY <1>1 DEF WaitInv
<1>4. eta[n] \in Nat /\ lock \in {Gone} \union 0 .. WaitETA - 1 /\ WaitETA \in Int
  BY WaitETAAssumption DEF IInv, TypeOK
<1> QED BY <1>1, <1>2, <1>3, <1>4 DEF Countdown, Gone

\* As long as no command fails, a flight waits for less than the configured
\* wait in all, also with the default deadline it takes when the lock lapsed
\* before its ETA was read, and, while there is a lock, gives up no later than
\* that: its deadline is the holder's, and whoever takes the lock anew takes it
\* for a full wait (cache_service.go:247, :269, :282).
THEOREM WaitIsBounded == ASSUME Faults = FALSE PROVE Spec => []WaitsUpToETA
<1>1. Init => WaitInv
  BY DEF Init, WaitInv
<1>2. ASSUME IInv, WaitInv, [Next]_vars PROVE WaitInv'
  <2>1. ASSUME NEW r \in Requests, GetHit(r) \/ GetMiss(r) \/ HandlerStep(r) PROVE WaitInv'
    <3>1. lock' = lock /\ eta' = eta
      BY <2>1 DEF GetHit, GetMiss, HandlerStep, UpstreamOK, UpstreamError, UpstreamUnreachable,
                  SetRedis, SetRedisFail, SetGroupcache, WriteRedis, redisVars, flightVars
    <3>2. \A n \in Nodes : stage'[n] = stage[n] \/ stage'[n] = "get"
      <4>1. CASE GetMiss(r)
        BY <4>1, <1>2, NodeOfAssumption DEF GetMiss, IInv, TypeOK
      <4>2. CASE ~ GetMiss(r)
        BY <4>2, <2>1 DEF GetHit, HandlerStep, UpstreamOK, UpstreamError, UpstreamUnreachable,
                     SetRedis, SetRedisFail, SetGroupcache, flightVars
      <4> QED BY <4>1, <4>2
    <3> QED BY <1>2, <3>1, <3>2, NoNewWait
  <2>2. ASSUME NEW n \in Nodes, FlightStep(n) \/ WaitFail(n) \/ Crash(n) PROVE WaitInv'
    BY <1>2, <2>2, PipelineWait, ReadETAWait, WaitLoopWait DEF FlightStep
  <2>3. CASE RedisExpire \/ LockExpire \/ (\E n \in Nodes : GroupExpire(n) \/ GroupEvict(n)) \/ UNCHANGED vars
    <3>1. lock' \in {lock, Gone} /\ stage' = stage /\ eta' = eta
      BY <2>3 DEF RedisExpire, LockExpire, GroupExpire, GroupEvict, vars, redisVars, flightVars
    <3> QED BY <1>2, <3>1, NoNewWait
  <2> QED BY <1>2, <2>1, <2>2, <2>3, TickWait DEF Next
<1>3. IInv /\ WaitInv => WaitsUpToETA
  BY DEF WaitInv, IInv, FlightInv, WaitsUpToETA
<1> QED BY <1>1, <1>2, <1>3, Invariance, PTL DEF Spec

-----------------------------------------------------------------------------
(* QueryCache implements ReadThroughCache *)

\* Answering the requests in rs with a stored body is a step of the promise.
LEMMA AnswerCachedStep ==
    ASSUME IInv, NEW rs \in SUBSET Requests, NEW v \in stored,
           \A r \in rs : pc[r] \in {"idle", "flight"},
           answer' = [r \in Requests |-> IF r \in rs THEN v ELSE answer[r]],
           UNCHANGED stored
    PROVE  Promise!Next
<1>1. \A r \in rs : answer[r] = None
  BY DEF IInv, RequestInv, Active
<1>2. Promise!AnswerCached(rs, v)
  BY <1>1 DEF Promise!AnswerCached
<1> QED BY <1>2 DEF Promise!Next

\* A flight that returns a stored body answers all its requests at once, and
\* the abstract cache answers them in one step.
LEMMA DeliverStep ==
    ASSUME IInv, NEW n \in Nodes, NEW v \in stored, NEW left, Deliver(n, v, left), UNCHANGED historyVars
    PROVE  Promise!Next
<1>1. Members(n) \in SUBSET Requests /\ \A r \in Members(n) : pc[r] \in {"idle", "flight"}
  BY DEF Members
<1>2. answer' = [r \in Requests |-> IF r \in Members(n) THEN v ELSE answer[r]] /\ UNCHANGED stored
  BY DEF Deliver, historyVars
<1> QED BY <1>1, <1>2, AnswerCachedStep

\* A handler step publishes the request's body, answers it with its own body,
\* or is invisible.
LEMMA HandlerRefines ==
    ASSUME IInv, NEW r \in Requests, HandlerStep(r)
    PROVE  Promise!Next \/ UNCHANGED <<stored, answer>>
<1>1. CASE UpstreamOK(r) \/ UpstreamUnreachable(r)
  BY <1>1 DEF UpstreamOK, UpstreamUnreachable, historyVars
<1>2. CASE UpstreamError(r) \/ SetGroupcache(r)
  <2>1. answer[r] = None
    BY <1>2 DEF UpstreamError, SetGroupcache, IInv, RequestInv, Active
  <2>2. Promise!AnswerOwn(r)
    BY <1>2, <2>1 DEF UpstreamError, SetGroupcache, historyVars, Promise!AnswerOwn
  <2> QED BY <2>2 DEF Promise!Next
<1>3. CASE SetRedis(r) \/ SetRedisFail(r)
  <2>1. answer[r] = None
    BY <1>3 DEF SetRedis, SetRedisFail, IInv, RequestInv, Active
  <2>2. Promise!Publish(r) \/ Promise!AnswerOwn(r)
    BY <1>3, <2>1 DEF SetRedis, SetRedisFail, WriteRedis, historyVars, Promise!Publish, Promise!AnswerOwn
  <2> QED BY <2>2 DEF Promise!Next
<1> QED BY <1>1, <1>2, <1>3 DEF HandlerStep

\* Each step of a flight is an answer of ReadThroughCache, or none.
LEMMA FlightRefines ==
    ASSUME IInv, NEW n \in Nodes, FlightStep(n) \/ WaitFail(n)
    PROVE  Promise!Next \/ UNCHANGED <<stored, answer>>
<1>1. CASE GetterHit(n)
  <2>1. got[n] \in stored
    BY <1>1 DEF GetterHit, IInv, FlightInv
  <2> QED BY <1>1, <2>1, DeliverStep DEF GetterHit
<1>2. CASE WaitTTL(n)
  <2>1. got[n] \in stored
    BY <1>2 DEF WaitTTL, IInv, FlightInv
  <2>2. UNCHANGED historyVars
    BY <1>2 DEF WaitTTL
  <2>3. Deliver(n, got[n], CopyLeft(TTLReply(redis.left))) \/ UNCHANGED answer
    BY <1>2 DEF WaitTTL
  <2> QED BY <2>1, <2>2, <2>3, DeliverStep DEF historyVars
<1>3. CASE GetterMiss(n) \/ WaitTimeout(n) \/ WaitFail(n)
  BY <1>3 DEF GetterMiss, WaitTimeout, WaitFail, NotFound, historyVars
<1>4. CASE GetterGet(n) \/ GetterTTL(n) \/ GetterMustWait(n) \/ ReadETA(n) \/ WaitGet(n)
  BY <1>4 DEF GetterGet, GetterTTL, GetterMustWait, ReadETA, WaitGet, requestVars, historyVars
<1> QED BY <1>1, <1>2, <1>3, <1>4 DEF FlightStep

\* Each lookup is an answer of ReadThroughCache, or none.
LEMMA GetRefines ==
    ASSUME IInv, NEW r \in Requests, GetHit(r) \/ GetMiss(r)
    PROVE  Promise!Next \/ UNCHANGED <<stored, answer>>
<1>1. CASE GetHit(r)
  <2>1. group[NodeOf[r]].val \in stored
    BY <1>1, NodeOfAssumption DEF GetHit, IInv, GroupInv
  <2>2. answer' = [q \in Requests |-> IF q \in {r} THEN group[NodeOf[r]].val ELSE answer[q]]
    BY <1>1 DEF GetHit, IInv, TypeOK
  <2> QED BY <1>1, <2>1, <2>2, AnswerCachedStep DEF GetHit, historyVars
<1>2. CASE GetMiss(r)
  BY <1>2 DEF GetMiss, historyVars
<1> QED BY <1>1, <1>2

\* Whatever the nodes, Redis, the faults and the crashes do, clients see a
\* read-through cache: one answer each, their own body or one published before.
THEOREM Refinement == Spec => ReadThrough
<1>1. Init => Promise!Init
  BY DEF Init, Promise!Init
<1>2. ASSUME IInv, [Next]_vars PROVE [Promise!Next]_<<stored, answer>>
  <2>1. CASE \E n \in Nodes : Crash(n)
    BY <2>1 DEF Crash, historyVars
  <2>2. CASE RedisExpire \/ LockExpire \/ Tick \/ \E n \in Nodes : GroupExpire(n) \/ GroupEvict(n)
    BY <2>2 DEF RedisExpire, LockExpire, Tick, GroupExpire, GroupEvict, requestVars, historyVars
  <2>3. CASE UNCHANGED vars
    BY <2>3 DEF vars, requestVars, historyVars
  <2> QED BY <1>2, <2>1, <2>2, <2>3, GetRefines, HandlerRefines, FlightRefines DEF Next
<1> QED BY <1>1, <1>2, Invariance, PTL DEF Spec, ReadThrough, Promise!Spec
=============================================================================
