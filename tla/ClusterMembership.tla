------------------------- MODULE ClusterMembership -------------------------
(***************************************************************************)
(* How the servers of a deployment find each other's groupcache (cluster   *)
(* mode).  The addresses are a set in Redis.  A server adds itself when it *)
(* starts and once a second, when it also replaces its pool of peers by    *)
(* what the set holds; it removes itself when it shuts down; and a server  *)
(* whose groupcache Set could not reach a peer removes that peer.          *)
(* A server whose own address cannot be found takes part under the         *)
(* loopback address; without a cluster mode it stays alone with it.        *)
(*                                                                         *)
(* A server without a usable cache client (setupRedisClient's pings        *)
(* failed) keeps the refresh loop, and just never calls Set or Close.      *)
(***************************************************************************)
EXTENDS Naturals, FiniteSets

CONSTANTS
    Nodes,          \* servers, and the addresses they have
    Loopback,       \* 127.0.0.1, on every one of them
    Undiscoverable, \* servers that may fail to find their address
    ReaderWritable, \* the reader connection accepts writes (no read replica)
    MaxRemovals,    \* bound on the removals a server has under way
    Faults          \* Redis commands, and Sets to a running peer, may fail

ASSUME LoopbackAssumption == Loopback \notin Nodes
ASSUME UndiscoverableAssumption == Undiscoverable \subseteq Nodes
ASSUME ReaderWritableAssumption == ReaderWritable \in BOOLEAN
ASSUME MaxRemovalsAssumption == MaxRemovals \in Nat \ {0}
ASSUME FaultsAssumption == Faults \in BOOLEAN

VARIABLES
    members,    \* the set in Redis
    state,      \* each server's life
    addr,       \* groupcacheServerUrl
    pool,       \* the peers each server's pool knows
    current,    \* currentGroupcacheNodeUrls of the refresh loop
    loop,       \* where the refresh loop is
    removing    \* the peers a server is about to remove

vars == <<members, state, addr, pool, current, loop, removing>>

NoAddress == "no address"
Addresses == Nodes \union {Loopback}

Init ==
    /\ members \in SUBSET Addresses     \* left over from earlier servers
    /\ state = [n \in Nodes |-> "down"]
    /\ addr = [n \in Nodes |-> Loopback]
    /\ pool = [n \in Nodes |-> {}]
    /\ current = [n \in Nodes |-> {}]
    /\ loop = [n \in Nodes |-> "off"]
    /\ removing = [n \in Nodes |-> {}]

\* The result of a command that may be lost before or after it took effect.
Command(result) == members' = result \/ (Faults /\ UNCHANGED members)

-----------------------------------------------------------------------------
(* setupRedisClient, NewRedisCacheClient *)

\* A cluster mode finds the server's address in the metadata of its instance
\* or container, or among its interfaces; or it finds none that is valid.
GetIp(n) == {n} \union (IF n \in Undiscoverable THEN {NoAddress} ELSE {})

\* The error is logged, and the server joins the cluster all the same.
Discover(n) == {IF a = NoAddress THEN Loopback ELSE a : a \in GetIp(n)}

Join(n) ==
    /\ state[n] = "down"
    /\ \E a \in Discover(n) :
        /\ addr' = [addr EXCEPT ![n] = a]
        /\ Command(members \union {a})
    /\ state' = [state EXCEPT ![n] = "joining"]
    /\ UNCHANGED <<pool, current, loop, removing>>

\* No cluster mode, or one the code does not know: no automatic discovery.
JoinAlone(n) ==
    /\ state[n] = "down"
    /\ addr' = [addr EXCEPT ![n] = Loopback]
    /\ pool' = [pool EXCEPT ![n] = {Loopback}]
    /\ state' = [state EXCEPT ![n] = "running"]
    /\ UNCHANGED <<members, current, loop, removing>>

\* SMEMBERS: the server is put into its pool even if it is not in the set;
\* after an error it is alone there, and the loop starts from no list at all.
JoinPool(n) ==
    /\ state[n] = "joining"
    /\ \/ /\ pool' = [pool EXCEPT ![n] = members \union {addr[n]}]
          /\ current' = [current EXCEPT ![n] = members \union {addr[n]}]
       \/ /\ Faults
          /\ pool' = [pool EXCEPT ![n] = {addr[n]}]
          /\ current' = [current EXCEPT ![n] = {}]
    /\ state' = [state EXCEPT ![n] = "running"]
    /\ loop' = [loop EXCEPT ![n] = "sleep"]
    /\ UNCHANGED <<addr, members, removing>>

-----------------------------------------------------------------------------
(* The refresh loop: the pipeline SADD, SMEMBERS on the reader connection.  *)
(* Commands of other servers may run in between.                            *)

\* Mutant: the loop only reads.
RefreshAddNothing(n) ==
    /\ loop[n] \in {"sleep", "error"} /\ ReaderWritable
    /\ loop' = [loop EXCEPT ![n] = "added"]
    /\ UNCHANGED <<addr, members, state, pool, current, removing>>

\* On a read replica the SADD, and with it the pipeline, fails: nothing happens.
RefreshAdd(n) ==
    /\ loop[n] \in {"sleep", "error"} /\ ReaderWritable
    /\ members' = members \union {addr[n]}
    /\ loop' = [loop EXCEPT ![n] = "added"]
    /\ UNCHANGED <<addr, state, pool, current, removing>>

\* Mutant: addresses are added to the pool and never dropped.
RefreshReadMerges(n) ==
    /\ loop[n] = "added"
    /\ pool' = [pool EXCEPT ![n] = @ \union members]
    /\ current' = [current EXCEPT ![n] = members]
    /\ loop' = [loop EXCEPT ![n] = "sleep"]
    /\ UNCHANGED <<addr, members, state, removing>>

RefreshRead(n) ==
    /\ loop[n] = "added"
    /\ pool' = [pool EXCEPT ![n] = IF current[n] # members THEN members ELSE @]
    /\ current' = [current EXCEPT ![n] = members]
    /\ loop' = [loop EXCEPT ![n] = "sleep"]
    /\ UNCHANGED <<addr, members, state, removing>>

\* Any error of the pipeline: it is logged and the loop goes on.
RefreshLost(n) ==
    /\ Faults
    /\ loop[n] = "added"
    /\ loop' = [loop EXCEPT ![n] = "error"]
    /\ UNCHANGED <<addr, members, state, pool, current, removing>>

-----------------------------------------------------------------------------
(* RedisCacheClient.Set: the peer that owns the key cannot be reached *)

\* A groupcache server listens on the address it has found, and only there.
Reachable(p) ==
    p \in Nodes /\ addr[p] = p /\ state[p] \notin {"down", "joining"}

SetFails(n, p) ==
    /\ state[n] = "running"
    /\ p \in pool[n] \ {addr[n]} /\ Cardinality(removing[n]) < MaxRemovals
    /\ ~ Reachable(p) \/ Faults
    /\ removing' = [removing EXCEPT ![n] = @ \union {p}]
    /\ UNCHANGED <<addr, members, state, pool, current, loop>>

RemovePeer(n, p) ==
    /\ p \in removing[n]
    /\ Command(members \ {p})
    /\ removing' = [removing EXCEPT ![n] = @ \ {p}]
    /\ UNCHANGED <<addr, state, pool, current, loop>>

-----------------------------------------------------------------------------
(* Shutdown *)

\* Close: the SREM.  A signal does not end the loop's context.
CloseRemove(n) ==
    /\ state[n] = "running"
    /\ Command(members \ {addr[n]})
    /\ state' = [state EXCEPT ![n] = "closing"]
    /\ UNCHANGED <<addr, pool, current, loop, removing>>

\* Mutant: the reader client stays open.
CloseClientsWriter(n) ==
    /\ state[n] = "closing"
    /\ state' = [state EXCEPT ![n] = "closed"]
    /\ UNCHANGED <<addr, members, pool, current, loop, removing>>

\* Close: the clients are closed, every later command of the loop fails.
CloseClients(n) ==
    /\ state[n] = "closing"
    /\ state' = [state EXCEPT ![n] = "closed"]
    /\ loop' = [loop EXCEPT ![n] = "off"]
    /\ UNCHANGED <<addr, members, pool, current, removing>>

\* The process ends: after Close, or by a crash in whatever it did.
Exit(n) ==
    /\ state[n] # "down"
    /\ state' = [state EXCEPT ![n] = "down"]
    /\ addr' = [addr EXCEPT ![n] = Loopback]
    /\ pool' = [pool EXCEPT ![n] = {}]
    /\ current' = [current EXCEPT ![n] = {}]
    /\ loop' = [loop EXCEPT ![n] = "off"]
    /\ removing' = [removing EXCEPT ![n] = {}]
    /\ UNCHANGED members

-----------------------------------------------------------------------------
Refresh(n) == RefreshAdd(n) \/ RefreshRead(n)

\* What changes who takes part, or damages the set.
Disturbance ==
    \E n \in Nodes :
        \/ Join(n) \/ JoinAlone(n) \/ CloseRemove(n) \/ Exit(n) \/ RefreshLost(n)
        \/ \E p \in Addresses : SetFails(n, p)

Next ==
    \/ Disturbance
    \/ \E n \in Nodes : JoinPool(n) \/ Refresh(n) \/ CloseClients(n)
    \/ \E n \in Nodes, p \in Addresses : RemovePeer(n, p)

\* The loop and started calls go on; a closing server closes and ends.
Fairness ==
    \A n \in Nodes :
        /\ WF_vars(JoinPool(n)) /\ WF_vars(Refresh(n)) /\ WF_vars(CloseClients(n))
        /\ WF_vars(state[n] = "closed" /\ Exit(n))
        /\ \A p \in Addresses : WF_vars(RemovePeer(n, p))

Spec == Init /\ [][Next]_vars

FairSpec == Spec /\ Fairness

-----------------------------------------------------------------------------
(* Properties *)

\* The running servers that take part in the discovery.
Running == {n \in Nodes : state[n] = "running" /\ loop[n] # "off"}

\* Every variable has its type, and the refresh loop of a server whose clients
\* are closed touches the set no more.
TypeOK ==
    /\ members \in SUBSET Addresses
    /\ addr \in [Nodes -> Addresses]
    /\ state \in [Nodes -> {"down", "joining", "running", "closing", "closed"}]
    /\ pool \in [Nodes -> SUBSET Addresses] /\ current \in [Nodes -> SUBSET Addresses]
    /\ loop \in [Nodes -> {"off", "sleep", "added", "error"}]
    /\ removing \in [Nodes -> SUBSET Addresses]
    /\ \A n \in Nodes : loop[n] # "off" => state[n] \in {"running", "closing"}

\* Once no server starts or stops and no Set or refresh fails any more, the
\* pools settle on the same peers, all running servers among them, whatever
\* was removed by mistake or lost before: every server keeps adding itself
\* (cache_service.go:159).
PoolsConverge ==
    <>[][~ Disturbance]_vars =>
        <>[](\A n, m \in Running : addr[m] \in pool[n] /\ pool[n] = pool[m])

\* A command of the refresh, or a removal, that was lost.
Lost == \E n \in Nodes : RefreshLost(n) \/ \E p \in Addresses : RemovePeer(n, p) /\ p \in members'

\* A server that is gone for good costs one that keeps running only so many
\* failed Sets: the first removes it from the set, the refresh from the pool,
\* and nothing brings it back (cache_service.go:441), unless commands go on
\* being lost.
DeadPeerForgotten ==
    <>[][~ Lost]_vars =>
        \A n \in Nodes, p \in Addresses :
            <>[](state[n] = "running" /\ \A m \in Nodes : addr[m] = p => state[m] = "down")
                => <>[](p \notin removing[n])
=============================================================================
