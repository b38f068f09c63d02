----------------------- MODULE ClusterMembershipProofs -----------------------
(***************************************************************************)
(* ClusterMembership, for any number of servers and removals under way:    *)
(* the set in Redis and the pools hold addresses only, and a server whose  *)
(* clients are closed has ended its refresh loop.                          *)
(***************************************************************************)
EXTENDS ClusterMembership, TLAPS

USE LoopbackAssumption, UndiscoverableAssumption

\* Redis starts with what earlier servers left, and no server runs.
LEMMA InitTypeOK == Init => TypeOK
  BY DEF Init, TypeOK, Addresses

\* Whatever address a server finds, it is one, the loopback included.
LEMMA DiscoveredAddress == ASSUME NEW n \in Nodes PROVE Discover(n) \subseteq Addresses
  BY DEF Discover, GetIp, Addresses, NoAddress

\* A command on the set that is lost leaves an earlier set of addresses.
LEMMA CommandType ==
    ASSUME TypeOK, NEW S \in SUBSET Addresses, Command(S)
    PROVE  members' \in SUBSET Addresses
  BY DEF Command, TypeOK

\* Starting (setupRedisClient, NewRedisCacheClient): the refresh loop begins
\* with the server running.
LEMMA StartKeeps ==
    ASSUME TypeOK, NEW n \in Nodes, Join(n) \/ JoinAlone(n) \/ JoinPool(n)
    PROVE  TypeOK'
<1>1. CASE Join(n)
  <2>1. PICK a \in Discover(n) : addr' = [addr EXCEPT ![n] = a] /\ Command(members \union {a})
    BY <1>1 DEF Join
  <2>2. a \in Addresses /\ members' \in SUBSET Addresses
    BY <2>1, DiscoveredAddress, CommandType DEF TypeOK
  <2> QED BY <1>1, <2>1, <2>2 DEF Join, TypeOK
<1>2. CASE JoinAlone(n)
  BY <1>2 DEF JoinAlone, TypeOK, Addresses
<1>3. CASE JoinPool(n)
  BY <1>3 DEF JoinPool, TypeOK
<1> QED BY <1>1, <1>2, <1>3

\* The refresh loop adds its server's address and takes the set for its pool.
LEMMA RefreshKeeps ==
    ASSUME TypeOK, NEW n \in Nodes, Refresh(n) \/ RefreshLost(n)
    PROVE  TypeOK'
<1>1. CASE RefreshAdd(n)
  BY <1>1 DEF RefreshAdd, TypeOK
<1>2. CASE RefreshRead(n)
  BY <1>2 DEF RefreshRead, TypeOK
<1>3. CASE RefreshLost(n)
  BY <1>3 DEF RefreshLost, TypeOK
<1> QED BY <1>1, <1>2, <1>3 DEF Refresh

\* A failed Set removes a peer from the set, with a command that may be lost.
LEMMA RemovalKeeps ==
    ASSUME TypeOK, NEW n \in Nodes, NEW p \in Addresses, SetFails(n, p) \/ RemovePeer(n, p)
    PROVE  TypeOK'
<1>1. CASE SetFails(n, p)
  BY <1>1 DEF SetFails, TypeOK
<1>2. CASE RemovePeer(n, p)
  <2>1. members' \in SUBSET Addresses
    BY <1>2, CommandType DEF RemovePeer, TypeOK
  <2> QED BY <1>2, <2>1 DEF RemovePeer, TypeOK
<1> QED BY <1>1, <1>2

\* Closing and ending: the loop is off before the server is anything but
\* running or closing.
LEMMA StopKeeps ==
    ASSUME TypeOK, NEW n \in Nodes, CloseRemove(n) \/ CloseClients(n) \/ Exit(n)
    PROVE  TypeOK'
<1>1. CASE CloseRemove(n)
  <2>1. members' \in SUBSET Addresses
    BY <1>1, CommandType DEF CloseRemove, TypeOK
  <2> QED BY <1>1, <2>1 DEF CloseRemove, TypeOK
<1>2. CASE CloseClients(n)
  BY <1>2 DEF CloseClients, TypeOK
<1>3. CASE Exit(n)
  BY <1>3 DEF Exit, TypeOK, Addresses
<1> QED BY <1>1, <1>2, <1>3

\* Type correctness, and that a server whose clients are closed
\* (RedisCacheClient.Close) touches the set no more: whatever joins, refreshes,
\* removals, lost commands and crashes come together.
THEOREM TypeCorrectness == Spec => []TypeOK
<1>1. ASSUME TypeOK, [Next]_vars PROVE TypeOK'
  <2>1. CASE Disturbance
    BY <1>1, <2>1, StartKeeps, RefreshKeeps, RemovalKeeps, StopKeeps DEF Disturbance
  <2>2. ASSUME NEW n \in Nodes, JoinPool(n) \/ Refresh(n) \/ CloseClients(n) PROVE TypeOK'
    BY <1>1, <2>2, StartKeeps, RefreshKeeps, StopKeeps
  <2>3. CASE UNCHANGED vars
    BY <1>1, <2>3 DEF TypeOK, vars
  <2> QED BY <1>1, <2>1, <2>2, <2>3, RemovalKeeps DEF Next
<1> QED BY <1>1, InitTypeOK, PTL DEF Spec
=============================================================================
