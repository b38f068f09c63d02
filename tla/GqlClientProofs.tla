--------------------------- MODULE GqlClientProofs ---------------------------
(***************************************************************************)
(* GqlClient, for any number of calls, any weight and any number of        *)
(* attempts: sessions are neither shared nor leaked, only a replica that   *)
(* was seen healthy is used, and two attempts are enough for the retry     *)
(* loop never to run out.                                                  *)
(***************************************************************************)
EXTENDS GqlClient, TLAPS

USE MaxRetriesAssumption, NoneAssumption

\* A call that has begun has a client, which was made.  One that has replaced
\* it holds an object that nobody has connected, so it replaces it once.
CallOK(e) ==
    /\ attempt[e] <= 1
    /\ pc[e] = "idle" => attempt[e] = 0
    /\ pc[e] \in {"connect", "execute", "close", "close failed", "fetch"} => client[e] # None
    /\ pc[e] = "connect" => attempt[e] < MaxRetries
    /\ pc[e] = "connect" /\ attempt[e] = 1 => client[e] \notin connected
    /\ pc[e] = "nothing" => MaxRetries = 1
    /\ client[e] # None => client[e][2] <= made[client[e][1]]
    /\ client[e] # None /\ client[e][1] = "replica" => answered

CallInv == \A e \in Calls : CallOK(e)

\* The flag, and the health check on its way to set it, come after an answer
\* 200 to a health check.
HealthInv == available \/ health = "text" => answered

IInv == TypeOK /\ SessionPerCall /\ CallInv /\ HealthInv

-----------------------------------------------------------------------------
(* Lemmas about clients, sessions and the calls that do not run *)

\* The object a call is given is a client object that was made.
LEMMA CurrentType ==
    ASSUME TypeOK, NEW t \in Types
    PROVE  /\ Current(t) \in Clients /\ Current(t) # None
           /\ Current(t)[1] = t /\ Current(t)[2] = made[t] /\ made[t] \in Nat
<1>1. made[t] \in Nat
  BY DEF TypeOK
<1>2. Current(t) \in Clients
  BY <1>1 DEF Current, Clients
<1> QED BY <1>1, <1>2 DEF Current

\* A step that makes no object.
LEMMA MadeGrows ==
    ASSUME IInv, UNCHANGED made
    PROVE  made' \in [Types -> Nat] /\ \A t \in Types : made[t] <= made'[t]
<1>1. made \in [Types -> Nat]
  BY DEF IInv, TypeOK
<1>2. \A t \in Types : made[t] <= made[t]
  BY <1>1
<1> QED BY <1>1, <1>2

\* The parts of a client object.
LEMMA ClientParts ==
    ASSUME TypeOK, NEW e \in Calls, client[e] # None
    PROVE  /\ client[e] \in Clients
           /\ client[e][1] \in Types /\ client[e][2] \in Nat
           /\ made[client[e][1]] \in Nat
  BY DEF TypeOK, Clients

\* execute chooses a replica only when the flag allows it.
LEMMA ClientTypesAllowed ==
    ASSUME NEW document, NEW t \in ClientTypes(document)
    PROVE  t \in Types /\ (t = "replica" => available)
<1>1. CASE document \in {"mutation", "cached"}
  BY <1>1 DEF ClientTypes, Types
<1>2. CASE document \notin {"mutation", "cached"}
  <2>1. ClientTypes(document) =
            IF ~ available \/ Weight >= 100 THEN {"primary"}
            ELSE {"replica"} \union (IF Weight > 0 THEN {"primary"} ELSE {})
    BY <1>2 DEF ClientTypes
  <2> QED BY <2>1 DEF Types
<1> QED BY <1>1, <1>2

\* A step that begins and ends no session, and gives no call in one another
\* client, leaves the sessions as they are.
LEMMA SessionsKept ==
    ASSUME SessionPerCall, UNCHANGED connected,
           \A f \in Calls : /\ f \in InSession' <=> f \in InSession
                            /\ f \in InSession => client'[f] = client[f]
    PROVE  SessionPerCall'
<1>1. InSession' = InSession /\ InSession \subseteq Calls
  BY DEF InSession
<1> QED BY <1>1 DEF SessionPerCall

\* A call is undisturbed by the steps of another: those that connect or close
\* need the turn, or that nobody has it, so that it is not about to connect.
LEMMA OthersKept ==
    ASSUME IInv, NEW e \in Calls, NEW f \in Calls \ {e}, turn \in {None, e},
           pc'[f] = pc[f], client'[f] = client[f], attempt'[f] = attempt[f],
           made' \in [Types -> Nat], \A t \in Types : made[t] <= made'[t],
           answered' = answered
    PROVE  CallOK(f)'
<1>1. CallOK(f) /\ pc[f] # "connect"
  BY DEF IInv, CallInv, TypeOK
<1>2. CASE client[f] = None
  BY <1>1, <1>2 DEF CallOK
<1>3. CASE client[f] # None
  <2>1. client[f][1] \in Types /\ client[f][2] \in Nat /\ made[client[f][1]] \in Nat
    BY <1>3, ClientParts DEF IInv
  <2>2. client[f][2] <= made'[client[f][1]]
    <3>1. client[f][2] <= made[client[f][1]]
      BY <1>1, <1>3 DEF CallOK
    <3>2. made[client[f][1]] <= made'[client[f][1]] /\ made'[client[f][1]] \in Nat
      BY <2>1
    <3> QED BY <2>1, <3>1, <3>2
  <2>3. pc'[f] # "connect" /\ client'[f] # None
    BY <1>1, <1>3
  <2> QED BY <1>1, <2>2, <2>3 DEF CallOK
<1> QED BY <1>2, <1>3

\* What the environment does leaves the calls alone.
LEMMA AllKept ==
    ASSUME CallInv, UNCHANGED <<made, connected, pc, client, attempt>>, (answered => answered')
    PROVE  CallInv'
  BY DEF CallInv, CallOK

-----------------------------------------------------------------------------
(* Every action keeps the invariant *)

\* No client is connected and no call has begun.
LEMMA InitIInv == Init => IInv
<1> SUFFICES ASSUME Init PROVE IInv
  OBVIOUS
<1>1. TypeOK
  <2>1. client \in [Calls -> Clients \union {None}] /\ pc \in [Calls -> {"idle"}]
    BY DEF Init
  <2>2. \A e \in Calls : (pc[e] = "connect") <=> (turn = e)
    BY DEF Init
  <2>3. attempt \in [Calls -> 0 .. MaxRetries] /\ made \in [Types -> Nat]
    BY DEF Init
  <2> QED BY <2>1, <2>2, <2>3 DEF Init, TypeOK
<1>2. InSession = {} /\ connected = {}
  BY DEF Init, InSession
<1>3. SessionPerCall
  <2>1. {client[e] : e \in InSession} = {}
    BY <1>2, Zenon
  <2> QED BY <1>2, <2>1 DEF SessionPerCall
<1>4. CallInv /\ HealthInv
  BY DEF Init, CallInv, CallOK, HealthInv
<1> QED BY <1>1, <1>3, <1>4 DEF IInv

\* Choosing a client starts no session (gql_client.py:110).
LEMMA ExecuteKeeps ==
    ASSUME IInv, NEW e \in Calls, NEW document, Execute(e, document)
    PROVE  IInv'
<1>1. PICK t \in ClientTypes(document) : client' = [client EXCEPT ![e] = Current(t)]
  BY DEF Execute
<1>2. t \in Types /\ (t = "replica" => available)
  BY <1>1, ClientTypesAllowed
<1>3. /\ Current(t) \in Clients /\ Current(t) # None
      /\ Current(t)[1] = t /\ Current(t)[2] = made[t] /\ made[t] \in Nat
  BY <1>2, CurrentType DEF IInv
<1>4. /\ pc[e] = "idle" /\ turn = None /\ turn' = e /\ pc' = [pc EXCEPT ![e] = "connect"]
      /\ UNCHANGED <<made, connected, schemas, attempt, available, health, answered, replicaUp>>
  BY DEF Execute, Goto, healthVars
<1>5. TypeOK'
  BY <1>1, <1>3, <1>4 DEF IInv, TypeOK, Ended
<1>6. /\ \A f \in Calls \ {e} : client'[f] = client[f] /\ pc'[f] = pc[f]
      /\ client'[e] = Current(t) /\ pc'[e] = "connect"
  BY <1>1, <1>4 DEF IInv, TypeOK
<1>7. SessionPerCall'
  BY <1>4, <1>6, SessionsKept DEF IInv, InSession
<1>8. CallInv'
  <2>0. made' \in [Types -> Nat] /\ \A u \in Types : made[u] <= made'[u]
    BY <1>4, MadeGrows
  <2>1. \A f \in Calls \ {e} : CallOK(f)'
    BY <1>4, <1>6, <2>0, OthersKept
  <2>2. CallOK(e)
    BY DEF IInv, CallInv
  <2>3. attempt'[e] = 0 /\ (client'[e][1] = "replica" => answered')
    BY <1>2, <1>3, <1>4, <1>6, <2>2 DEF IInv, CallOK, HealthInv
  <2>4. client'[e] # None /\ client'[e][2] <= made'[client'[e][1]]
    BY <1>2, <1>3, <1>4, <1>6
  <2>5. CallOK(e)'
    BY <1>6, <2>3, <2>4 DEF CallOK
  <2> QED BY <2>1, <2>5 DEF CallInv
<1>9. HealthInv'
  BY <1>4 DEF IInv, HealthInv
<1> QED BY <1>5, <1>7, <1>8, <1>9 DEF IInv

\* A session begins with an object that nobody has connected, hence nobody
\* else in a session holds (gql_client.py:134).
LEMMA ConnectKeeps ==
    ASSUME IInv, NEW e \in Calls, Connect(e)
    PROVE  IInv'
<1>1. /\ turn = e /\ client[e] \notin connected /\ connected' = connected \union {client[e]}
      /\ turn' = None /\ pc' = [pc EXCEPT ![e] = "execute"]
      /\ UNCHANGED <<made, schemas, client, attempt, available, health, answered, replicaUp>>
  BY DEF Connect, Goto, healthVars
<1>2. pc[e] = "connect" /\ client[e] \in Clients /\ CallOK(e)
  BY <1>1 DEF IInv, TypeOK, CallInv, CallOK
<1>3. TypeOK'
  BY <1>1, <1>2 DEF IInv, TypeOK, Ended
<1>4. pc'[e] = "execute" /\ \A f \in Calls \ {e} : pc'[f] = pc[f]
  BY <1>1 DEF IInv, TypeOK
<1>5. InSession' = InSession \union {e}
  BY <1>2, <1>4 DEF InSession
<1>6. SessionPerCall'
  BY <1>1, <1>5 DEF IInv, SessionPerCall
<1>7. CallInv'
  <2>0. made' \in [Types -> Nat] /\ \A t \in Types : made[t] <= made'[t]
    BY <1>1, MadeGrows
  <2>1. \A f \in Calls \ {e} : CallOK(f)'
    BY <1>1, <1>4, <2>0, OthersKept
  <2>2. CallOK(e)'
    BY <1>1, <1>2, <1>4 DEF CallOK
  <2> QED BY <2>1, <2>2 DEF CallInv
<1>8. HealthInv'
  BY <1>1 DEF IInv, HealthInv
<1> QED BY <1>3, <1>6, <1>7, <1>8 DEF IInv

\* The object a retry makes is connected by nobody: every connected one is a
\* call's, and was made before (gql_client.py:136).
LEMMA AlreadyConnectedKeeps ==
    ASSUME IInv, NEW e \in Calls, AlreadyConnected(e)
    PROVE  IInv'
<1> DEFINE t == client[e][1]
           new == <<t, made[t] + 1>>
<1>1. turn = e /\ pc[e] = "connect" /\ CallOK(e) /\ client[e] \in connected
  BY DEF AlreadyConnected, IInv, TypeOK, CallInv
<1>2. attempt[e] = 0 /\ attempt \in [Calls -> 0 .. MaxRetries]
  <2>1. attempt \in [Calls -> 0 .. MaxRetries] /\ attempt[e] \in 0 .. MaxRetries
    BY DEF IInv, TypeOK
  <2>2. attempt[e] <= 1 /\ attempt[e] # 1
    BY <1>1 DEF CallOK
  <2> QED BY <2>1, <2>2
<1>3. t \in Types /\ made[t] \in Nat /\ new \in Clients /\ new # None
  BY <1>1, ClientParts DEF CallOK, IInv, Clients
<1>4. /\ made' = [made EXCEPT ![t] = @ + 1]
      /\ client' = [client EXCEPT ![e] = <<t, made'[t]>>]
      /\ attempt' = [attempt EXCEPT ![e] = @ + 1]
      /\ UNCHANGED <<connected, schemas, available, health, answered, replicaUp>>
  BY DEF AlreadyConnected, SetupClient, healthVars
<1>5. /\ made' \in [Types -> Nat] /\ made'[t] = made[t] + 1
      /\ \A u \in Types \ {t} : made'[u] = made[u]
  <2>1. made \in [Types -> Nat] /\ made' = [made EXCEPT ![t] = made[t] + 1]
    BY <1>4 DEF IInv, TypeOK
  <2> QED BY <1>3, <2>1
<1>6. \A u \in Types : made[u] <= made'[u]
  <2> TAKE u \in Types
  <2>1. made[u] \in Nat
    BY DEF IInv, TypeOK
  <2>2. CASE u = t
    BY <1>5, <2>1, <2>2
  <2>3. CASE u # t
    BY <1>5, <2>1, <2>3
  <2> QED BY <2>2, <2>3
<1>7. client' = [client EXCEPT ![e] = new] /\ attempt' = [attempt EXCEPT ![e] = 1]
  <2>1. <<t, made'[t]>> = new
    BY <1>5
  <2>2. attempt[e] + 1 = 1
    BY <1>2
  <2>3. client' = [client EXCEPT ![e] = <<t, made'[t]>>] /\ attempt' = [attempt EXCEPT ![e] = attempt[e] + 1]
    BY <1>4
  <2> QED BY <2>1, <2>2, <2>3
<1>a. /\ client'[e] = new /\ attempt'[e] = 1
      /\ \A f \in Calls \ {e} : client'[f] = client[f] /\ attempt'[f] = attempt[f]
  BY <1>2, <1>7 DEF IInv, TypeOK
<1>8. \/ 1 < MaxRetries /\ UNCHANGED <<pc, turn>>
      \/ MaxRetries = 1 /\ pc' = [pc EXCEPT ![e] = "nothing"] /\ turn' = None
  BY <1>a DEF AlreadyConnected, Goto
<1>9. /\ \A f \in Calls \ {e} : pc'[f] = pc[f]
      /\ (pc'[e] = "connect" /\ 1 < MaxRetries) \/ (pc'[e] = "nothing" /\ MaxRetries = 1)
  BY <1>1, <1>8 DEF IInv, TypeOK
<1>10. TypeOK'
  <2>1. client' \in [Calls -> Clients \union {None}] /\ attempt' \in [Calls -> 0 .. MaxRetries]
    <3>1. client \in [Calls -> Clients \union {None}]
      BY DEF IInv, TypeOK
    <3>2. 1 \in 0 .. MaxRetries
      OBVIOUS
    <3> QED BY <1>2, <1>3, <1>7, <3>1, <3>2
  <2>2. \A f \in Calls : (pc'[f] = "connect") <=> (turn' = f)
    BY <1>1, <1>8 DEF IInv, TypeOK
  <2>3. pc' \in [Calls -> {"idle", "connect", "execute", "close", "close failed", "fetch"} \union Ended]
    BY <1>8 DEF IInv, TypeOK, Ended
  <2>4. turn' \in Calls \union {None}
    BY <1>1, <1>8
  <2> QED BY <1>4, <1>5, <2>1, <2>2, <2>3, <2>4 DEF IInv, TypeOK
<1>11. SessionPerCall'
  BY <1>1, <1>4, <1>a, <1>9, SessionsKept DEF IInv, InSession
<1>12. new \notin connected
  <2>1. \A f \in Calls : client[f] # new
    <3> SUFFICES ASSUME NEW f \in Calls, client[f] = new PROVE FALSE
      OBVIOUS
    <3>1. client[f] # None /\ client[f][1] = t /\ client[f][2] = made[t] + 1
      BY <1>3
    <3>2. client[f][2] <= made[client[f][1]]
      BY <3>1 DEF IInv, CallInv, CallOK
    <3> QED BY <1>3, <3>1, <3>2
  <2> QED BY <2>1 DEF IInv, SessionPerCall, InSession
<1>13. CallInv'
  <2>1. \A f \in Calls \ {e} : CallOK(f)'
    BY <1>1, <1>4, <1>5, <1>6, <1>a, <1>9, OthersKept
  <2>2. client'[e][2] <= made'[client'[e][1]] /\ (client'[e][1] = "replica" => answered')
    BY <1>1, <1>3, <1>4, <1>5, <1>a DEF CallOK
  <2>3. attempt'[e] <= 1 /\ client'[e] # None /\ client'[e] \notin connected'
    BY <1>3, <1>4, <1>a, <1>12
  <2>4. CallOK(e)'
    BY <1>a, <1>9, <2>2, <2>3 DEF CallOK
  <2> QED BY <2>1, <2>4 DEF CallInv
<1>14. HealthInv'
  BY <1>4 DEF IInv, HealthInv
<1> QED BY <1>10, <1>11, <1>13, <1>14 DEF IInv

\* An answer, or the timeout, leaves the session open until the transport is
\* closed (gql_client.py:139).
LEMMA AnswerKeeps ==
    ASSUME IInv, NEW e \in Calls, Answer(e) \/ Timeout(e)
    PROVE  IInv'
<1>1. /\ turn = None /\ pc[e] = "execute"
      /\ UNCHANGED <<made, connected, schemas, client, attempt, turn, available, health, answered, replicaUp>>
  BY DEF Answer, Timeout, healthVars
<1>2. PICK l \in {"close", "close failed"} : pc' = [pc EXCEPT ![e] = l]
  BY DEF Answer, Timeout, Goto
<1>3. TypeOK'
  BY <1>1, <1>2 DEF IInv, TypeOK, Ended
<1>4. pc'[e] = l /\ \A f \in Calls \ {e} : pc'[f] = pc[f]
  BY <1>2 DEF IInv, TypeOK
<1>5. SessionPerCall'
  BY <1>1, <1>4, SessionsKept DEF IInv, InSession
<1>6. CallInv'
  <2>1. made' \in [Types -> Nat] /\ \A t \in Types : made[t] <= made'[t]
    BY <1>1, MadeGrows
  <2>2. \A f \in Calls \ {e} : CallOK(f)'
    BY <1>1, <1>4, <2>1, OthersKept
  <2>3. CallOK(e)
    BY DEF IInv, CallInv
  <2>4. CallOK(e)'
    BY <1>1, <1>4, <2>3 DEF CallOK
  <2> QED BY <2>2, <2>4 DEF CallInv
<1>7. HealthInv'
  BY <1>1 DEF IInv, HealthInv
<1> QED BY <1>3, <1>5, <1>6, <1>7 DEF IInv

\* Closing a session ends that session only: no other call holds its object.
LEMMA CloseKeeps ==
    ASSUME IInv, NEW e \in Calls, Close(e)
    PROVE  IInv'
<1>1. /\ turn = None /\ pc[e] \in {"close", "close failed"} /\ connected' = connected \ {client[e]}
      /\ UNCHANGED <<made, schemas, client, attempt, turn, available, health, answered, replicaUp>>
  BY DEF Close, healthVars
<1>2. PICK l \in {"done", "failed"} : pc' = [pc EXCEPT ![e] = l]
  BY DEF Close, Goto
<1>3. TypeOK'
  BY <1>1, <1>2 DEF IInv, TypeOK, Ended
<1>4. pc'[e] = l /\ \A f \in Calls \ {e} : pc'[f] = pc[f]
  BY <1>2 DEF IInv, TypeOK
<1>5. e \in InSession /\ InSession' = InSession \ {e}
  BY <1>1, <1>4 DEF InSession
<1>6. SessionPerCall'
  BY <1>1, <1>5 DEF IInv, SessionPerCall
<1>7. CallInv'
  <2>1. made' \in [Types -> Nat] /\ \A t \in Types : made[t] <= made'[t]
    BY <1>1, MadeGrows
  <2>2. \A f \in Calls \ {e} : CallOK(f)'
    BY <1>1, <1>4, <2>1, OthersKept
  <2>3. CallOK(e)
    BY DEF IInv, CallInv
  <2>4. CallOK(e)'
    BY <1>1, <1>4, <2>3 DEF CallOK
  <2> QED BY <2>2, <2>4 DEF CallInv
<1>8. HealthInv'
  BY <1>1 DEF IInv, HealthInv
<1> QED BY <1>3, <1>6, <1>7, <1>8 DEF IInv

\* The beginning of a call on the primary's client, for subscribe and validate.
LEMMA OnPrimary ==
    ASSUME IInv, NEW e \in Calls, turn = None, pc[e] = "idle",
           client' = [client EXCEPT ![e] = Current("primary")],
           NEW l \in {"close failed", "failed", "done", "fetch"}, pc' = [pc EXCEPT ![e] = l],
           connected' \in SUBSET Clients,
           UNCHANGED <<made, schemas, attempt, turn, available, health, answered, replicaUp>>
    PROVE  /\ TypeOK' /\ CallInv' /\ HealthInv'
           /\ client'[e] = Current("primary") /\ pc'[e] = l
           /\ \A f \in Calls \ {e} : client'[f] = client[f] /\ pc'[f] = pc[f]
<1>1. "primary" \in Types
  BY DEF Types
<1>2. /\ Current("primary") \in Clients /\ Current("primary") # None
      /\ Current("primary")[1] = "primary" /\ Current("primary")[2] = made["primary"]
      /\ made["primary"] \in Nat
  BY <1>1, CurrentType DEF IInv
<1>3. TypeOK'
  BY <1>2 DEF IInv, TypeOK, Ended
<1>4. /\ client'[e] = Current("primary") /\ pc'[e] = l
      /\ \A f \in Calls \ {e} : client'[f] = client[f] /\ pc'[f] = pc[f]
  BY DEF IInv, TypeOK
<1>5. CallInv'
  <2>1. made' \in [Types -> Nat] /\ \A t \in Types : made[t] <= made'[t]
    BY MadeGrows
  <2>2. \A f \in Calls \ {e} : CallOK(f)'
    BY <1>4, <2>1, OthersKept
  <2>3. CallOK(e)
    BY DEF IInv, CallInv
  <2>4. client'[e] # None /\ client'[e][1] = "primary" /\ client'[e][2] <= made'[client'[e][1]]
    <3>1. made["primary"] <= made'["primary"]
      BY <1>1, <2>1
    <3> QED BY <1>2, <1>4, <3>1
  <2>5. CallOK(e)'
    BY <1>4, <2>3, <2>4 DEF CallOK
  <2> QED BY <2>2, <2>5 DEF CallInv
<1>6. HealthInv'
  BY DEF IInv, HealthInv
<1> QED BY <1>3, <1>4, <1>5, <1>6

\* subscribe opens a session of its own or none (gql_client.py:68).
LEMMA SubscribeKeeps ==
    ASSUME IInv, NEW e \in Calls, Subscribe(e)
    PROVE  IInv'
<1> DEFINE c == Current("primary")
           l == IF c \in connected THEN "failed" ELSE "close failed"
<1>1. /\ turn = None /\ pc[e] = "idle" /\ client' = [client EXCEPT ![e] = c]
      /\ connected' = connected \union {c} /\ pc' = [pc EXCEPT ![e] = l]
      /\ UNCHANGED <<made, schemas, attempt, turn, available, health, answered, replicaUp>>
  BY DEF Subscribe, Goto, healthVars
<1>2. c \in Clients
  BY CurrentType DEF IInv, Types
<1>3. connected' \in SUBSET Clients
  BY <1>1, <1>2 DEF IInv, TypeOK
<1>4. /\ TypeOK' /\ CallInv' /\ HealthInv' /\ client'[e] = c /\ pc'[e] = l
      /\ \A f \in Calls \ {e} : client'[f] = client[f] /\ pc'[f] = pc[f]
  BY <1>1, <1>3, OnPrimary
<1>5. e \notin InSession
  BY <1>1 DEF InSession
<1>6. CASE c \in connected
  <2>1. connected' = connected
    BY <1>1, <1>6
  <2>0. pc'[e] = "failed"
    BY <1>4, <1>6
  <2>2. \A f \in Calls : f \in InSession' <=> f \in InSession
    BY <1>1, <1>4, <2>0 DEF InSession
  <2>3. SessionPerCall'
    BY <1>4, <1>5, <2>1, <2>2, SessionsKept DEF IInv
  <2> QED BY <1>4, <2>3 DEF IInv
<1>7. CASE c \notin connected
  <2>1. InSession' = InSession \union {e} /\ InSession \subseteq Calls
    BY <1>4, <1>7 DEF InSession
  <2>2. connected = {client[f] : f \in InSession}
           /\ \A f, g \in InSession : client[f] = client[g] => f = g
    BY DEF IInv, SessionPerCall
  <2>a. (\A f \in InSession : client'[f] = client[f] /\ client[f] # c) /\ client'[e] = c
    BY <1>4, <1>5, <1>7, <2>1, <2>2
  <2>3. connected' = {client'[f] : f \in InSession'}
    <3>1. {client'[f] : f \in InSession} = {client[f] : f \in InSession}
      BY <2>a
    <3>2. {client'[f] : f \in InSession'} = {client'[f] : f \in InSession} \union {client'[e]}
      BY <2>1
    <3> QED BY <1>1, <2>2, <2>a, <3>1, <3>2
  <2>4. \A f, g \in InSession' : client'[f] = client'[g] => f = g
    BY <2>1, <2>2, <2>a
  <2> QED BY <1>4, <2>3, <2>4 DEF IInv, SessionPerCall
<1> QED BY <1>6, <1>7

\* validate opens no session (gql_client.py:83).
LEMMA ValidateKeeps ==
    ASSUME IInv, NEW e \in Calls, Validate(e)
    PROVE  IInv'
<1> DEFINE c == Current("primary")
           l == IF c \in schemas THEN "done" ELSE IF c \in connected THEN "fetch" ELSE "failed"
<1>1. /\ turn = None /\ pc[e] = "idle" /\ client' = [client EXCEPT ![e] = c]
      /\ pc' = [pc EXCEPT ![e] = l]
      /\ UNCHANGED <<made, connected, schemas, attempt, turn, available, health, answered, replicaUp>>
  BY DEF Validate, Goto, healthVars
<1>2. connected' \in SUBSET Clients /\ l \in {"failed", "done", "fetch"}
  BY <1>1 DEF IInv, TypeOK
<1>3. /\ TypeOK' /\ CallInv' /\ HealthInv' /\ client'[e] = c /\ pc'[e] = l
      /\ \A f \in Calls \ {e} : client'[f] = client[f] /\ pc'[f] = pc[f]
  BY <1>1, <1>2, OnPrimary
<1>4. SessionPerCall'
  BY <1>1, <1>2, <1>3, SessionsKept DEF IInv, InSession
<1> QED BY <1>3, <1>4 DEF IInv

\* Nor does the answer with the schema, whoever's session it came over.
LEMMA FetchedKeeps ==
    ASSUME IInv, NEW e \in Calls, Fetched(e)
    PROVE  IInv'
<1>1. /\ turn = None /\ pc[e] = "fetch"
      /\ UNCHANGED <<made, connected, client, attempt, turn, available, health, answered, replicaUp>>
  BY DEF Fetched, healthVars
<1>2. CallOK(e)
  BY DEF IInv, CallInv
<1>3. schemas' \in SUBSET Clients
  <2>1. client[e] \in Clients
    BY <1>1, <1>2, ClientParts DEF IInv, CallOK
  <2> QED BY <2>1 DEF Fetched, IInv, TypeOK
<1>4. PICK l \in {"done", "failed"} : pc' = [pc EXCEPT ![e] = l]
  BY DEF Fetched, Goto
<1>5. TypeOK'
  BY <1>1, <1>3, <1>4 DEF IInv, TypeOK, Ended
<1>6. pc'[e] = l /\ \A f \in Calls \ {e} : pc'[f] = pc[f]
  BY <1>4 DEF IInv, TypeOK
<1>7. SessionPerCall'
  BY <1>1, <1>6, SessionsKept DEF IInv, InSession
<1>8. CallInv'
  <2>1. made' \in [Types -> Nat] /\ \A t \in Types : made[t] <= made'[t]
    BY <1>1, MadeGrows
  <2>2. \A f \in Calls \ {e} : CallOK(f)'
    BY <1>1, <1>6, <2>1, OthersKept
  <2>3. CallOK(e)'
    BY <1>1, <1>2, <1>6 DEF CallOK
  <2> QED BY <2>2, <2>3 DEF CallInv
<1>9. HealthInv'
  BY <1>1 DEF IInv, HealthInv
<1> QED BY <1>5, <1>7, <1>8, <1>9 DEF IInv

\* The health check and the replica leave calls and sessions alone; the flag
\* is set on the way that began with an answer 200 (server.py:571).
LEMMA EnvironmentKeeps ==
    ASSUME IInv, Health \/ ReplicaChange
    PROVE  IInv'
<1>1. UNCHANGED <<made, connected, schemas, pc, client, attempt, turn>>
  BY DEF Health, ReplicaChange, callVars
<1>2. HealthInv'
  BY DEF IInv, HealthInv, Health, HealthStart, HealthPrimary, HealthReplica, HealthText,
         ReplicaChange, healthVars
<1>3. answered => answered'
  BY DEF Health, HealthStart, HealthPrimary, HealthReplica, HealthText, ReplicaChange,
         healthVars
<1>4. CallInv'
  BY <1>1, <1>3, AllKept DEF IInv
<1>5. available' \in BOOLEAN /\ health' \in {"idle", "primary", "replica", "text"}
  BY DEF IInv, TypeOK, Health, HealthStart, HealthPrimary, HealthReplica, HealthText,
         ReplicaChange, healthVars
<1>6. replicaUp' \in BOOLEAN /\ answered' \in BOOLEAN
  BY DEF IInv, TypeOK, Health, HealthStart, HealthPrimary, HealthReplica, HealthText,
         ReplicaChange, healthVars
<1>7. TypeOK'
  BY <1>1, <1>5, <1>6 DEF IInv, TypeOK
<1>8. SessionPerCall'
  BY <1>1, SessionsKept DEF IInv, InSession
<1> QED BY <1>2, <1>4, <1>7, <1>8 DEF IInv

\* Every step of the scripts, the health check and the replica keeps the
\* invariant.
LEMMA NextIInv == IInv /\ [Next]_vars => IInv'
<1> SUFFICES ASSUME IInv, [Next]_vars PROVE IInv'
  OBVIOUS
<1>1. CASE \E e \in Calls : Call(e)
  BY <1>1, ExecuteKeeps, ConnectKeeps, AlreadyConnectedKeeps, AnswerKeeps, CloseKeeps,
     SubscribeKeeps, ValidateKeeps, FetchedKeeps DEF Call
<1>2. CASE Health \/ ReplicaChange
  BY <1>2, EnvironmentKeeps
<1>3. CASE UNCHANGED vars
  <2>1. UNCHANGED <<made, connected, schemas, pc, client, attempt, turn, available, health, answered, replicaUp>>
    BY <1>3 DEF vars, callVars, healthVars
  <2>2. CallInv'
    BY <2>1, AllKept DEF IInv
  <2>3. SessionPerCall'
    BY <2>1, SessionsKept DEF IInv, InSession
  <2>4. TypeOK' /\ HealthInv'
    BY <2>1 DEF IInv, TypeOK, HealthInv
  <2> QED BY <2>2, <2>3, <2>4 DEF IInv
<1> QED BY <1>1, <1>2, <1>3 DEF Next

-----------------------------------------------------------------------------
(* The theorems *)

\* The invariant holds in every state of the client.
THEOREM Invariance == Spec => []IInv
  BY InitIInv, NextIInv, PTL DEF Spec

\* Every variable has its type, and the coroutine that has the turn is the one
\* that is connecting.
THEOREM TypeCorrectness == Spec => []TypeOK
<1>1. IInv => TypeOK BY DEF IInv
<1> QED BY <1>1, Invariance, PTL

\* However many scripts share the client, each execution has a session of its
\* own, and no session stays open without one (gql_client.py:134).
THEOREM SessionsSeparate == Spec => []SessionPerCall
<1>1. IInv => SessionPerCall BY DEF IInv
<1> QED BY <1>1, Invariance, PTL

\* Two attempts, of the three the code makes, are enough for execute never to
\* end without a result or an exception (gql_client.py:132).
THEOREM RetryLoopSuffices == ASSUME MaxRetries >= 2 PROVE Spec => []NeverSilentNone
<1>1. MaxRetries # 1
  OBVIOUS
<1>2. IInv => NeverSilentNone
  BY <1>1 DEF IInv, CallInv, CallOK, NeverSilentNone
<1> QED BY <1>2, Invariance, PTL

\* An execution goes to a replica only after the replica answered a health
\* check (gql_client.py:121, server.py:571).
THEOREM ReplicaSeen == Spec => []ReplicaSeenHealthy
<1>1. IInv => ReplicaSeenHealthy
  BY DEF IInv, CallInv, CallOK, ReplicaSeenHealthy
<1> QED BY <1>1, Invariance, PTL
=============================================================================
