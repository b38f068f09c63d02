----------------------------- MODULE GqlClient ------------------------------
(***************************************************************************)
(* The GraphQL client that a scripting server shares between its scripts   *)
(* (GqlAsyncClient): one client object per engine, each connected for the  *)
(* length of one execution, and replaced by a new one when an execution    *)
(* finds it connected.  The health check that allows the replica is here   *)
(* too, as it sets the client's flag.                                      *)
(*                                                                         *)
(* The scripts are coroutines of one thread: "turn" is the one that runs   *)
(* between choosing a client and the first await that suspends it.  The    *)
(* HTTP transport connects without suspending, and refuses to connect      *)
(* twice; both are facts of the gql library.                               *)
(***************************************************************************)
EXTENDS Naturals

CONSTANTS
    Calls,       \* calls of execute, subscribe or validate, each made once
    Weight,      \* primary_weight_vs_replica
    MaxRetries,  \* GqlAsyncClient.max_retries
    HasReplica,  \* HASURA_GRAPHQL_READ_REPLICA_URLS is set
    None         \* nobody's turn, no client

ASSUME WeightAssumption == Weight \in Nat
ASSUME MaxRetriesAssumption == MaxRetries \in Nat \ {0}
ASSUME HasReplicaAssumption == HasReplica \in BOOLEAN

Types == {"primary", "replica", "go"}
Clients == Types \X Nat

ASSUME NoneAssumption == None \notin Calls /\ None \notin Clients

VARIABLES
    made,       \* client objects replaced so far, by type: the last is in use
    connected,  \* objects whose transport is connected
    schemas,    \* objects that have fetched the schema
    pc,         \* where each call is
    client,     \* the object it works with
    attempt,    \* its position in the retry loop
    turn,       \* the coroutine that runs
    available,  \* _client_ro_available
    health,     \* where the health check is
    answered,   \* history: whether a health check got a 200 from the replica
    replicaUp   \* the replica answers 200

callVars == <<pc, client, attempt, turn>>
healthVars == <<available, health, answered>>
vars == <<made, connected, schemas, callVars, healthVars, replicaUp>>

Init ==
    /\ made = [t \in Types |-> 0]
    /\ connected = {} /\ schemas = {}
    /\ pc = [e \in Calls |-> "idle"]
    /\ client = [e \in Calls |-> None]
    /\ attempt = [e \in Calls |-> 0]
    /\ turn = None
    /\ available = FALSE /\ health = "idle" /\ answered = FALSE
    /\ replicaUp = FALSE

\* self._client, self._client_ro or self._client_go
Current(t) == <<t, made[t]>>

Goto(e, l) == pc' = [pc EXCEPT ![e] = l]

-----------------------------------------------------------------------------
(* execute *)

\* The engines a document may be sent to; the weight is drawn.
ClientTypes(document) ==
    CASE document = "mutation" -> {"primary"}
      [] document = "cached" -> {"go"}
      [] OTHER -> IF ~ available \/ Weight >= 100 THEN {"primary"}
                  ELSE {"replica"} \union (IF Weight > 0 THEN {"primary"} ELSE {})

\* Mutant: the call is suspended between choosing the client and connecting.
ExecuteSuspends(e, document) ==
    /\ turn = None /\ pc[e] = "idle"
    /\ \E t \in ClientTypes(document) : client' = [client EXCEPT ![e] = Current(t)]
    /\ Goto(e, "connect")
    /\ UNCHANGED <<made, connected, schemas, attempt, turn, healthVars, replicaUp>>

\* The client is chosen, and connected in the same turn.
Execute(e, document) ==
    /\ turn = None /\ pc[e] = "idle"
    /\ \E t \in ClientTypes(document) : client' = [client EXCEPT ![e] = Current(t)]
    /\ turn' = e
    /\ Goto(e, "connect")
    /\ UNCHANGED <<made, connected, schemas, attempt, healthVars, replicaUp>>

\* Mutant: a client that is connected is used as it is.
ConnectShared(e) ==
    /\ turn = e
    /\ connected' = connected \union {client[e]}
    /\ turn' = None
    /\ Goto(e, "execute")
    /\ UNCHANGED <<made, schemas, client, attempt, healthVars, replicaUp>>

\* async with client: it connects, and the request is sent.
Connect(e) ==
    /\ turn = e
    /\ client[e] \notin connected
    /\ connected' = connected \union {client[e]}
    /\ turn' = None
    /\ Goto(e, "execute")
    /\ UNCHANGED <<made, schemas, client, attempt, healthVars, replicaUp>>

\* Mutant: the retry goes on with the client it had.
SetupClientUnused(e) ==
    LET t == client[e][1]
    IN  made' = [made EXCEPT ![t] = @ + 1] /\ UNCHANGED client

\* setup_client: a new object replaces the one in use, and the call takes it.
SetupClient(e) ==
    LET t == client[e][1]
    IN  /\ made' = [made EXCEPT ![t] = @ + 1]
        /\ client' = [client EXCEPT ![e] = <<t, made'[t]>>]

\* TransportAlreadyConnected: another attempt, or after the last one the end
\* of the loop, and of execute, with no result and no exception.
AlreadyConnected(e) ==
    /\ turn = e
    /\ client[e] \in connected
    /\ SetupClient(e)
    /\ attempt' = [attempt EXCEPT ![e] = @ + 1]
    /\ IF attempt'[e] < MaxRetries
       THEN UNCHANGED <<pc, turn>>
       ELSE Goto(e, "nothing") /\ turn' = None
    /\ UNCHANGED <<connected, schemas, healthVars, replicaUp>>

\* The engine answers, or the request fails.
Answer(e) ==
    /\ turn = None /\ pc[e] = "execute"
    /\ Goto(e, "close") \/ Goto(e, "close failed")
    /\ UNCHANGED <<made, connected, schemas, client, attempt, turn, healthVars, replicaUp>>

\* Mutant: only the clients of the first setup have a timeout.
TimeoutFirst(e) ==
    /\ turn = None /\ pc[e] = "execute" /\ client[e][2] = 0
    /\ Goto(e, "close failed")
    /\ UNCHANGED <<made, connected, schemas, client, attempt, turn, healthVars, replicaUp>>

\* execute_timeout is over.
Timeout(e) ==
    /\ turn = None /\ pc[e] = "execute"
    /\ Goto(e, "close failed")
    /\ UNCHANGED <<made, connected, schemas, client, attempt, turn, healthVars, replicaUp>>

\* The end of async with: the transport is closed, which suspends first.
Close(e) ==
    /\ turn = None /\ pc[e] \in {"close", "close failed"}
    /\ connected' = connected \ {client[e]}
    /\ Goto(e, IF pc[e] = "close" THEN "done" ELSE "failed")
    /\ UNCHANGED <<made, schemas, client, attempt, turn, healthVars, replicaUp>>

-----------------------------------------------------------------------------
(* subscribe and validate *)

\* The primary's client is connected, or the call raises that it already is;
\* the HTTP transport has no subscriptions, so the call fails and closes it.
Subscribe(e) ==
    LET c == Current("primary")
    IN  /\ turn = None /\ pc[e] = "idle"
        /\ client' = [client EXCEPT ![e] = c]
        /\ connected' = connected \union {c}
        /\ Goto(e, IF c \in connected THEN "failed" ELSE "close failed")
        /\ UNCHANGED <<made, schemas, attempt, turn, healthVars, replicaUp>>

\* The schema is fetched over the session of an execution under way, without
\* one the call fails.
Validate(e) ==
    LET c == Current("primary")
    IN  /\ turn = None /\ pc[e] = "idle"
        /\ client' = [client EXCEPT ![e] = c]
        /\ Goto(e, IF c \in schemas THEN "done"
                   ELSE IF c \in connected THEN "fetch" ELSE "failed")
        /\ UNCHANGED <<made, connected, schemas, attempt, turn, healthVars, replicaUp>>

\* The schema is there if the session stayed open; the document is validated
\* against the client that is in use by now, which may have none.
Fetched(e) ==
    LET ok == client[e] \in connected
    IN  /\ turn = None /\ pc[e] = "fetch"
        /\ \/ /\ ok
              /\ schemas' = schemas \union {client[e]}
              /\ Goto(e, IF Current("primary") \in schemas' THEN "done" ELSE "failed")
           \/ Goto(e, "failed") /\ UNCHANGED schemas
        /\ UNCHANGED <<made, connected, client, attempt, turn, healthVars, replicaUp>>

-----------------------------------------------------------------------------
(* healthcheck_graphql_engine, and the replica *)

HealthStart ==
    /\ health = "idle"
    /\ health' = "primary"
    /\ UNCHANGED <<available, answered>>

\* The primary has answered, or has not (an exception); the replica is asked
\* next if there is one and the request does not exclude it.
HealthPrimary ==
    /\ health = "primary"
    /\ health' \in {"idle"} \union (IF HasReplica THEN {"replica"} ELSE {})
    /\ UNCHANGED <<available, answered>>

\* Mutant: any answer of the replica will do.
HealthReplicaAny ==
    /\ health = "replica"
    /\ \/ replicaUp /\ health' = "text" /\ answered' = TRUE
       \/ health' \in {"text", "idle"} /\ UNCHANGED answered
    /\ UNCHANGED available

\* The status of the replica's answer; its body is still to be read.
HealthReplica ==
    /\ health = "replica"
    /\ \/ replicaUp /\ health' = "text" /\ answered' = TRUE
       \/ health' = "idle" /\ UNCHANGED answered
    /\ UNCHANGED available

\* The body is there, or the connection breaks.
HealthText ==
    /\ health = "text"
    /\ health' = "idle"
    /\ available' \in {TRUE, available}
    /\ UNCHANGED answered

Health ==
    /\ turn = None
    /\ HealthStart \/ HealthPrimary \/ HealthReplica \/ HealthText
    /\ UNCHANGED <<made, connected, schemas, callVars, replicaUp>>

\* The replica becomes healthy, or stops being so.
ReplicaChange ==
    /\ HasReplica
    /\ replicaUp' = ~ replicaUp
    /\ UNCHANGED <<made, connected, schemas, callVars, healthVars>>

-----------------------------------------------------------------------------
Call(e) ==
    \/ \E document \in {"mutation", "cached", "query"} : Execute(e, document)
    \/ Connect(e) \/ AlreadyConnected(e) \/ Answer(e) \/ Timeout(e) \/ Close(e)
    \/ Subscribe(e) \/ Validate(e) \/ Fetched(e)

Next == (\E e \in Calls : Call(e)) \/ Health \/ ReplicaChange

\* The event loop runs what is ready: a coroutine that has the turn, and one
\* that waits for its transport to close, for the schema (a request that ends
\* by aiohttp's own default timeout, not by execute_timeout), or for its own
\* timeout.  An answer may never come.
Fairness == \A e \in Calls :
    /\ WF_vars(Connect(e) \/ AlreadyConnected(e))
    /\ WF_vars(Timeout(e)) /\ WF_vars(Close(e)) /\ WF_vars(Fetched(e))

Spec == Init /\ [][Next]_vars
FairSpec == Spec /\ Fairness

-----------------------------------------------------------------------------
(* Properties *)

Ended == {"done", "failed", "nothing"}

\* Every variable has its type, and the coroutine that has the turn is the
\* one that is connecting.
TypeOK ==
    /\ made \in [Types -> Nat]
    /\ connected \in SUBSET Clients /\ schemas \in SUBSET Clients
    /\ pc \in [Calls -> {"idle", "connect", "execute", "close", "close failed", "fetch"} \union Ended]
    /\ client \in [Calls -> Clients \union {None}]
    /\ attempt \in [Calls -> 0..MaxRetries]
    /\ turn \in Calls \union {None}
    /\ available \in BOOLEAN /\ health \in {"idle", "primary", "replica", "text"}
    /\ replicaUp \in BOOLEAN /\ answered \in BOOLEAN
    /\ \A e \in Calls : (pc[e] = "connect") <=> (turn = e)

InSession == {e \in Calls : pc[e] \in {"execute", "close", "close failed"}}

\* Sessions are never shared and never leak: the connected clients are
\* exactly those of the calls between connect and close, each has one call,
\* and no call's session is closed by another (gql_client.py:134).
SessionPerCall ==
    /\ connected = {client[e] : e \in InSession}
    /\ \A e, f \in InSession : client[e] = client[f] => e = f

\* The retry loop never runs out: execute returns a result or raises, however
\* many scripts share the client (gql_client.py:132).
NeverSilentNone == \A e \in Calls : pc[e] # "nothing"

\* No execution goes to a replica that never answered 200 to a health check
\* (gql_client.py:121, server.py:571).
ReplicaSeenHealthy ==
    \A e \in Calls : client[e] # None /\ client[e][1] = "replica" => answered

\* Every call ends, whether or not the engine answers (gql_client.py:48).
CallsEnd == \A e \in Calls : (pc[e] # "idle") ~> (pc[e] \in Ended)
=============================================================================
