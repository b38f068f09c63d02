------------------------------ MODULE MCGateway ------------------------------
(***************************************************************************)
(* A small instance of Gateway: a cached query meets another request, of   *)
(* each kind: the same query again, by the same user with a renewed token, *)
(* by another user, with other variables, some of which print alike, with  *)
(* a short Authorization, a refresh, and everything else the endpoints     *)
(* take.                                                                   *)
(***************************************************************************)
EXTENDS Gateway, TLC

CONSTANTS r1, r2

Doc(lead, cached, param, value) ==
    [lead |-> lead, cached |-> cached, param |-> param, value |-> value]

Plain == Doc("query", FALSE, "none", 0)
Cached == Doc("query", TRUE, "none", 0)
Long == Doc("query", TRUE, "ttl", 9)
Refresh == Doc("query", TRUE, "refresh", TrueParam)

\* Header lines by rank; the lines 3 and 5 are claims that a renewal changes.
Accept == [class |-> "plain", line |-> 2]
Agent == [class |-> "notCached", line |-> 9]
Short == [class |-> "short", line |-> 7]
Token(sub, id) == [class |-> "bearer", claims |-> [jti |-> id, sub |-> sub]]

Alice == {Accept, Token(4, 3)}
AliceRenewed == {Accept, Agent, Token(4, 5)}
Bob == {Accept, Token(1, 3)}

Request(path, query, doc, user, headers) ==
    [path |-> path, query |-> query, operationName |-> "A", variables |-> [value |-> "number", text |-> "x"], user |-> user,
     headers |-> headers, doc |-> doc, secret |-> "none", execUrl |-> FALSE]

Q == Request("ro", "cached", Cached, "alice", Alice)

CachedQueries ==
    {Q, [Q EXCEPT !.headers = AliceRenewed], [Q EXCEPT !.headers = Bob, !.user = "bob"],
     [Q EXCEPT !.variables = [value |-> "other", text |-> "y"]],
     [Q EXCEPT !.variables.value = "string"], [Q EXCEPT !.headers = {Accept, Short}, !.user = "carol"],
     [Q EXCEPT !.path = "rw", !.query = "long", !.doc = Long],
     [Q EXCEPT !.query = "refresh", !.doc = Refresh]}

Others ==
    {Request(path, "write", Doc(lead, FALSE, "none", 0), "alice", Alice) :
        path \in {"rw", "ro"}, lead \in {"mutation", "other"}}
    \union {[Q EXCEPT !.query = None],
            Request("rw", "watch", Doc("subscription", FALSE, "none", 0), "alice", Alice),
            Request("rw", "plain", Plain, "bob", Bob)}
    \union {[Q EXCEPT !.path = p] : p \in {"/health", "health", "meta"}}
    \union {[Q EXCEPT !.path = "scripting", !.secret = s, !.execUrl = u] :
                s \in {"none", "right"}, u \in BOOLEAN}

MCRequests == {r1, r2}

MCTraffic == {(r1 :> Q) @@ (r2 :> b) : b \in CachedQueries \union Others}

Config(replica, weight, redis, maxTTL, allow) ==
    [replica |-> replica, weight |-> weight, redis |-> redis, maxTTL |-> maxTTL, allowExecUrl |-> allow]

MCConfigs ==
    {Config(TRUE, 50, TRUE, 5, FALSE), Config(FALSE, 50, FALSE, 5, TRUE),
     Config(TRUE, 0, TRUE, 0, FALSE), Config(TRUE, 100, TRUE, -1, FALSE)}
=============================================================================
