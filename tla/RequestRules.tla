----------------------------- MODULE RequestRules ----------------------------
(***************************************************************************)
(* How a GraphQL request is classified, for how long its response may be   *)
(* cached, and under which key.                                            *)
(*                                                                         *)
(* A document is what the regular expressions tell apart: the word it      *)
(* begins with, whether @cached follows the first line of a query, and the *)
(* parameter of that directive.  A header is the class its name and value  *)
(* put it into.  A header line (its name and value, or its name and one    *)
(* claim of its token) is the string that is printed for it, given by its  *)
(* rank in the order of strings: claims that print alike are one line.     *)
(* Variables are a value and the text fmt.Sprint prints for it, which      *)
(* other values may share.  fnv64a over the sequence of these texts is     *)
(* taken to be injective.                                                  *)
(***************************************************************************)
EXTENDS Integers, FiniteSets

\* The value `true' of a parameter of @cached.
TrueParam == -1

-----------------------------------------------------------------------------
(* Classification: the expressions are anchored, they see the first word *)

IsMutationGraphQLRequest(doc) == doc.lead = "mutation"

IsSubscriptionGraphQLRequest(doc) == doc.lead = "subscription"

\* Mutant: the maximum is not applied.
TTLUncapped(doc, maxTTL) ==
    CASE ~ (doc.lead = "query" /\ doc.cached) -> 0
      [] doc.param = "ttl" /\ doc.value # TrueParam -> doc.value
      [] doc.param = "refresh" /\ doc.value = TrueParam -> 0
      [] OTHER -> maxTTL

\* The time to live of the response, 0 when it is not cached, -1 when it does
\* not end.  A parameter list the expression does not match, or a number that
\* does not convert, gives the maximum; so does, below it, any ttl.
IsCachedQueryGraphQLRequest(doc, maxTTL) ==
    CASE ~ (doc.lead = "query" /\ doc.cached) -> 0
      [] doc.param = "ttl" /\ doc.value # TrueParam -> IF doc.value > maxTTL THEN maxTTL ELSE doc.value
      [] doc.param = "refresh" /\ doc.value = TrueParam -> 0
      [] OTHER -> maxTTL

-----------------------------------------------------------------------------
(* The cache key *)

\* The claims that change when a token is renewed.
RenewedClaims == {"exp", "nbf", "iat", "jti"}

\* Mutant: the token's own identifier stays in.
HeaderLinesWithId(h) ==
    CASE h.class = "notCached" -> {}
      [] h.class = "bearer" -> {h.claims[c] : c \in DOMAIN h.claims \ {"exp", "nbf", "iat"}}
      [] OTHER -> {h.line}

\* An Authorization value of less than 7 bytes: slicing it panics.
Panics(req) == \E h \in req.headers : h.class = "short"

\* What a header adds to the key.  A token that does not parse is an ordinary
\* value.  Only Authorization is looked at: the header name of the JWT
\* configuration is read before the environment is, and is empty.
HeaderLines(h) ==
    CASE h.class = "notCached" -> {}
      [] h.class = "bearer" -> {h.claims[c] : c \in DOMAIN h.claims \ RenewedClaims}
      [] OTHER -> {h.line}

\* All of them; a map of headers, and of claims, is walked in any order.
KeyLines(req) == UNION {HeaderLines(h) : h \in req.headers}

WalkOrders(lines) == {s \in [1 .. Cardinality(lines) -> lines] : {s[i] : i \in DOMAIN s} = lines}

\* sort.Strings.
Sorted(walk) ==
    CHOOSE s \in WalkOrders({walk[i] : i \in DOMAIN walk}) :
        \A i, j \in DOMAIN s : i < j => s[i] < s[j]

\* fmt.Sprint: the number 1 and the string "1" are the same text.
Sprint(variables) == variables.text

\* Mutant: the lines are hashed in the order of the walk.
CalculateCacheKeyUnsorted(req, walk) ==
    [family |-> <<req.query, req.operationName, walk>>, variables |-> Sprint(req.variables)]

\* Mutant: the variables are left to the family key.
CalculateCacheKeyFamily(req, walk) ==
    [family |-> <<req.query, req.operationName, Sorted(walk)>>, variables |-> "any"]

CalculateCacheKey(req, walk) ==
    [family |-> <<req.query, req.operationName, Sorted(walk)>>, variables |-> Sprint(req.variables)]

\* Who asks what, as the key sees it and as the engine does: it answers two
\* requests of the same identity alike.
LooksAlike(req, other) ==
    /\ req.query = other.query /\ req.operationName = other.operationName
    /\ KeyLines(req) = KeyLines(other)
    /\ Sprint(req.variables) = Sprint(other.variables)

Identity(req) == <<req.query, req.operationName, req.user, req.variables>>
=============================================================================
