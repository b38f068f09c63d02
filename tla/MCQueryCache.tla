---------------------------- MODULE MCQueryCache ----------------------------
(* Small instances of QueryCache: two nodes, one of them with two requests. *)
EXTENDS QueryCache, TLC

CONSTANTS n1, n2, r1, r2, r3

MCNodes == {n1, n2}
MCRequests == {r1, r2, r3}
MCNodeOf == (r1 :> n1) @@ (r2 :> n1) @@ (r3 :> n2)
=============================================================================
