----------------------------- MODULE MCExecCache -----------------------------
(* Small instances of ExecCache: two servers, two calls on one of them, an
   image and two other versions. *)
EXTENDS ExecCache, TLC

CONSTANTS s1, s2, c1, c2, v0, v1, v2

MCServers == {s1, s2}
MCCalls == {c1, c2}
MCServerOf == (c1 :> s1) @@ (c2 :> s1)
MCVersions == {v0, v1, v2}

\* Two texts of as many bytes, one of them not ASCII.
MCChars == (v0 :> 1) @@ (v1 :> 2) @@ (v2 :> 3)
MCBytes == (v0 :> 1) @@ (v1 :> 3) @@ (v2 :> 3)
=============================================================================
