------------------------------ MODULE Readiness ------------------------------
(***************************************************************************)
(* What the engine supervisor promises the HTTP endpoints: two contexts    *)
(* that end once.  startupCtx ends when the scripting server and the       *)
(* primary engine were seen healthy, or else by its deadline or the end of *)
(* the server; startupReadonlyCtx when the replica was seen healthy, or    *)
(* else by its later deadline or the end of the server.  Supervisor is     *)
(* shown to implement this module, and Gateway is built on it.             *)
(***************************************************************************)
VARIABLES
    startup,    \* startupCtx: open, ended by its done function, or over
    readonly,   \* startupReadonlyCtx
    healthy     \* the child servers that answer their health checks

ctxs == <<startup, readonly, healthy>>

Servers == {"scripting", "primary", "replica"}
Ctx == {"open", "ready", "over"}

Init ==
    /\ startup = "open" /\ readonly = "open"
    /\ healthy = {}

StartupReady ==
    /\ startup = "open"
    /\ {"scripting", "primary"} \subseteq healthy
    /\ startup' = "ready"
    /\ UNCHANGED <<readonly, healthy>>

StartupOver ==
    /\ startup = "open"
    /\ startup' = "over"
    /\ UNCHANGED <<readonly, healthy>>

ReadonlyReady ==
    /\ readonly = "open"
    /\ "replica" \in healthy
    /\ readonly' = "ready"
    /\ UNCHANGED <<startup, healthy>>

\* Its deadline is the later one.
ReadonlyOver ==
    /\ readonly = "open" /\ startup # "open"
    /\ readonly' = "over"
    /\ UNCHANGED <<startup, healthy>>

\* mainCtx is cancelled, or the process ends.
Cancelled ==
    /\ startup' = IF startup = "open" THEN "over" ELSE startup
    /\ readonly' = IF readonly = "open" THEN "over" ELSE readonly
    /\ UNCHANGED healthy

\* A server that is down may come up, one that answered may stop to.
HealthChange ==
    /\ \E s \in Servers : healthy' = healthy \union {s} \/ healthy' = healthy \ {s}
    /\ UNCHANGED <<startup, readonly>>

\* A context ends.
ContextEnds == StartupReady \/ StartupOver \/ ReadonlyReady \/ ReadonlyOver \/ Cancelled

Next == ContextEnds \/ HealthChange

\* The deadlines bound the wait for both.
Spec == Init /\ [][Next]_ctxs /\ WF_ctxs(ContextEnds)
=============================================================================
