----------------------------- MODULE Supervisor -----------------------------
(***************************************************************************)
(* The life of one GraphQL Engine Plus server process: it launches the     *)
(* scripting server, the primary engine and, when read replicas are        *)
(* configured, the replica engine; waits for them to become ready; watches *)
(* them; and shuts everything down when one of them exits, when its HTTP   *)
(* server cannot listen, or on a signal.                                   *)
(*                                                                         *)
(* Time is a clock of coarse ticks.  What the process's own goroutines do  *)
(* takes a few seconds at most and happens between two ticks; how long a   *)
(* child takes, to become ready or to end, is not bounded.                 *)
(***************************************************************************)
EXTENDS Naturals

CONSTANTS
    StartupTimeout,     \* the deadline of startupCtx (60 s), in ticks
    ReadonlyTimeout,    \* the deadline of startupReadonlyCtx (180 s)
    ShutdownTimeout,    \* GRACEFUL_SHUTDOWN_TIMEOUT (30 s)
    CleanUps            \* the clean-up operations besides the engine servers'

ASSUME CleanUpsAssumption ==
    /\ "http-server" \in CleanUps
    /\ CleanUps \subseteq {"http-server", "cache-clients", "opentelemetry-tracer"}

ASSUME TimeoutsAssumption ==
    /\ {StartupTimeout, ReadonlyTimeout, ShutdownTimeout} \subseteq Nat \ {0}
    /\ ShutdownTimeout < StartupTimeout /\ StartupTimeout < ReadonlyTimeout

VARIABLES
    procs,          \* the configured child processes
    phase,          \* where StartGraphqlEngineServers is
    proc,           \* the state of each child process
    reaped,         \* children whose end was seen: their ProcessState is set
    waited,         \* children whose Wait has returned
    mainDone,       \* mainCtx is cancelled
    startup,        \* startupCtx
    readonly,       \* startupReadonlyCtx
    clock,          \* ticks since the contexts were made
    engineErr,      \* the error the engine servers' clean-up reports
    shutdown,       \* the clean-up operations were started
    grace,          \* ticks left until the forced exit
    engineOp,       \* the clean-up of the engine servers
    pending,        \* the other clean-up operations that have not ended
    cleanErr,       \* one of them ended with an error
    exit,           \* how the server process ended
    early           \* history: the shutdown began before startup was over

procVars == <<procs, proc, reaped, waited>>
ctxVars == <<mainDone, startup, readonly>>
cleanVars == <<engineErr, shutdown, grace, engineOp, pending, cleanErr, exit, early>>
vars == <<phase, clock, procVars, ctxVars, cleanVars>>

-----------------------------------------------------------------------------
Ended == {"exited", "signal"}       \* ProcessState.Exited(), killed by a signal

Running(p) == proc[p] \in {"starting", "ready"}
Launched == {p \in procs : proc[p] # "absent"}

\* startServerCtx is a child of mainCtx, cancelled by the clean-up.
serverDone == mainDone \/ engineOp # "idle"

\* mainCtxCancelFn: the contexts made from mainCtx end with it.
CancelMain ==
    /\ mainDone' = TRUE
    /\ startup' = IF startup = "open" THEN "over" ELSE startup
    /\ readonly' = IF readonly = "open" THEN "over" ELSE readonly

Init ==
    /\ procs \in {{"scripting", "primary"}, {"scripting", "primary", "replica"}}
    /\ phase = "launch"
    /\ proc = [p \in procs |-> "absent"]
    /\ reaped = {} /\ waited = {}
    /\ mainDone = FALSE
    /\ startup = "open" /\ readonly = "open"
    /\ clock = 0
    /\ engineErr = FALSE
    /\ shutdown = FALSE /\ grace = ShutdownTimeout /\ engineOp = "idle"
    /\ pending = CleanUps
    /\ cleanErr = FALSE
    /\ exit = "none"
    /\ early = FALSE

-----------------------------------------------------------------------------
(* Launching, in order: scripting server, primary, replica *)

NextToLaunch(p) ==
    /\ p \in procs /\ proc[p] = "absent"
    /\ p = "primary" => proc["scripting"] # "absent"
    /\ p = "replica" => proc["primary"] # "absent"

\* Mutant: the replica is not launched.
LaunchTwo(p) ==
    /\ phase = "launch" /\ NextToLaunch(p)
    /\ ~ serverDone
    /\ proc' = [proc EXCEPT ![p] = "starting"]
    /\ phase' = IF p = "primary" THEN "startup" ELSE "launch"
    /\ UNCHANGED <<clock, procs, reaped, waited, ctxVars, cleanVars>>

Launch(p) ==
    /\ phase = "launch" /\ NextToLaunch(p)
    /\ ~ serverDone
    /\ proc' = [proc EXCEPT ![p] = "starting"]
    /\ phase' = IF \A q \in procs \ {p} : proc[q] # "absent" THEN "startup" ELSE "launch"
    /\ UNCHANGED <<clock, procs, reaped, waited, ctxVars, cleanVars>>

\* Start fails (always, once the context is done): os.Exit(1).
LaunchFail(p) ==
    /\ phase = "launch" /\ NextToLaunch(p)
    /\ exit' = "abort"
    /\ UNCHANGED <<phase, clock, procVars, ctxVars, engineErr, shutdown, grace, engineOp,
                   pending, cleanErr, early>>

-----------------------------------------------------------------------------
(* The children *)

BecomeReady(p) ==
    /\ proc[p] = "starting"
    /\ proc' = [proc EXCEPT ![p] = "ready"]
    /\ UNCHANGED <<phase, clock, procs, reaped, waited, ctxVars, cleanVars>>

\* A child ends by itself.
Crash(p) ==
    /\ Running(p)
    /\ \E how \in Ended : proc' = [proc EXCEPT ![p] = how]
    /\ UNCHANGED <<phase, clock, procs, reaped, waited, ctxVars, cleanVars>>

\* Cmd.Cancel: SIGTERM for the first two, the default SIGKILL for the replica.
Terminate(p) ==
    /\ Running(p)
    /\ serverDone
    /\ \E how \in (IF p = "replica" THEN {"signal"} ELSE Ended) : proc' = [proc EXCEPT ![p] = how]
    /\ UNCHANGED <<phase, clock, procs, reaped, waited, ctxVars, cleanVars>>

\* Cmd.Wait, called for every child when it is launched, sees its end, sets
\* ProcessState and returns; except that for the replica, whose output is not
\* a file, it goes on to wait for the copying of the output.
Reap(p) ==
    /\ proc[p] \in Ended
    /\ p \notin reaped
    /\ reaped' = reaped \union {p}
    /\ waited' = waited \union ({p} \ {"replica"})
    /\ UNCHANGED <<phase, clock, procs, proc, ctxVars, cleanVars>>

\* The Wait for the replica returns.  ReplicaLog models what it waits for: here
\* nothing promises that it ever does.
WaitReturn ==
    /\ "replica" \in reaped \ waited
    /\ waited' = waited \union {"replica"}
    /\ UNCHANGED <<phase, clock, procs, proc, reaped, ctxVars, cleanVars>>

-----------------------------------------------------------------------------
(* Startup *)

\* Mutant: the health check forgets the primary.
EngineHealthScripting(engines) == proc["scripting"] = "ready"

\* healthcheck_graphql_engine: the scripting server answers 200 when all the
\* engines it is asked to look at do.
EngineHealth(engines) == \A p \in {"scripting"} \union engines : proc[p] = "ready"

StartupReady ==
    /\ phase = "startup" /\ startup = "open"
    /\ EngineHealth({"primary"})
    /\ startup' = "ready"
    /\ phase' = "monitor"
    /\ UNCHANGED <<clock, procVars, mainDone, readonly, cleanVars>>

\* Mutant: the loop gives up only when mainCtx is cancelled.
StartupGiveUpCancelled ==
    /\ phase = "startup" /\ mainDone
    /\ phase' = "monitor"
    /\ UNCHANGED <<clock, procVars, ctxVars, cleanVars>>

\* The loop looks at startupCtx only: a signal, which cancels startServerCtx
\* alone, does not end it.
StartupGiveUp ==
    /\ phase = "startup" /\ startup # "open"
    /\ phase' = "monitor"
    /\ UNCHANGED <<clock, procVars, ctxVars, cleanVars>>

\* The goroutine that probes the replica, launched with it, saw it healthy.
ReplicaReady ==
    /\ "replica" \in procs /\ readonly = "open"
    /\ proc["replica"] = "ready"
    /\ readonly' = "ready"
    /\ UNCHANGED <<phase, clock, procVars, mainDone, startup, cleanVars>>

StartupDeadline ==
    /\ startup = "open" /\ clock = StartupTimeout
    /\ startup' = "over"
    /\ UNCHANGED <<phase, clock, procVars, mainDone, readonly, cleanVars>>

ReadonlyDeadline ==
    /\ readonly = "open" /\ clock = ReadonlyTimeout
    /\ readonly' = "over"
    /\ UNCHANGED <<phase, clock, procVars, mainDone, startup, cleanVars>>

-----------------------------------------------------------------------------
(* The monitor loop *)

\* Some child's ProcessState is set: cancel mainCtx, which the next round sees.
MonitorExit ==
    /\ phase = "monitor" /\ ~ serverDone
    /\ reaped # {}
    /\ CancelMain
    /\ UNCHANGED <<phase, clock, procVars, cleanVars>>

MonitorDone ==
    /\ phase = "monitor" /\ serverDone
    /\ phase' = "waitAll"
    /\ UNCHANGED <<clock, procVars, ctxVars, cleanVars>>

\* A child that Exited(), with whatever code, counts as a success.
CaptureError == engineErr' = (\E p \in reaped \ {"replica"} : proc[p] = "signal")

\* Mutant: the report does not wait for the children.
WaitAllSkipped ==
    /\ phase = "waitAll"
    /\ CaptureError
    /\ phase' = "report"
    /\ UNCHANGED <<clock, procVars, ctxVars, shutdown, grace, engineOp, pending, cleanErr, exit, early>>

\* wg.Wait(), then the errors are collected.
WaitAll ==
    /\ phase = "waitAll"
    /\ Launched \subseteq waited
    /\ CaptureError
    /\ phase' = "report"
    /\ UNCHANGED <<clock, procVars, ctxVars, shutdown, grace, engineOp, pending, cleanErr, exit, early>>

\* Mutant: nothing is sent when there is no error.
ReportErrorsOnly ==
    /\ phase = "report" /\ engineOp = "wait"
    /\ phase' = "closed"
    /\ engineOp' = IF engineErr THEN "done" ELSE "wait"
    /\ UNCHANGED <<clock, procVars, ctxVars, engineErr, shutdown, grace, pending, cleanErr, exit, early>>

\* The unbuffered shutdownErrorChanel: the clean-up receives what is sent.
Report ==
    /\ phase = "report" /\ engineOp = "wait"
    /\ phase' = "closed"
    /\ engineOp' = "done"
    /\ UNCHANGED <<clock, procVars, ctxVars, engineErr, shutdown, grace, pending, cleanErr, exit, early>>

-----------------------------------------------------------------------------
(* main: the HTTP server and the clean-up *)

\* Listen returns an error; after a shutdown it returns none.
ListenFail ==
    /\ "http-server" \in pending /\ ~ mainDone
    /\ CancelMain
    /\ UNCHANGED <<phase, clock, procVars, cleanVars>>

\* GracefulShutdown starts the operations on a signal or when mainCtx is done.
BeginShutdown ==
    /\ ~ shutdown
    /\ shutdown' = TRUE
    /\ early' = (startup = "open")
    /\ UNCHANGED <<phase, clock, procVars, ctxVars, engineErr, grace, engineOp, pending, cleanErr, exit>>

Signal == BeginShutdown

ShutdownOnCancel == mainDone /\ BeginShutdown

\* startServerCtxCancelFn(), then the receive from shutdownErrorChanel.
EngineOp ==
    /\ shutdown /\ engineOp = "idle"
    /\ engineOp' = "wait"
    /\ UNCHANGED <<phase, clock, procVars, ctxVars, engineErr, shutdown, grace, pending, cleanErr, exit, early>>

\* The HTTP server gives its connections 29 s; the others take less.
CleanUp(o) ==
    /\ shutdown /\ o \in pending
    /\ pending' = pending \ {o}
    /\ cleanErr' \in {cleanErr, TRUE}
    /\ UNCHANGED <<phase, clock, procVars, ctxVars, engineErr, shutdown, grace, engineOp, exit, early>>

Exit ==
    /\ engineOp = "done" /\ pending = {}
    /\ exit' = IF engineErr \/ cleanErr THEN "err" ELSE "ok"
    /\ UNCHANGED <<phase, clock, procVars, ctxVars, engineErr, shutdown, grace, engineOp, pending, cleanErr, early>>

ForceExit ==
    /\ shutdown /\ grace = 0
    /\ exit' = "forced"
    /\ UNCHANGED <<phase, clock, procVars, ctxVars, engineErr, shutdown, grace, engineOp, pending, cleanErr, early>>

-----------------------------------------------------------------------------
(* Time *)

LaunchStep == \E p \in procs : Launch(p) \/ LaunchFail(p)

Timer == StartupDeadline \/ ReadonlyDeadline \/ ForceExit

Monitor == StartupGiveUp \/ MonitorExit \/ MonitorDone \/ WaitAll \/ Report

CleanUpStep == ShutdownOnCancel \/ EngineOp \/ (\E o \in CleanUps : CleanUp(o)) \/ Exit

\* What happens before time passes.
Urgent == LaunchStep \/ Timer \/ Monitor \/ CleanUpStep

\* Nothing of that is left to do (the guards of Urgent's actions).
Settled ==
    /\ phase # "launch"
    /\ startup = "open" => clock < StartupTimeout
    /\ readonly = "open" => clock < ReadonlyTimeout
    /\ phase = "startup" => startup = "open"
    /\ phase = "monitor" => ~ serverDone /\ reaped = {}
    /\ phase = "waitAll" => ~ Launched \subseteq waited
    /\ mainDone => shutdown
    /\ shutdown => engineOp # "idle" /\ pending = {} /\ grace > 0
    /\ ~ (phase = "report" /\ engineOp = "wait")
    /\ engineOp # "done"

Tick ==
    /\ Settled
    /\ startup = "open" \/ readonly = "open" \/ shutdown
    /\ clock' = IF clock < ReadonlyTimeout THEN clock + 1 ELSE clock
    /\ grace' = IF shutdown THEN grace - 1 ELSE grace
    /\ UNCHANGED <<phase, procVars, ctxVars, engineErr, shutdown, engineOp, pending, cleanErr, exit, early>>

-----------------------------------------------------------------------------
ChildStep(p) == BecomeReady(p) \/ Crash(p) \/ Terminate(p) \/ Reap(p)

Step ==
    /\ exit = "none"
    /\ \/ Urgent \/ Tick
       \/ StartupReady \/ ReplicaReady
       \/ \E p \in procs : ChildStep(p)
       \/ WaitReturn \/ ListenFail \/ Signal

Stopped == exit # "none" /\ UNCHANGED vars

Next == Step \/ Stopped

Run(A) == exit = "none" /\ A

\* Goroutines run, timers fire, time passes, children obey the signals sent to
\* them, and Wait sees the end of a child.  No child has to become ready or
\* crash, nobody has to send a signal; and the Wait for the replica need not
\* return (ReplicaLog).
AllProcs == {"scripting", "primary", "replica"}

Fairness ==
    /\ WF_vars(Run(Urgent)) /\ WF_vars(Run(Tick))
    /\ \A p \in AllProcs :
        /\ WF_vars(Run(p \in procs /\ Terminate(p)))
        /\ WF_vars(Run(p \in procs /\ Reap(p)))

Spec == Init /\ [][Next]_vars

FairSpec == Spec /\ Fairness

-----------------------------------------------------------------------------
(* Properties *)

Phases == {"launch", "startup", "monitor", "waitAll", "report", "closed"}
Ctx == {"open", "ready", "over"}

\* Every variable has its type, only what has ended was reaped, and the startup
\* loop is reached with every configured child launched.
TypeOK ==
    /\ {"scripting", "primary"} \subseteq procs /\ procs \subseteq AllProcs
    /\ phase \in Phases
    /\ proc \in [procs -> {"absent", "starting", "ready"} \union Ended]
    /\ reaped \in SUBSET procs /\ waited \in SUBSET reaped
    /\ mainDone \in BOOLEAN /\ engineErr \in BOOLEAN /\ shutdown \in BOOLEAN
    /\ cleanErr \in BOOLEAN /\ early \in BOOLEAN
    /\ startup \in Ctx /\ readonly \in Ctx
    /\ clock \in 0 .. ReadonlyTimeout /\ grace \in 0 .. ShutdownTimeout
    /\ engineOp \in {"idle", "wait", "done"}
    /\ pending \subseteq CleanUps
    /\ \A p \in reaped : proc[p] \in Ended
    /\ phase # "launch" => Launched = procs
    /\ exit \in {"none", "ok", "err", "forced", "abort"}

\* A server that ends through its clean-up leaves no child behind: every one
\* it launched has ended and been waited for (graphql_engine_servers.go:217).
NoOrphans == exit \in {"ok", "err"} => \A p \in Launched : proc[p] \in Ended /\ p \in waited

\* A server that exits with success had neither the scripting server nor the
\* primary ended by a signal, however late in the shutdown: the errors are
\* collected after the last child has ended, and reach the exit code over the
\* channel (graphql_engine_servers.go:235 "if the process is scripting-server
\* or graphql-engine:primary then we need to capture the error").
ExitTellsKilled == exit = "ok" => \A p \in {"scripting", "primary"} : proc[p] # "signal"

\* A shutdown lasts, and so can run into the forced exit, for two reasons only:
\* a child has not been waited for, or the shutdown began while the startup
\* loop ran, which a signal does not end (graphql_engine_servers.go:189).
\* The clean-ups themselves never wait on each other.
ShutdownLastsForCause ==
    [][grace' < grace => early \/ ~ (Launched \subseteq waited)]_vars

\* A child that exits, in whatever phase, brings the whole server down in the
\* end: the wait for startup, the monitor, the contexts and the clean-up pass
\* it on (graphql_engine_servers.go:210).
DeadChildStopsServer == \A p \in AllProcs : (p \in procs /\ proc[p] \in Ended) ~> exit # "none"

\* The end of the process ends what waits for its contexts.
Seen(ctx) == IF ctx = "open" /\ exit # "none" THEN "over" ELSE ctx

Endpoints == INSTANCE Readiness WITH
    startup <- Seen(startup),
    readonly <- Seen(readonly),
    healthy <- {p \in procs : proc[p] = "ready"}

\* The contexts the HTTP endpoints read keep the promises of Readiness: they
\* end once, as ready only after the engines were seen healthy, the replica's
\* deadline after the one of startup, and both always end (main.go:388).
ImplementsReadiness == Endpoints!Spec
=============================================================================
