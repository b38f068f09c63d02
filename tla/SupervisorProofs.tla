-------------------------- MODULE SupervisorProofs ---------------------------
(***************************************************************************)
(* Supervisor, with or without a replica, for any deadlines in their order *)
(* and any other clean-up operations: what a clean exit leaves behind,     *)
(* which errors it reports, what a shutdown may wait for, and that the     *)
(* startup contexts keep the safety part of Readiness.                     *)
(***************************************************************************)
EXTENDS Supervisor, TLAPS

USE CleanUpsAssumption, TimeoutsAssumption

\* The errors are collected, and the clean-up is told, only once every child
\* was waited for; a clean exit comes after that.
WaitInv ==
    /\ phase \in {"report", "closed"} => procs \subseteq waited
    /\ phase = "closed" <=> engineOp = "done"
    /\ exit \in {"ok", "err"} => engineOp = "done"

\* From then on the errors collected are those of the engines that a signal
\* ended, none of which is still to come, and a success means there was none.
ReportInv ==
    /\ phase \in {"report", "closed"} /\ ~ engineErr =>
            \A p \in {"scripting", "primary"} : proc[p] # "signal"
    /\ exit = "ok" => ~ engineErr

\* The contexts against the clock and the shutdown.
ClockInv ==
    /\ startup = "open" => clock <= StartupTimeout
    /\ shutdown /\ startup = "open" => early

IInv == TypeOK /\ WaitInv /\ ClockInv /\ ReportInv

USE DEF procVars, ctxVars, cleanVars, Ended, Launched, AllProcs, Phases, Ctx

-----------------------------------------------------------------------------
(* The invariant: one lemma per group of actions *)

\* No child was launched and nothing has ended.
LEMMA InitIInv == Init => IInv
<1> SUFFICES ASSUME Init PROVE IInv
  OBVIOUS
<1>1. procs = {"scripting", "primary"} \/ procs = {"scripting", "primary", "replica"}
  BY DEF Init
<1>2. {"scripting", "primary"} \subseteq procs /\ procs \subseteq AllProcs
  BY <1>1
<1>3. proc \in [procs -> {"absent"}] /\ reaped = {} /\ waited = {} /\ engineErr = FALSE
  BY DEF Init
<1>4. TypeOK
  <2>1. clock \in 0 .. ReadonlyTimeout /\ grace \in 0 .. ShutdownTimeout
    BY DEF Init
  <2>2. proc \in [procs -> {"absent", "starting", "ready"} \union Ended] /\ reaped \in SUBSET procs /\ waited \in SUBSET reaped
    BY <1>3
  <2>3. startup \in Ctx /\ readonly \in Ctx /\ phase = "launch" /\ pending \subseteq CleanUps
    BY DEF Init
  <2>4. /\ mainDone \in BOOLEAN /\ engineErr \in BOOLEAN /\ shutdown \in BOOLEAN
        /\ cleanErr \in BOOLEAN /\ early \in BOOLEAN
    BY DEF Init
  <2>5. engineOp = "idle" /\ exit = "none"
    BY DEF Init
  <2> QED BY <1>2, <1>3, <2>1, <2>2, <2>3, <2>4, <2>5 DEF TypeOK
<1>5. WaitInv /\ ClockInv /\ ReportInv
  BY DEF Init, WaitInv, ClockInv, ReportInv
<1> QED BY <1>4, <1>5 DEF IInv

\* The startup loop is reached when every configured child was launched; nothing
\* was collected before.
LEMMA LaunchKeeps ==
    ASSUME IInv, exit = "none", NEW p \in procs, Launch(p) \/ LaunchFail(p)
    PROVE  IInv'
<1> USE DEF IInv, TypeOK, WaitInv, ClockInv, ReportInv
<1>1. CASE Launch(p)
  BY <1>1 DEF Launch, NextToLaunch
<1>2. CASE LaunchFail(p)
  BY <1>2 DEF LaunchFail, NextToLaunch
<1> QED BY <1>1, <1>2

\* A child that has ended stays as it ended, whatever the others do.
LEMMA ChildKeeps ==
    ASSUME IInv, exit = "none", NEW p \in procs, ChildStep(p)
    PROVE  IInv'
<1> USE DEF IInv, TypeOK, WaitInv, ClockInv, ReportInv
<1>1. CASE BecomeReady(p)
  BY <1>1 DEF BecomeReady
<1>2. CASE Crash(p)
  BY <1>2 DEF Crash, Running
<1>3. CASE Terminate(p)
  BY <1>3 DEF Terminate, Running
<1>4. CASE Reap(p)
  <2>1. reaped' \in SUBSET procs /\ waited' \in SUBSET reaped' /\ waited \subseteq waited'
    BY <1>4 DEF Reap
  <2>2. \A q \in reaped' : proc'[q] \in Ended
    BY <1>4 DEF Reap
  <2> QED BY <1>4, <2>1, <2>2 DEF Reap
<1> QED BY <1>1, <1>2, <1>3, <1>4 DEF ChildStep

\* Nor does the return of the replica's Wait change what it ended as.
LEMMA WaitReturnKeeps == ASSUME IInv, WaitReturn PROVE IInv'
  BY DEF IInv, TypeOK, WaitInv, ClockInv, ReportInv, WaitReturn

\* The startup loop and the deadlines only end contexts.
LEMMA ContextsKeep ==
    ASSUME IInv, exit = "none", StartupReady \/ StartupGiveUp \/ ReplicaReady \/ StartupDeadline \/ ReadonlyDeadline
    PROVE  IInv'
<1> USE DEF IInv, TypeOK, WaitInv, ClockInv, ReportInv
<1>1. CASE StartupReady
  BY <1>1 DEF StartupReady
<1>2. CASE StartupGiveUp
  BY <1>2 DEF StartupGiveUp
<1>3. CASE ReplicaReady
  BY <1>3 DEF ReplicaReady
<1>4. CASE StartupDeadline
  BY <1>4 DEF StartupDeadline
<1>5. CASE ReadonlyDeadline
  BY <1>5 DEF ReadonlyDeadline
<1> QED BY <1>1, <1>2, <1>3, <1>4, <1>5

\* wg.Wait() comes before the report, and the report before the end of the
\* clean-up (graphql_engine_servers.go:217, :249).
LEMMA MonitorKeeps ==
    ASSUME IInv, exit = "none", MonitorExit \/ MonitorDone \/ WaitAll \/ Report
    PROVE  IInv'
<1> USE DEF IInv, TypeOK, WaitInv, ClockInv, ReportInv
<1>1. CASE MonitorExit
  BY <1>1 DEF MonitorExit, CancelMain
<1>2. CASE MonitorDone
  BY <1>2 DEF MonitorDone
<1>3. CASE WaitAll
  BY <1>3 DEF WaitAll, CaptureError
<1>4. CASE Report
  BY <1>4 DEF Report
<1> QED BY <1>1, <1>2, <1>3, <1>4

\* A clean exit needs the engine servers' clean-up to be done.
LEMMA CleanUpKeeps ==
    ASSUME IInv, exit = "none", ListenFail \/ BeginShutdown \/ EngineOp \/ (\E o \in CleanUps : CleanUp(o)) \/ Exit \/ ForceExit
    PROVE  IInv'
<1> USE DEF IInv, TypeOK, WaitInv, ClockInv, ReportInv
<1>1. CASE ListenFail
  BY <1>1 DEF ListenFail, CancelMain
<1>2. CASE BeginShutdown
  <2>1. early' \in BOOLEAN /\ (startup = "open" => early')
    BY <1>2, Zenon DEF BeginShutdown
  <2> QED BY <1>2, <2>1 DEF BeginShutdown
<1>3. CASE EngineOp
  BY <1>3 DEF EngineOp
<1>4. CASE \E o \in CleanUps : CleanUp(o)
  <2>1. PICK o \in CleanUps : CleanUp(o)
    BY <1>4
  <2>2. cleanErr' \in BOOLEAN /\ pending' \subseteq CleanUps
    BY <2>1, Zenon DEF CleanUp
  <2>3. UNCHANGED <<phase, clock, procs, proc, reaped, waited, mainDone, startup, readonly, engineErr, shutdown,
                    grace, engineOp, exit, early>>
    BY <2>1 DEF CleanUp
  <2> QED BY <2>2, <2>3
<1>5. CASE Exit
  BY <1>5 DEF Exit
<1>6. CASE ForceExit
  BY <1>6 DEF ForceExit
<1> QED BY <1>1, <1>2, <1>3, <1>4, <1>5, <1>6

\* Time passes only when startupCtx's deadline has not come.
LEMMA TickKeeps == ASSUME IInv, Tick PROVE IInv'
  BY DEF IInv, TypeOK, WaitInv, ClockInv, ReportInv, Tick, Settled

\* A step that changes nothing, also after the exit, keeps the invariant.
LEMMA StutterKeeps == ASSUME IInv, UNCHANGED vars PROVE IInv'
  BY DEF IInv, TypeOK, WaitInv, ClockInv, ReportInv, vars

\* Every step of the server keeps the invariant.
LEMMA NextIInv == IInv /\ [Next]_vars => IInv'
<1> SUFFICES ASSUME IInv, [Next]_vars PROVE IInv'
  OBVIOUS
<1>1. CASE Step
  <2>1. exit = "none"
    BY <1>1 DEF Step
  <2>2. CASE LaunchStep
    BY <2>1, <2>2, LaunchKeeps DEF LaunchStep
  <2>3. CASE Timer \/ StartupReady \/ ReplicaReady
    BY <2>1, <2>3, ContextsKeep, CleanUpKeeps DEF Timer
  <2>4. CASE Monitor
    BY <2>1, <2>4, ContextsKeep, MonitorKeeps DEF Monitor
  <2>5. CASE CleanUpStep \/ ListenFail \/ Signal
    BY <2>1, <2>5, CleanUpKeeps DEF CleanUpStep, ShutdownOnCancel, Signal
  <2>6. CASE Tick
    BY <2>6, TickKeeps
  <2>7. CASE \E p \in procs : ChildStep(p)
    BY <2>1, <2>7, ChildKeeps
  <2>8. CASE WaitReturn
    BY <2>8, WaitReturnKeeps
  <2> QED BY <1>1, <2>2, <2>3, <2>4, <2>5, <2>6, <2>7, <2>8 DEF Step, Urgent
<1>2. CASE UNCHANGED vars
  BY <1>2, StutterKeeps
<1> QED BY <1>1, <1>2 DEF Next, Stopped

\* The invariant holds in every state of the server.
THEOREM Invariance == Spec => []IInv
  BY InitIInv, NextIInv, PTL DEF Spec

\* Every variable has its type, only what has ended was reaped, and the startup
\* loop is reached with every configured child launched.
THEOREM TypeCorrectness == Spec => []TypeOK
<1>1. IInv => TypeOK BY DEF IInv
<1> QED BY <1>1, Invariance, PTL

\* A server that ends through its clean-up leaves no child behind
\* (graphql_engine_servers.go:217).
THEOREM LeavesNoOrphans == Spec => []NoOrphans
<1>1. IInv => NoOrphans
  BY DEF IInv, TypeOK, WaitInv, NoOrphans
<1> QED BY <1>1, Invariance, PTL

\* A server that exits with success had neither the scripting server nor the
\* primary ended by a signal (graphql_engine_servers.go:232).
THEOREM KilledEngineTold == Spec => []ExitTellsKilled
<1>1. IInv => ExitTellsKilled
  BY DEF IInv, WaitInv, ReportInv, ExitTellsKilled
<1> QED BY <1>1, Invariance, PTL

\* A shutdown takes time only for a child that was not waited for, or when it
\* began during startup (graphql_engine_servers.go:189).
THEOREM ShutdownHasCause == Spec => ShutdownLastsForCause
<1>1. ASSUME IInv, [Next]_vars
      PROVE  [grace' < grace => early \/ ~ (Launched \subseteq waited)]_vars
  <2> SUFFICES ASSUME grace' < grace PROVE early \/ ~ (Launched \subseteq waited)
    OBVIOUS
  <2>1. grace' # grace
    BY <1>1 DEF IInv, TypeOK
  <2>2. Tick /\ shutdown
    <3>1. grace' # grace => Tick
      BY <1>1, <2>1 DEF Next, Step, Stopped, Urgent, LaunchStep, Timer, Monitor, CleanUpStep, ChildStep,
         Launch, LaunchFail, BecomeReady, Crash, Terminate, Reap, WaitReturn, StartupReady, StartupGiveUp, ReplicaReady,
         StartupDeadline, ReadonlyDeadline, MonitorExit, MonitorDone, WaitAll, Report, ListenFail, Signal,
         ShutdownOnCancel, BeginShutdown, EngineOp, CleanUp, Exit, ForceExit, vars
    <3> QED BY <2>1, <3>1 DEF Tick
  <2>3. engineOp = "wait" /\ phase # "report" /\ phase # "closed"
    BY <1>1, <2>2 DEF IInv, TypeOK, WaitInv, Tick, Settled
  <2> QED BY <1>1, <2>2, <2>3 DEF IInv, TypeOK, ClockInv, Tick, Settled, serverDone
<1> QED BY <1>1, Invariance, PTL DEF Spec, ShutdownLastsForCause

-----------------------------------------------------------------------------
(* The contexts keep the safety part of Readiness *)

USE DEF Seen, Endpoints!ctxs, Endpoints!Servers

\* At the start both contexts are open and no child was seen healthy.
LEMMA InitReadiness == Init => Endpoints!Init
<1> SUFFICES ASSUME Init PROVE Endpoints!Init
  OBVIOUS
<1>1. {p \in procs : proc[p] = "ready"} = {}
  BY DEF Init
<1> QED BY <1>1 DEF Init, Endpoints!Init

\* A step that changes neither a context nor the children's health.
LEMMA Unseen ==
    ASSUME UNCHANGED <<procs, proc, startup, readonly>>, exit = "none", exit' = "none"
    PROVE  UNCHANGED Endpoints!ctxs
  OBVIOUS

\* The end of the process, like that of mainCtx, ends the contexts that are
\* still open.
LEMMA EndIsCancelled ==
    ASSUME UNCHANGED <<procs, proc>>, exit = "none",
           (exit' # "none" /\ UNCHANGED <<startup, readonly>>) \/ (exit' = "none" /\ CancelMain)
    PROVE  Endpoints!Cancelled
  BY DEF CancelMain, Endpoints!Cancelled

\* What happens to one child changes its health at most.
LEMMA ChildIsHealthChange ==
    ASSUME IInv, NEW p \in procs, ChildStep(p) \/ Launch(p), exit = "none"
    PROVE  Endpoints!HealthChange \/ UNCHANGED Endpoints!ctxs
<1> DEFINE healthy == {q \in procs : proc[q] = "ready"}
<1>1. /\ UNCHANGED <<procs, startup, readonly, exit>> /\ p \in AllProcs
      /\ proc \in [procs -> {"absent", "starting", "ready"} \union Ended]
  BY DEF IInv, TypeOK, ChildStep, Launch, BecomeReady, Crash, Terminate, Reap
<1>2. \/ \E l \in {"starting", "ready"} \union Ended : proc' = [proc EXCEPT ![p] = l]
      \/ proc' = proc
  BY DEF ChildStep, Launch, BecomeReady, Crash, Terminate, Reap
<1>3. \A q \in procs \ {p} : proc'[q] = proc[q]
  BY <1>1, <1>2
<1>4. CASE proc'[p] = "ready"
  <2>1. healthy' = healthy \union {p}
    BY <1>1, <1>3, <1>4
  <2> QED BY <1>1, <2>1 DEF Endpoints!HealthChange
<1>5. CASE proc'[p] # "ready"
  <2>1. healthy' = healthy \ {p}
    BY <1>1, <1>3, <1>5
  <2> QED BY <1>1, <2>1 DEF Endpoints!HealthChange
<1> QED BY <1>4, <1>5

\* Every step of the server is one of Readiness, or none.
LEMMA NextReadiness == IInv /\ [Next]_vars => [Endpoints!Next]_(Endpoints!ctxs)
<1> SUFFICES ASSUME IInv, [Next]_vars PROVE Endpoints!Next \/ UNCHANGED Endpoints!ctxs
  OBVIOUS
<1> USE DEF Endpoints!Next, Endpoints!ContextEnds
<1>1. CASE UNCHANGED vars
  BY <1>1 DEF vars
<1>2. CASE Step
  <2>0. exit = "none"
    BY <1>2 DEF Step
  <2>1. CASE \E p \in procs : ChildStep(p) \/ Launch(p)
    BY <2>0, <2>1, ChildIsHealthChange
  <2>2. CASE (\E p \in procs : LaunchFail(p)) \/ ForceExit \/ Exit \/ MonitorExit \/ ListenFail
    <3>1. UNCHANGED <<procs, proc>>
      BY <2>2 DEF LaunchFail, ForceExit, Exit, MonitorExit, ListenFail
    <3>2. (exit' # "none" /\ UNCHANGED <<startup, readonly>>) \/ (exit' = "none" /\ CancelMain)
      BY <2>0, <2>2 DEF LaunchFail, ForceExit, Exit, MonitorExit, ListenFail
    <3> QED BY <2>0, <3>1, <3>2, EndIsCancelled
  <2>3. CASE StartupReady
    BY <2>0, <2>3 DEF StartupReady, EngineHealth, IInv, TypeOK, Endpoints!StartupReady
  <2>4. CASE ReplicaReady
    BY <2>0, <2>4 DEF ReplicaReady, Endpoints!ReadonlyReady
  <2>5. CASE StartupDeadline
    BY <2>0, <2>5 DEF StartupDeadline, Endpoints!StartupOver
  <2>6. CASE ReadonlyDeadline
    BY <2>0, <2>6 DEF ReadonlyDeadline, IInv, TypeOK, ClockInv, Endpoints!ReadonlyOver
  <2>7. CASE StartupGiveUp \/ MonitorDone \/ WaitAll \/ Report \/ Signal \/ ShutdownOnCancel \/ EngineOp
                \/ (\E o \in CleanUps : CleanUp(o)) \/ Tick \/ WaitReturn
    <3>1. UNCHANGED <<procs, proc, startup, readonly, exit>>
      BY <2>7 DEF StartupGiveUp, MonitorDone, WaitAll, Report, Signal, ShutdownOnCancel, BeginShutdown,
                  EngineOp, CleanUp, Tick, WaitReturn
    <3> QED BY <2>0, <3>1
  <2> QED BY <1>2, <2>1, <2>2, <2>3, <2>4, <2>5, <2>6, <2>7
          DEF Step, Urgent, LaunchStep, Timer, Monitor, CleanUpStep
<1> QED BY <1>1, <1>2 DEF Next, Stopped

\* The contexts the HTTP endpoints read keep the promises of Readiness, except
\* for the one that both end, which needs fairness (main.go:388).
THEOREM ReadinessSafety == Spec => Endpoints!Init /\ [][Endpoints!Next]_(Endpoints!ctxs)
  BY Invariance, InitReadiness, NextReadiness, PTL DEF Spec
=============================================================================
