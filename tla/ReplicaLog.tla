----------------------------- MODULE ReplicaLog -----------------------------
(***************************************************************************)
(* How the replica engine's output reaches the log, and when the Wait for  *)
(* the replica returns.  The replica writes lines to an OS pipe; a         *)
(* goroutine of os/exec copies them to an io.Pipe, where a write blocks    *)
(* until it was read; the scanner goroutine reads that pipe and passes     *)
(* each line over an unbuffered channel to the parser goroutine.  Cmd.Wait *)
(* returns when the replica has ended and the copying is over.             *)
(*                                                                         *)
(* Lines are numbered in the order they are written; a counter says how    *)
(* many lines got that far.  A line is plain, or longer than the scanner's *)
(* buffer, or of the kind that the parser does not print.                  *)
(***************************************************************************)
EXTENDS Naturals

CONSTANTS
    MaxLines,   \* how many lines the replica writes at most
    Kinds       \* the kinds of lines it writes

ASSUME MaxLinesAssumption == MaxLines \in Nat
ASSUME KindsAssumption == Kinds \subseteq {"plain", "recovery", "long"}

VARIABLES
    running,    \* the replica runs
    ctxDone,    \* startServerCtx is done
    reaped,     \* Cmd.Wait has returned
    kind,       \* the kind of each line the replica will write
    written,    \* lines the replica wrote
    copied,     \* lines handed to the io.Pipe
    scanned,    \* lines the scanner read from it
    passed,     \* lines the parser received
    printed,    \* the numbers of those it printed to the log
    scanning,   \* the scanner goroutine has not returned
    parsing     \* the parser goroutine has not returned

lineVars == <<kind, written, copied, scanned, passed, printed>>
vars == <<running, ctxDone, reaped, lineVars, scanning, parsing>>

Init ==
    /\ running = TRUE /\ ctxDone = FALSE /\ reaped = FALSE
    /\ kind \in [1 .. MaxLines -> Kinds] /\ printed = {}
    /\ written = 0 /\ copied = 0 /\ scanned = 0 /\ passed = 0
    /\ scanning = TRUE /\ parsing = TRUE

Write ==
    /\ running /\ written < MaxLines
    /\ written' = written + 1
    /\ UNCHANGED <<running, ctxDone, reaped, kind, copied, scanned, passed, printed, scanning, parsing>>

\* The copier's next write starts when the one before was read.
CopyLine ==
    /\ copied < written /\ copied = scanned
    /\ copied' = copied + 1
    /\ UNCHANGED <<running, ctxDone, reaped, kind, written, scanned, passed, printed, scanning, parsing>>

\* Mutant: the scanner sends a line although the pipe gave none.
ScanNothing ==
    /\ scanning /\ scanned = passed
    /\ scanned' = scanned + 1
    /\ UNCHANGED <<running, ctxDone, reaped, kind, written, copied, passed, printed, scanning, parsing>>

\* scanner.Scan() returns a line, once the one before was passed on.
ScanLine ==
    /\ scanning /\ scanned = passed /\ scanned < copied
    /\ kind[scanned + 1] # "long"
    /\ scanned' = scanned + 1
    /\ UNCHANGED <<running, ctxDone, reaped, kind, written, copied, passed, printed, scanning, parsing>>

\* The line does not fit the scanner's buffer: Scan() returns false (bufio's
\* ErrTooLong), the loop ends and so does the goroutine.  The rest of the line
\* stays in the pipe, whose writer goes on waiting for a reader.
ScanTooLong ==
    /\ scanning /\ scanned = passed /\ scanned < copied
    /\ kind[scanned + 1] = "long"
    /\ scanning' = FALSE
    /\ UNCHANGED <<running, ctxDone, reaped, lineVars, parsing>>

\* The parser prints the line, unless it is the replica's complaint about a
\* database in recovery.
ParseLine(k) == printed' = IF kind[k] = "recovery" THEN printed ELSE printed \union {k}

\* Mutant: the scanner looks at ctx the wrong way round.
PassLineStops ==
    /\ scanning /\ parsing /\ passed < scanned
    /\ passed' = passed + 1
    /\ ParseLine(passed')
    /\ scanning' = ctxDone
    /\ UNCHANGED <<running, ctxDone, reaped, kind, written, copied, scanned, parsing>>

\* lines <- text meets the parser's receive; then the scanner looks at ctx.
PassLine ==
    /\ scanning /\ parsing /\ passed < scanned
    /\ passed' = passed + 1
    /\ ParseLine(passed')
    /\ scanning' = ~ ctxDone
    /\ UNCHANGED <<running, ctxDone, reaped, kind, written, copied, scanned, parsing>>

ParserStop ==
    /\ parsing /\ ctxDone
    /\ parsing' = FALSE
    /\ UNCHANGED <<running, ctxDone, reaped, lineVars, scanning>>

\* The context is cancelled: os/exec kills the replica.
Cancel ==
    /\ ~ ctxDone
    /\ ctxDone' = TRUE
    /\ UNCHANGED <<running, reaped, lineVars, scanning, parsing>>

ReplicaEnds ==
    /\ running
    /\ running' = FALSE
    /\ UNCHANGED <<ctxDone, reaped, lineVars, scanning, parsing>>

\* Mutant: Wait does not wait for the copying.
ReapAtExit ==
    /\ ~ running /\ ~ reaped
    /\ reaped' = TRUE
    /\ UNCHANGED <<running, ctxDone, lineVars, scanning, parsing>>

\* Cmd.Wait returns: the OS pipe is empty and the last io.Pipe write returned.
Reap ==
    /\ ~ running /\ ~ reaped
    /\ copied = written /\ scanned = copied
    /\ reaped' = TRUE
    /\ UNCHANGED <<running, ctxDone, lineVars, scanning, parsing>>

\* Goroutines that have nothing left to do.
Quiet == ~ running /\ UNCHANGED vars

Next ==
    \/ Write \/ CopyLine \/ ScanLine \/ ScanTooLong \/ PassLine \/ ParserStop
    \/ Cancel \/ ReplicaEnds \/ Reap \/ Quiet

\* The goroutines run, and a killed replica ends.
Fairness ==
    /\ WF_vars(CopyLine) /\ WF_vars(ScanLine) /\ WF_vars(ScanTooLong)
    /\ WF_vars(PassLine) /\ WF_vars(ParserStop)
    /\ WF_vars(Reap) /\ WF_vars(ctxDone /\ ReplicaEnds)

Spec == Init /\ [][Next]_vars

FairSpec == Spec /\ Fairness

-----------------------------------------------------------------------------
(* Properties *)

\* Every variable has its type, and no line overtakes its writer: what was
\* printed was passed on, scanned, copied and written before.
TypeOK ==
    /\ running \in BOOLEAN /\ ctxDone \in BOOLEAN /\ reaped \in BOOLEAN
    /\ scanning \in BOOLEAN /\ parsing \in BOOLEAN
    /\ kind \in [1 .. MaxLines -> Kinds]
    /\ written \in 0 .. MaxLines
    /\ copied \in 0 .. written /\ scanned \in 0 .. copied /\ passed \in 0 .. scanned
    /\ printed \subseteq 1 .. passed

\* When the Wait for the replica has returned, all it ever wrote was read by
\* the scanner, and unless the server shuts down the scanner is still there to
\* pass it on: a replica's last words are not lost.  (After a line that was too
\* long for the scanner the Wait does not return.)
OutputOutlivesReplica == reaped => scanned = written /\ (ctxDone \/ (scanning /\ parsing))

\* No line up to the k-th is too long for the scanner.
Fits(k) == \A j \in 1 .. k : kind[j] # "long"

\* While the server is not shutting down, every plain line of the replica that
\* comes before the first over-long one is printed to the log.
LinesReachLog ==
    \A k \in 1 .. MaxLines :
        written >= k /\ kind[k] = "plain" /\ Fits(k) ~> k \in printed \/ ctxDone

\* While the server is not shutting down, the Wait for a replica that exited
\* returns, provided that all of its output fits the scanner's buffer: none of
\* the goroutines between them keeps it.
WaitReturnsServing == ~ running /\ Fits(written) ~> reaped \/ ctxDone

\* graphql_engine_servers.go:216 "context is canceled: Wait for all processes
\* to exit": after the context is cancelled the Wait for the replica returns.
WaitReturns == ctxDone ~> reaped
=============================================================================
