-------------------------- MODULE ReplicaLogProofs ---------------------------
(***************************************************************************)
(* ReplicaLog, for any number of lines: no line overtakes its writer, and  *)
(* a replica whose Wait returned has had its whole output read.            *)
(***************************************************************************)
EXTENDS ReplicaLog, TLAPS

\* The goroutines that pass the output on return only when the server shuts
\* down (graphql_engine_servers.go:27, :37), or the scanner when it is stuck
\* with a line too long for it (:26), which then stays in the pipe.
RelayRuns ==
    \/ ctxDone
    \/ parsing /\ (scanning \/ (scanned < copied /\ kind[scanned + 1] = "long"))

\* Once Wait has returned nothing is written any more, and nothing is left to
\* copy or to scan.
NothingLeft == reaped => ~ running /\ copied = written /\ scanned = copied

IInv == TypeOK /\ RelayRuns /\ NothingLeft

USE MaxLinesAssumption, KindsAssumption

\* The replica runs and has written nothing.
LEMMA InitIInv == Init => IInv
<1> SUFFICES ASSUME Init PROVE IInv
  OBVIOUS
<1>1. 0 \in 0 .. MaxLines /\ 0 \in 0 .. 0
  BY SMT
<1>2. printed \subseteq 1 .. passed
  BY DEF Init
<1> QED BY <1>1, <1>2, Zenon DEF Init, IInv, TypeOK, RelayRuns, NothingLeft

\* A line moves one stage at a time, and none after the copying is over.
LEMMA LinesKeep == ASSUME IInv, Write \/ CopyLine \/ ScanLine \/ ScanTooLong PROVE IInv'
<1>1. CASE Write
  BY <1>1, SMT DEF IInv, TypeOK, RelayRuns, NothingLeft, Write
<1>2. CASE CopyLine
  BY <1>2, SMT DEF IInv, TypeOK, RelayRuns, NothingLeft, CopyLine
<1>3. CASE ScanLine
  BY <1>3, SMT DEF IInv, TypeOK, RelayRuns, NothingLeft, ScanLine
<1>4. CASE ScanTooLong
  <2>1. /\ UNCHANGED <<running, ctxDone, reaped, parsing, kind, written, copied, scanned, passed, printed>>
        /\ scanning' = FALSE /\ scanning /\ scanned < copied /\ kind[scanned + 1] = "long"
    BY <1>4 DEF ScanTooLong, lineVars
  <2>2. TypeOK'
    BY <2>1, Zenon DEF IInv, TypeOK
  <2>3. RelayRuns'
    BY <2>1, Zenon DEF IInv, RelayRuns
  <2>4. NothingLeft'
    BY <2>1 DEF IInv, NothingLeft
  <2> QED BY <2>2, <2>3, <2>4 DEF IInv
<1> QED BY <1>1, <1>2, <1>3, <1>4

\* The scanner looks at the context only after it passed a line on, and then
\* returns only if the server shuts down.
LEMMA PassLineKeeps == ASSUME IInv, PassLine PROVE IInv'
<1>1. passed' \in 0 .. scanned' /\ UNCHANGED <<kind, written, copied, scanned>>
  BY SMT DEF IInv, TypeOK, PassLine
<1>0. printed' \subseteq 1 .. passed'
  BY SMT DEF IInv, TypeOK, PassLine, ParseLine
<1>2. scanning' = ~ ctxDone /\ UNCHANGED <<running, ctxDone, reaped, parsing>>
  BY DEF PassLine
<1>3. TypeOK'
  BY <1>0, <1>1, <1>2, Zenon DEF IInv, TypeOK
<1>4. RelayRuns'
  <2>1. parsing /\ (scanning' = ~ ctxDone) /\ parsing' = parsing /\ ctxDone' = ctxDone
    BY DEF PassLine
  <2> QED BY <2>1, <1>3, Zenon DEF RelayRuns, TypeOK
<1>5. NothingLeft'
  BY <1>1, <1>2 DEF IInv, NothingLeft
<1> QED BY <1>3, <1>4, <1>5 DEF IInv

\* The processes and the context end; Wait returns once the output is read.
LEMMA EndsKeep ==
    ASSUME IInv, ParserStop \/ Cancel \/ ReplicaEnds \/ Reap \/ UNCHANGED vars
    PROVE  IInv'
<1>1. UNCHANGED lineVars
  BY DEF ParserStop, Cancel, ReplicaEnds, Reap, vars
<1>2. TypeOK'
  BY <1>1, Zenon DEF IInv, TypeOK, ParserStop, Cancel, ReplicaEnds, Reap, vars, lineVars
<1>3. RelayRuns' /\ NothingLeft'
  BY SMT DEF IInv, TypeOK, RelayRuns, NothingLeft, ParserStop, Cancel, ReplicaEnds, Reap,
             vars, lineVars
<1> QED BY <1>2, <1>3 DEF IInv

\* The invariant holds throughout, in whatever order the goroutines run.
LEMMA Invariance == Spec => []IInv
<1>1. IInv /\ [Next]_vars => IInv'
  BY LinesKeep, PassLineKeeps, EndsKeep DEF Next, Quiet
<1> QED BY <1>1, InitIInv, PTL DEF Spec

\* Type correctness, for any number of lines: a line is copied, scanned and
\* passed on in this order.
THEOREM TypeCorrectness == Spec => []TypeOK
<1>1. IInv => TypeOK
  BY DEF IInv
<1> QED BY <1>1, Invariance, PTL

\* When the Wait for the replica has returned (graphql_engine_servers.go:152),
\* all it wrote was read, and the relay is there to log it unless the server
\* shuts down.
THEOREM LastWordsAreRead == Spec => []OutputOutlivesReplica
<1>1. IInv => OutputOutlivesReplica
  <2> SUFFICES ASSUME IInv, reaped PROVE scanned = written /\ (ctxDone \/ (scanning /\ parsing))
    BY DEF OutputOutlivesReplica
  <2>1. scanned = written /\ ~ (scanned < copied)
    BY SMT DEF IInv, NothingLeft, TypeOK
  <2> QED BY <2>1, Zenon DEF IInv, RelayRuns
<1> QED BY <1>1, Invariance, PTL
=============================================================================
