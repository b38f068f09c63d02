--------------------------- MODULE ExecCacheProofs ---------------------------
(***************************************************************************)
(* ExecCache, for any number of servers, calls and versions: what a server *)
(* remembers is consistent, an upload is never overridden by an image, and *)
(* a call runs a text of the length of the one it found in Redis.          *)
(***************************************************************************)
EXTENDS ExecCache, TLAPS

\* A background SET (exec_cache.py set) carries a version that was uploaded.
PendingInv == \A w \in pending : w.op = "set" => w.text \in uploaded

IInv == TypeOK /\ LengthTracksFunction /\ PendingInv

USE ServerOfAssumption, LengthsAssumption, ImageAssumption

\* The initial state of the scripting servers satisfies the invariant.
LEMMA InitIInv == Init => IInv
  BY SMT DEF Init, IInv, TypeOK, LengthTracksFunction, PendingInv, Writes

\* Reading Redis (exec_cache.get up to its await) keeps the invariant.
LEMMA ReadKeeps == ASSUME IInv, NEW c \in Calls, Read(c) PROVE IInv'
  BY SMT DEF IInv, TypeOK, LengthTracksFunction, PendingInv, Writes, Read, memVars

\* So does returning the function in memory.
LEMMA UseMemoryKeeps == ASSUME IInv, NEW c \in Calls, UseMemory(c) PROVE IInv'
  BY SMT DEF IInv, TypeOK, LengthTracksFunction, PendingInv, Writes, UseMemory, Return, memVars

\* So does compiling the text from Redis.
LEMMA CompileKeeps == ASSUME IInv, NEW c \in Calls, Compile(c) PROVE IInv'
  BY SMT DEF IInv, TypeOK, LengthTracksFunction, PendingInv, Writes, Compile, Remember, Return

\* setdefault: the length and the function are absent together, so they are
\* filled in together.
LEMMA RunFileKeeps == ASSUME IInv, NEW c \in Calls, RunFile(c) PROVE IInv'
<1> DEFINE s == ServerOf[c]
           v == file[s]
           w == [server |-> s, op |-> "setnx", text |-> v]
<1>0. s \in Servers /\ v \in Versions /\ Chars[v] \in Nat \ {0} /\ w \in Writes
  BY SMT DEF IInv, TypeOK, RunFile, Writes
<1>1. CASE TrustsMemory(s, Chars[v]) /\ Return(c, func[s]) /\ UNCHANGED <<memVars, pending>>
  BY <1>0, <1>1, SMT DEF IInv, TypeOK, LengthTracksFunction, PendingInv, RunFile, Return, memVars
<1>2. CASE ~ TrustsMemory(s, Chars[v]) /\ SetDefault(s, v) /\ Return(c, v)
  <2>1. TypeOK'
    BY <1>0, <1>2, SMT DEF IInv, TypeOK, LengthTracksFunction, RunFile, SetDefault, Return
  <2>2. LengthTracksFunction'
    BY <1>0, <1>2, SMT DEF IInv, TypeOK, LengthTracksFunction, RunFile, SetDefault
  <2>3. PendingInv'
    BY <1>0, <1>2, SMT DEF IInv, PendingInv, RunFile, SetDefault
  <2> QED BY <2>1, <2>2, <2>3 DEF IInv
<1> QED BY <1>1, <1>2 DEF RunFile

\* A call that fails changes neither memory nor Redis.
LEMMA FailKeeps == ASSUME IInv, NEW c \in Calls, Fail(c) PROVE IInv'
  BY SMT DEF IInv, TypeOK, LengthTracksFunction, PendingInv, Writes, Fail, memVars

\* An upload replaces the function and its length together, and the SET it
\* leaves behind carries the uploaded version.
LEMMA UploadKeeps ==
    ASSUME IInv, NEW s \in Servers, NEW v \in Versions, Upload(s, v) PROVE IInv'
<1>1. TypeOK'
  BY SMT DEF IInv, TypeOK, Writes, Upload, Remember, callVars
<1>2. LengthTracksFunction'
  BY SMT DEF IInv, TypeOK, LengthTracksFunction, Upload, Remember
<1>3. PendingInv'
  BY SMT DEF IInv, PendingInv, Upload
<1> QED BY <1>1, <1>2, <1>3 DEF IInv

\* A background write that lands or is lost leaves the servers' memory alone.
LEMMA LandKeeps ==
    ASSUME IInv, NEW w \in pending, Land(w) \/ Lose(w) PROVE IInv'
  BY SMT DEF IInv, TypeOK, LengthTracksFunction, PendingInv, Writes, Land, Lose, memVars, callVars

\* A restart forgets the function and its length together.
LEMMA RestartKeeps == ASSUME IInv, NEW s \in Servers, Restart(s) PROVE IInv'
<1>1. TypeOK'
  BY SMT DEF IInv, TypeOK, Writes, Restart
<1>2. LengthTracksFunction' /\ PendingInv'
  BY SMT DEF IInv, TypeOK, LengthTracksFunction, PendingInv, Restart
<1> QED BY <1>1, <1>2 DEF IInv

\* Deleting the key from Redis concerns no server.
LEMMA DeleteKeyKeeps == ASSUME IInv, DeleteKey PROVE IInv'
  BY SMT DEF IInv, TypeOK, LengthTracksFunction, PendingInv, Writes, DeleteKey, memVars, callVars

\* Every step of the scripting servers keeps the invariant.
LEMMA NextIInv == IInv /\ [Next]_vars => IInv'
<1> SUFFICES ASSUME IInv, [Next]_vars PROVE IInv'
  OBVIOUS
<1>1. CASE \E c \in Calls : Read(c) \/ UseMemory(c) \/ Compile(c) \/ RunFile(c) \/ Fail(c)
  BY <1>1, ReadKeeps, UseMemoryKeeps, CompileKeeps, RunFileKeeps, FailKeeps
<1>2. CASE \E s \in Servers : Restart(s) \/ \E v \in Versions : Upload(s, v)
  BY <1>2, RestartKeeps, UploadKeeps
<1>3. CASE \E w \in pending : Land(w) \/ Lose(w)
  BY <1>3, LandKeeps
<1>4. CASE DeleteKey
  BY <1>4, DeleteKeyKeeps
<1>5. CASE UNCHANGED vars
  BY <1>5, SMT DEF IInv, TypeOK, LengthTracksFunction, PendingInv, Writes, vars, memVars, callVars
<1> QED BY <1>1, <1>2, <1>3, <1>4, <1>5 DEF Next

\* The invariant holds in every state of the scripting servers.
THEOREM Invariance == Spec => []IInv
  BY InitIInv, NextIInv, PTL DEF Spec

\* Type correctness: what is in memory, on disk and on its way to Redis is
\* what the handlers of exec_cache.py put there.
THEOREM TypeCorrectness == Spec => []TypeOK
<1>1. IInv => TypeOK BY DEF IInv
<1> QED BY <1>1, Invariance, PTL

\* The function a server has in memory and the length it remembers always
\* belong together (exec_cache.py), however calls, uploads and restarts
\* interleave.
THEOREM LengthTracked == Spec => []LengthTracksFunction
<1>1. IInv => LengthTracksFunction BY DEF IInv
<1> QED BY <1>1, Invariance, PTL

\* Only an upload replaces a text that is in Redis: setdefault's SETNX never
\* overrides one (exec_cache.py:62-75).
THEOREM UploadsReplace == Spec => OnlyUploadsReplace
<1>1. ASSUME IInv, [Next]_vars
      PROVE  [redis # None => redis' \in {redis, None} \union uploaded]_vars
  <2>1. CASE \E w \in pending : Land(w) \/ Lose(w)
    BY <1>1, <2>1, SMT DEF IInv, TypeOK, PendingInv, Writes, Land, Lose
  <2>2. CASE ~ \E w \in pending : Land(w) \/ Lose(w)
    BY <1>1, <2>2, Zenon DEF Next, Read, UseMemory, Compile, RunFile, Fail, Restart, Upload,
       DeleteKey, vars
  <2> QED BY <2>1, <2>2
<1> QED BY <1>1, Invariance, PTL DEF Spec, OnlyUploadsReplace

\* A call that finds a text in Redis runs a text of its length: the function in
\* memory if that is as long, whoever put it there meanwhile, or the text itself
\* (exec_cache.py:30).
THEOREM RunsEquallyLong == Spec => []RunsTextOfRedisLength
<1>1. Init => RunsTextOfRedisLength
  BY SMT DEF Init, RunsTextOfRedisLength
<1>2. ASSUME IInv, RunsTextOfRedisLength, [Next]_vars PROVE RunsTextOfRedisLength'
  <2>1. CASE \E c \in Calls : UseMemory(c)
    <3>1. PICK c \in Calls : UseMemory(c) BY <2>1
    <3>2. seen[c] \in Versions /\ ServerOf[c] \in Servers /\ length[ServerOf[c]] = Bytes[seen[c]]
      BY <1>2, <3>1, SMT DEF IInv, TypeOK, UseMemory, TrustsMemory
    <3>3. /\ func[ServerOf[c]] \in Versions
          /\ Bytes[seen[c]] \in {Chars[func[ServerOf[c]]], Bytes[func[ServerOf[c]]]}
      BY <1>2, <3>2, SMT DEF IInv, TypeOK, LengthTracksFunction
    <3> QED BY <1>2, <3>1, <3>3, SMT DEF IInv, TypeOK, RunsTextOfRedisLength, UseMemory, Return
  <2>2. CASE \E c \in Calls : Read(c) \/ Compile(c) \/ RunFile(c) \/ Fail(c)
    BY <1>2, <2>2, SMT DEF IInv, TypeOK, RunsTextOfRedisLength, Read, Compile, RunFile, Fail, Return
  <2>3. CASE \E s \in Servers : Restart(s)
    BY <1>2, <2>3, SMT DEF IInv, TypeOK, RunsTextOfRedisLength, Restart
  <2>4. CASE UNCHANGED callVars
    BY <1>2, <2>4, SMT DEF RunsTextOfRedisLength, callVars
  <2>5. (\E s \in Servers, v \in Versions : Upload(s, v)) \/ (\E w \in pending : Land(w) \/ Lose(w))
           \/ DeleteKey \/ UNCHANGED vars => UNCHANGED callVars
    BY Zenon DEF Upload, Land, Lose, DeleteKey, vars
  <2> QED BY <1>2, <2>1, <2>2, <2>3, <2>4, <2>5 DEF Next
<1> QED BY <1>1, <1>2, Invariance, PTL DEF Spec
=============================================================================
