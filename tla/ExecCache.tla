------------------------------ MODULE ExecCache ------------------------------
(***************************************************************************)
(* The scripting servers' cache of compiled scripts, for ONE script file.  *)
(* Each server keeps the main function it compiled last and the length of  *)
(* the text it came from (InternalExecCache), and the file on its disk;    *)
(* all of them share the text in Redis, which an upload writes with a      *)
(* background task.  A call of the script reads Redis first, and trusts    *)
(* its own function if the lengths agree.                                  *)
(*                                                                         *)
(* A function is identified by the version of the text it was compiled     *)
(* from.  asyncio runs one coroutine at a time, so a handler is atomic     *)
(* between two awaits that suspend it.                                     *)
(***************************************************************************)
EXTENDS Naturals

CONSTANTS
    Servers,    \* scripting servers
    Calls,      \* executions of the script
    ServerOf,   \* the server a call runs on
    Versions,   \* texts of the script
    Image,      \* the version that is part of the deployed image
    Chars,      \* the length of a version's text, as a Python string
    Bytes,      \* and as the bytes Redis returns
    None,       \* no version
    Empty       \* a file without a text: its writing failed

ASSUME ServerOfAssumption == ServerOf \in [Calls -> Servers]
ASSUME LengthsAssumption ==
    /\ Chars \in [Versions -> Nat \ {0}] /\ Bytes \in [Versions -> Nat \ {0}]
    /\ \A v \in Versions : Chars[v] <= Bytes[v]
ASSUME ImageAssumption ==
    Image \in Versions /\ None \notin Versions /\ Empty \notin Versions /\ None # Empty

VARIABLES
    redis,      \* the text in Redis
    func,       \* the function each server has in memory
    length,     \* the length each server remembers, 0 for none
    file,       \* the script file on each server's disk
    pending,    \* background writes to Redis that have not run yet
    uploaded,   \* versions uploaded so far
    pc,         \* where each call is
    seen,       \* what the call read from Redis
    ran         \* what the call ran

memVars == <<func, length>>
callVars == <<pc, seen, ran>>
vars == <<redis, memVars, file, pending, uploaded, callVars>>

Writes == [server : Servers, op : {"set", "setnx"}, text : Versions]

Init ==
    /\ redis = None
    /\ func = [s \in Servers |-> None]
    /\ length = [s \in Servers |-> 0]
    /\ file \in [Servers -> {Image, None}]
    /\ pending = {}
    /\ uploaded = {}
    /\ pc = [c \in Calls |-> "idle"]
    /\ seen = [c \in Calls |-> None]
    /\ ran = [c \in Calls |-> None]

\* Mutant: the length is taken with a final newline the text does not have.
RememberLonger(s, v, n) ==
    /\ func' = [func EXCEPT ![s] = v]
    /\ length' = [length EXCEPT ![s] = n + 1]

\* The function and the length of its text are kept together.
Remember(s, v, n) ==
    /\ func' = [func EXCEPT ![s] = v]
    /\ length' = [length EXCEPT ![s] = n]

-----------------------------------------------------------------------------
(* Calling the script: exec_script *)

\* exec_cache.get reads the text and suspends the call until the reply is in.
Read(c) ==
    /\ pc[c] = "idle"
    /\ pc' = [pc EXCEPT ![c] = "read"]
    /\ seen' = [seen EXCEPT ![c] = redis]
    /\ UNCHANGED <<redis, memVars, file, pending, uploaded, ran>>

Return(c, v) ==
    /\ pc' = [pc EXCEPT ![c] = "done"]
    /\ ran' = [ran EXCEPT ![c] = v]
    /\ UNCHANGED seen

\* Mutant: the lengths are not compared, any function in memory will do.
TrustsMemoryAlways(s, n) == length[s] # 0

\* The function in memory is taken for the text if their lengths agree.
TrustsMemory(s, n) == length[s] = n

\* get: the lengths agree.
UseMemory(c) ==
    LET s == ServerOf[c]
    IN  /\ pc[c] = "read" /\ seen[c] # None
        /\ TrustsMemory(s, Bytes[seen[c]])
        /\ Return(c, func[s])
        /\ UNCHANGED <<redis, memVars, file, pending, uploaded>>

\* get: they do not, the text from Redis is compiled and kept.
Compile(c) ==
    LET s == ServerOf[c]
    IN  /\ pc[c] = "read" /\ seen[c] # None
        /\ ~ TrustsMemory(s, Bytes[seen[c]])
        /\ Remember(s, seen[c], Bytes[seen[c]])
        /\ Return(c, seen[c])
        /\ UNCHANGED <<redis, file, pending, uploaded>>

\* Mutant: the length is updated even where the function is kept.
SetDefaultLength(s, v) ==
    /\ pending' = pending \union (IF func[s] = None THEN {[server |-> s, op |-> "setnx", text |-> v]} ELSE {})
    /\ func' = [func EXCEPT ![s] = IF @ = None THEN v ELSE @]
    /\ length' = [length EXCEPT ![s] = Chars[v]]

\* Mutant: the background write is a SET.
SetDefaultOverwrites(s, v) ==
    /\ pending' = pending \union (IF func[s] = None THEN {[server |-> s, op |-> "set", text |-> v]} ELSE {})
    /\ func' = [func EXCEPT ![s] = IF @ = None THEN v ELSE @]
    /\ length' = [length EXCEPT ![s] = IF @ = 0 THEN Chars[v] ELSE @]

\* setdefault: what is in memory stays; a first function is offered to Redis.
SetDefault(s, v) ==
    /\ pending' = pending \union (IF func[s] = None THEN {[server |-> s, op |-> "setnx", text |-> v]} ELSE {})
    /\ func' = [func EXCEPT ![s] = IF @ = None THEN v ELSE @]
    /\ length' = [length EXCEPT ![s] = IF @ = 0 THEN Chars[v] ELSE @]

\* Nothing in Redis: execute_get_main with the file on disk.
RunFile(c) ==
    LET s == ServerOf[c]
    IN  /\ pc[c] = "read" /\ seen[c] = None
        /\ file[s] \in Versions
        /\ \/ /\ TrustsMemory(s, Chars[file[s]])
              /\ Return(c, func[s])
              /\ UNCHANGED <<memVars, pending>>
           \/ /\ ~ TrustsMemory(s, Chars[file[s]])
              /\ SetDefault(s, file[s])
              /\ Return(c, file[s])
        /\ UNCHANGED <<redis, file, uploaded>>

\* The call fails: Redis does not answer, there is no file and open() fails, or
\* the text to be compiled raises in exec() or defines no main, as an empty one
\* does.  What is in memory stays.
Fail(c) ==
    LET s == ServerOf[c]
        uncompiled == \/ seen[c] # None /\ ~ TrustsMemory(s, Bytes[seen[c]])
                      \/ seen[c] = None /\ file[s] \in Versions /\ ~ TrustsMemory(s, Chars[file[s]])
                      \/ seen[c] = None /\ file[s] \notin Versions
    IN  /\ pc[c] = "idle" \/ (pc[c] = "read" /\ uncompiled)
        /\ pc' = [pc EXCEPT ![c] = "failed"]
        /\ UNCHANGED <<redis, memVars, file, pending, uploaded, seen, ran>>

-----------------------------------------------------------------------------
(* Uploading a version: upload_script_handler *)

\* The function replaces the one in memory, the text goes to Redis in the
\* background and to the server's disk.  The file may not open, or open, which
\* empties it, and not be written.  Bound: each version is uploaded once.
Upload(s, v) ==
    /\ v \notin uploaded
    /\ Remember(s, v, Chars[v])
    /\ pending' = pending \union {[server |-> s, op |-> "set", text |-> v]}
    /\ \E text \in {file[s], Empty, v} : file' = [file EXCEPT ![s] = text]
    /\ uploaded' = uploaded \union {v}
    /\ UNCHANGED <<redis, callVars>>

\* A background write runs; nothing orders two of them.
Land(w) ==
    /\ w \in pending
    /\ pending' = pending \ {w}
    /\ redis' = IF w.op = "set" \/ redis = None THEN w.text ELSE redis
    /\ UNCHANGED <<memVars, file, uploaded, callVars>>

\* It fails, which nobody looks at.
Lose(w) ==
    /\ w \in pending
    /\ pending' = pending \ {w}
    /\ UNCHANGED <<redis, memVars, file, uploaded, callVars>>

-----------------------------------------------------------------------------
(* The environment *)

\* A server restarts, on its disk or on the image's: memory, tasks and calls
\* are gone.
Restart(s) ==
    /\ func[s] # None \/ \E w \in pending : w.server = s
    /\ func' = [func EXCEPT ![s] = None]
    /\ length' = [length EXCEPT ![s] = 0]
    /\ file' \in {file, [file EXCEPT ![s] = Image]}
    /\ pending' = {w \in pending : w.server # s}
    /\ pc' = [c \in Calls |-> IF ServerOf[c] = s /\ pc[c] = "read" THEN "failed" ELSE pc[c]]
    /\ UNCHANGED <<redis, uploaded, seen, ran>>

\* The key is deleted from Redis.
DeleteKey ==
    /\ redis # None
    /\ redis' = None
    /\ UNCHANGED <<memVars, file, pending, uploaded, callVars>>

Next ==
    \/ \E c \in Calls : Read(c) \/ UseMemory(c) \/ Compile(c) \/ RunFile(c) \/ Fail(c)
    \/ \E s \in Servers : Restart(s) \/ \E v \in Versions : Upload(s, v)
    \/ \E w \in pending : Land(w) \/ Lose(w)
    \/ DeleteKey

Spec == Init /\ [][Next]_vars

-----------------------------------------------------------------------------
(* Properties *)

\* Every variable has its type.
TypeOK ==
    /\ redis \in Versions \union {None}
    /\ func \in [Servers -> Versions \union {None}]
    /\ length \in [Servers -> {0} \union {Chars[v] : v \in Versions} \union {Bytes[v] : v \in Versions}]
    /\ file \in [Servers -> Versions \union {None, Empty}]
    /\ pending \in SUBSET Writes
    /\ uploaded \in SUBSET Versions
    /\ pc \in [Calls -> {"idle", "read", "done", "failed"}]
    /\ seen \in [Calls -> Versions \union {None}]
    /\ ran \in [Calls -> Versions \union {None}]

\* The length a server remembers, counted in one way or the other, is that of
\* the text of the function it has in memory,
\* whichever of get, set, setdefault and a restart touched them, in whatever
\* order calls and uploads interleave: otherwise a stale function would pass
\* for the text in Redis, or a KeyError be raised (exec_cache.py:46).
LengthTracksFunction ==
    \A s \in Servers :
        IF func[s] = None THEN length[s] = 0 ELSE length[s] \in {Chars[func[s]], Bytes[func[s]]}

\* Only an upload replaces a text that is in Redis: a server that starts from
\* the file of its image offers it, and never overrides what was uploaded
\* (exec_cache.py:65 "setnx is SET if key does not exist").
OnlyUploadsReplace == [][redis # None => redis' \in {redis, None} \union uploaded]_vars

\* A call that finds a text in Redis runs a text of its length, in bytes or in
\* characters, however uploads and other calls replace the function while the
\* call waits for Redis (exec_cache.py:30): a stale function survives only
\* where the lengths cannot tell it.
RunsTextOfRedisLength ==
    \A c \in Calls : pc[c] = "done" /\ seen[c] # None =>
        ran[c] \in Versions /\ Bytes[seen[c]] \in {Chars[ran[c]], Bytes[ran[c]]}
=============================================================================
