------------------------------ MODULE LibCache ------------------------------
(***************************************************************************)
(* Library files of the scripting servers, for ONE library.  A script that *)
(* needs it calls load_lib, which brings the file on the server's disk up  *)
(* to the text in Redis and says whether it changed; the script imports    *)
(* the module, and reloads it if it did (the way the example script of the *)
(* repository does).  Uploads write Redis in the background, the server's  *)
(* disk, and the length it remembers.                                      *)
(*                                                                         *)
(* A handler is atomic between two awaits that suspend it (asyncio).       *)
(***************************************************************************)
EXTENDS Integers

CONSTANTS
    Servers,    \* scripting servers
    Loads,      \* scripts that load the library
    ServerOf,   \* the server a script runs on
    Versions,   \* texts of the library
    Image,      \* the version that is part of the deployed image
    Chars,      \* the length of a version's text, as a Python string
    Bytes,      \* and as bytes, in Redis and on disk
    Broken,     \* the versions whose import raises; nothing validates a library
    DiskFaults, \* whether writing a file may fail once it is open
    Empty,      \* the text of a file that was opened for writing and no more
    None        \* no version

ASSUME ServerOfAssumption == ServerOf \in [Loads -> Servers]
ASSUME LengthsAssumption ==
    /\ Chars \in [Versions -> Nat \ {0}] /\ Bytes \in [Versions -> Nat \ {0}]
    /\ \A v \in Versions : Chars[v] <= Bytes[v]
ASSUME ImageAssumption ==
    /\ Image \in Versions /\ Broken \subseteq Versions /\ DiskFaults \in BOOLEAN
    /\ None \notin Versions \union {Empty} /\ Empty \notin Versions

VARIABLES
    redis,      \* the text in Redis
    length,     \* content_length of each server, NoLength for none
    file,       \* the library file on each server's disk
    module,     \* the text of the module each server has imported
    pending,    \* background writes to Redis that have not run yet
    uploaded,   \* versions uploaded so far
    pc,         \* where each load is
    seen,       \* what it read from Redis
    unwritten,  \* history: servers whose last write of the file failed
    unannounced \* history: servers whose file was replaced under the module

diskVars == <<length, file, module, unwritten, unannounced>>
loadVars == <<pc, seen>>
vars == <<redis, diskVars, pending, uploaded, loadVars>>

NoLength == -1

Texts == Versions \union {Empty}

\* os.path.getsize of a file with text t.
Size(t) == IF t = Empty THEN 0 ELSE Bytes[t]

\* The lengths that may be remembered for text t.
LengthsOf(t) == IF t = Empty THEN {0} ELSE {Chars[t], Bytes[t]}

Init ==
    /\ redis \in {Image, None}
    /\ length = [s \in Servers |-> NoLength]
    /\ file \in [Servers -> {Image, None}]
    /\ module = [s \in Servers |-> None]
    /\ pending = {}
    /\ uploaded = {}
    /\ pc = [c \in Loads |-> "idle"]
    /\ seen = [c \in Loads |-> None]
    /\ unwritten = {} /\ unannounced = {}

-----------------------------------------------------------------------------
(* load_lib, and the import that follows it *)

\* The script waits for the reply of Redis.
Read(c) ==
    /\ pc[c] = "idle"
    /\ pc' = [pc EXCEPT ![c] = "read"]
    /\ seen' = [seen EXCEPT ![c] = redis]
    /\ UNCHANGED <<redis, diskVars, pending, uploaded>>

End(c, l) == pc' = [pc EXCEPT ![c] = l] /\ UNCHANGED <<redis, pending, uploaded, seen>>

\* The module, if there is one, is no longer that of the file.
Unannounced(s) == IF module[s] = None THEN unannounced ELSE unannounced \union {s}

\* import reads the file once; reload reads it again.  If that raises, the
\* script fails and the module stays the one it was.
Import(c, reload) ==
    LET s == ServerOf[c]
        reads == module[s] = None \/ reload
        raises == file'[s] \in Broken \union {None}
    IN  \/ /\ ~ reads
           /\ UNCHANGED <<module, unannounced>>
           /\ End(c, "done")
        \/ /\ reads /\ ~ raises
           /\ module' = [module EXCEPT ![s] = file'[s]]
           /\ unannounced' = unannounced \ {s}
           /\ End(c, "done")
        \/ /\ reads /\ raises
           /\ unannounced' = Unannounced(s)
           /\ UNCHANGED module
           /\ End(c, "failed")

\* The key is not in Redis, the file is there: its size is remembered.
LoadFile(c) ==
    LET s == ServerOf[c]
    IN  /\ pc[c] = "read" /\ seen[c] = None /\ file[s] # None
        /\ length' = [length EXCEPT ![s] = Size(file[s])]
        /\ unwritten' = unwritten \ {s}
        /\ UNCHANGED file
        /\ Import(c, FALSE)

\* Mutant: only a library that was never loaded is written.
UpToDateOnce(s, v) == length[s] # NoLength

\* The file is taken for the text in Redis if their lengths agree.
UpToDate(s, v) == length[s] = Bytes[v]

LoadSame(c) ==
    LET s == ServerOf[c]
    IN  /\ pc[c] = "read" /\ seen[c] # None
        /\ UpToDate(s, seen[c])
        /\ UNCHANGED <<length, file, unwritten>>
        /\ Import(c, FALSE)

\* Mutant: load_lib says that nothing changed.
LoadChangedQuietly(c) ==
    LET s == ServerOf[c]
    IN  /\ pc[c] = "read" /\ seen[c] # None
        /\ ~ UpToDate(s, seen[c])
        /\ file' = [file EXCEPT ![s] = seen[c]]
        /\ length' = [length EXCEPT ![s] = Bytes[seen[c]]]
        /\ unwritten' = unwritten \ {s}
        /\ Import(c, FALSE)

\* Mutant: the new length is not remembered.
LoadChangedForgets(c) ==
    LET s == ServerOf[c]
    IN  /\ pc[c] = "read" /\ seen[c] # None
        /\ ~ UpToDate(s, seen[c])
        /\ file' = [file EXCEPT ![s] = seen[c]]
        /\ unwritten' = unwritten \ {s}
        /\ UNCHANGED length
        /\ Import(c, length[s] # NoLength)

\* Otherwise the file is written; it has changed if its length was known.
LoadChanged(c) ==
    LET s == ServerOf[c]
    IN  /\ pc[c] = "read" /\ seen[c] # None
        /\ ~ UpToDate(s, seen[c])
        /\ file' = [file EXCEPT ![s] = seen[c]]
        /\ length' = [length EXCEPT ![s] = Bytes[seen[c]]]
        /\ unwritten' = unwritten \ {s}
        /\ Import(c, length[s] # NoLength)

\* Redis does not answer, there is neither a text nor a file, or the file
\* cannot be opened for writing (its folder is not there): an exception.
LoadFails(c) ==
    /\ \/ pc[c] = "idle"
       \/ pc[c] = "read" /\ seen[c] = None /\ file[ServerOf[c]] = None
       \/ pc[c] = "read" /\ seen[c] # None /\ ~ UpToDate(ServerOf[c], seen[c])
    /\ End(c, "failed")
    /\ UNCHANGED diskVars

\* Or the file is opened, which empties it, and not written (the disk is
\* full, the text is not UTF-8): the length stays that of the lost text.
LoadTorn(c) ==
    LET s == ServerOf[c]
    IN  /\ DiskFaults
        /\ pc[c] = "read" /\ seen[c] # None
        /\ ~ UpToDate(s, seen[c])
        /\ file' = [file EXCEPT ![s] = Empty]
        /\ unwritten' = unwritten \union {s}
        /\ unannounced' = Unannounced(s)
        /\ UNCHANGED <<length, module>>
        /\ End(c, "failed")

-----------------------------------------------------------------------------
(* upload_script_handler, for a library *)

\* The length is remembered before the file is written.  That may fail, in
\* opening the file, which leaves it, or in writing, which leaves it empty.
\* Bound: each version is uploaded once.
Upload(s, v) ==
    /\ v \notin uploaded
    /\ length' = [length EXCEPT ![s] = Chars[v]]
    /\ pending' = pending \union {[server |-> s, text |-> v]}
    /\ uploaded' = uploaded \union {v}
    /\ \/ /\ file' = [file EXCEPT ![s] = v]
          /\ unwritten' = unwritten \ {s}
          /\ unannounced' = Unannounced(s)
       \/ /\ DiskFaults
          /\ unwritten' = unwritten \union {s}
          /\ \/ UNCHANGED <<file, unannounced>>
             \/ /\ file' = [file EXCEPT ![s] = Empty]
                /\ unannounced' = Unannounced(s)
    /\ UNCHANGED <<redis, module, loadVars>>

\* A background SET runs, in any order with others, or fails unnoticed.
Land(w) ==
    /\ w \in pending
    /\ pending' = pending \ {w}
    /\ redis' \in {w.text, redis}
    /\ UNCHANGED <<diskVars, uploaded, loadVars>>

-----------------------------------------------------------------------------
(* The environment *)

\* Mutant: the lengths outlive the restart.
RestartKeepsLengths(s) ==
    /\ module' = [module EXCEPT ![s] = None]
    /\ file' \in {file, [file EXCEPT ![s] = Image]}
    /\ pending' = {w \in pending : w.server # s}
    /\ pc' = [c \in Loads |-> IF ServerOf[c] = s /\ pc[c] = "read" THEN "failed" ELSE pc[c]]
    /\ UNCHANGED <<redis, length, unwritten, unannounced, uploaded, seen>>

\* A server restarts, on its disk or on the image's.
Restart(s) ==
    /\ length' = [length EXCEPT ![s] = NoLength]
    /\ module' = [module EXCEPT ![s] = None]
    /\ file' \in {file, [file EXCEPT ![s] = Image]}
    /\ pending' = {w \in pending : w.server # s}
    /\ pc' = [c \in Loads |-> IF ServerOf[c] = s /\ pc[c] = "read" THEN "failed" ELSE pc[c]]
    /\ unwritten' = unwritten \ {s} /\ unannounced' = unannounced \ {s}
    /\ UNCHANGED <<redis, uploaded, seen>>

\* The key is deleted from Redis.
DeleteKey ==
    /\ redis # None
    /\ redis' = None
    /\ UNCHANGED <<diskVars, pending, uploaded, loadVars>>

Load(c) == Read(c) \/ LoadFile(c) \/ LoadSame(c) \/ LoadChanged(c) \/ LoadFails(c)
           \/ LoadTorn(c)

Next ==
    \/ \E c \in Loads : Load(c)
    \/ \E s \in Servers : Restart(s) \/ \E v \in Versions : Upload(s, v)
    \/ \E w \in pending : Land(w)
    \/ DeleteKey

Spec == Init /\ [][Next]_vars

-----------------------------------------------------------------------------
(* Properties *)

\* Every variable has its type.
TypeOK ==
    /\ redis \in Versions \union {None}
    /\ length \in [Servers -> Nat \union {NoLength}]
    /\ file \in [Servers -> Texts \union {None}]
    /\ module \in [Servers -> Texts \union {None}]
    /\ pending \in SUBSET [server : Servers, text : uploaded]
    /\ uploaded \in SUBSET Versions
    /\ pc \in [Loads -> {"idle", "read", "done", "failed"}]
    /\ seen \in [Loads -> Versions \union {None}]
    /\ unwritten \in SUBSET Servers /\ unannounced \in SUBSET Servers
    /\ \A s \in unannounced : module[s] # None

\* The length a server remembers is that of its file, counted in one way or
\* the other, however loads, late replies, uploads and restarts interleave;
\* except while the last write of the file has failed: an upload remembers the
\* length first, a load only afterwards, and opening the file empties it
\* (exec_cache.py:106, :114, :120, server.py:503).
LengthTracksFile ==
    \A s \in Servers \ unwritten :
        length[s] # NoLength => file[s] # None /\ length[s] \in LengthsOf(file[s])

Finishes(c) == pc[c] = "read" /\ pc'[c] = "done" /\ seen[c] # None

\* A load that found a text in Redis leaves on disk a text that is as long, as
\* bytes or as characters, whatever was loaded, uploaded or restarted while it
\* waited; and where the last write had failed, the next load that sees another
\* length repairs it.  It is what comparing lengths ensures, and no more: a text
\* of the same length is not written, nor is one whose upload remembered its
\* length and failed (exec_cache.py:112).
LoadedFileFits ==
    [][\A c \in Loads : Finishes(c) /\ ServerOf[c] \notin unwritten' =>
            file'[ServerOf[c]] # None /\ Bytes[seen[c]] \in LengthsOf(file'[ServerOf[c]])]_vars

\* And the script works with such a text: load_lib asks for a reload whenever
\* the length in memory differs from the new one.  Where the file was replaced
\* under the module, by an upload through the same server or by a reload that
\* raised, the length is the new file's, and the old module stays until a load
\* sees another length, and no longer (exec_cache.py:116-117).
ScriptTextFits ==
    [][\A c \in Loads : Finishes(c) /\ ServerOf[c] \notin (unwritten \union unannounced)' =>
            module'[ServerOf[c]] # None
            /\ Bytes[seen[c]] \in LengthsOf(module'[ServerOf[c]])]_vars
=============================================================================
