--------------------------- MODULE LibCacheProofs ----------------------------
(***************************************************************************)
(* LibCache, for any number of servers, loads and versions, whatever their *)
(* lengths: what a server remembers is the length of its file, and a load  *)
(* leaves a file, and a module, as long as the text it found in Redis.     *)
(***************************************************************************)
EXTENDS LibCache, TLAPS

\* A script imports right after load_lib, so a server that remembers no
\* length has imported nothing (exec_cache.py:90-121).
NothingImported == \A s \in Servers : length[s] = NoLength => module[s] = None

\* An imported module is the file, unless an upload replaced the file under it.
ModuleTracksFile ==
    \A s \in Servers \ unannounced : module[s] # None => module[s] = file[s]

IInv == TypeOK /\ LengthTracksFile /\ NothingImported /\ ModuleTracksFile

USE ServerOfAssumption, LengthsAssumption, ImageAssumption DEF NoLength, Texts, Size, LengthsOf

\* The initial state (nothing imported, no length) satisfies the invariant.
LEMMA InitIInv == Init => IInv
  BY SMT DEF Init, IInv, TypeOK, LengthTracksFile, NothingImported, ModuleTracksFile

\* Reading Redis (load_lib up to its await) keeps the invariant.
LEMMA ReadKeeps == ASSUME IInv, NEW c \in Loads, Read(c) PROVE IInv'
  BY SMT DEF IInv, TypeOK, LengthTracksFile, NothingImported, ModuleTracksFile, Read, diskVars

\* So does remembering the length of the file that is there, and importing it.
LEMMA LoadFileKeeps == ASSUME IInv, NEW c \in Loads, LoadFile(c) PROVE IInv'
<1>1. TypeOK'
  BY SMT DEF IInv, TypeOK, LoadFile, Import, End, Unannounced
<1>2. LengthTracksFile' /\ NothingImported' /\ ModuleTracksFile'
  BY SMT DEF IInv, TypeOK, LengthTracksFile, NothingImported, ModuleTracksFile,
             LoadFile, Import, End, Unannounced
<1> QED BY <1>1, <1>2 DEF IInv

\* So does importing a file that is up to date.
LEMMA LoadSameKeeps == ASSUME IInv, NEW c \in Loads, LoadSame(c) PROVE IInv'
<1>0. length[ServerOf[c]] # NoLength
  BY SMT DEF IInv, TypeOK, LoadSame, UpToDate
<1>1. TypeOK'
  BY SMT DEF IInv, TypeOK, LoadSame, Import, End, Unannounced
<1>2. LengthTracksFile' /\ NothingImported' /\ ModuleTracksFile'
  BY <1>0, SMT DEF IInv, TypeOK, LengthTracksFile, NothingImported, ModuleTracksFile,
             LoadSame, Import, End, Unannounced
<1> QED BY <1>1, <1>2 DEF IInv

\* Writing a new file keeps it because the module is reloaded, except the
\* first time, when there is none.
LEMMA LoadChangedKeeps == ASSUME IInv, NEW c \in Loads, LoadChanged(c) PROVE IInv'
<1>1. TypeOK'
  BY SMT DEF IInv, TypeOK, LoadChanged, Import, End, Unannounced
<1>2. LengthTracksFile' /\ NothingImported' /\ ModuleTracksFile'
  BY SMT DEF IInv, TypeOK, LengthTracksFile, NothingImported, ModuleTracksFile,
             LoadChanged, Import, End, Unannounced
<1> QED BY <1>1, <1>2 DEF IInv

\* A load that fails changes nothing on its server.
LEMMA LoadFailsKeeps == ASSUME IInv, NEW c \in Loads, LoadFails(c) PROVE IInv'
  BY SMT DEF IInv, TypeOK, LengthTracksFile, NothingImported, ModuleTracksFile,
             LoadFails, End, diskVars

\* Nor does one that emptied the file and kept the length: its server is one
\* whose last write failed.
LEMMA LoadTornKeeps == ASSUME IInv, NEW c \in Loads, LoadTorn(c) PROVE IInv'
<1>1. TypeOK'
  BY SMT DEF IInv, TypeOK, LoadTorn, End, Unannounced
<1>2. LengthTracksFile' /\ NothingImported' /\ ModuleTracksFile'
  BY SMT DEF IInv, TypeOK, LengthTracksFile, NothingImported, ModuleTracksFile,
             LoadTorn, End, Unannounced
<1> QED BY <1>1, <1>2 DEF IInv

\* An upload remembers the length first: if the write fails, the server is
\* one whose file is not the upload's.
LEMMA UploadKeeps ==
    ASSUME IInv, NEW s \in Servers, NEW v \in Versions, Upload(s, v) PROVE IInv'
<1>1. TypeOK'
  BY SMT DEF IInv, TypeOK, Upload, loadVars, Unannounced
<1>2. LengthTracksFile' /\ NothingImported' /\ ModuleTracksFile'
  BY SMT DEF IInv, TypeOK, LengthTracksFile, NothingImported, ModuleTracksFile, Upload,
             Unannounced
<1> QED BY <1>1, <1>2 DEF IInv

\* A background write that lands or is lost leaves the servers alone.
LEMMA LandKeeps == ASSUME IInv, NEW w \in pending, Land(w) PROVE IInv'
  BY SMT DEF IInv, TypeOK, LengthTracksFile, NothingImported, ModuleTracksFile, Land,
             diskVars, loadVars

\* A restart forgets the length and the module together.
LEMMA RestartKeeps == ASSUME IInv, NEW s \in Servers, Restart(s) PROVE IInv'
<1>1. TypeOK'
  BY SMT DEF IInv, TypeOK, Restart
<1>2. LengthTracksFile' /\ NothingImported' /\ ModuleTracksFile'
  BY SMT DEF IInv, TypeOK, LengthTracksFile, NothingImported, ModuleTracksFile, Restart
<1> QED BY <1>1, <1>2 DEF IInv

\* Every step of load_lib, of an upload, of Redis and of a restart keeps it.
LEMMA NextIInv == IInv /\ [Next]_vars => IInv'
<1> SUFFICES ASSUME IInv, [Next]_vars PROVE IInv'
  OBVIOUS
<1>1. ASSUME NEW c \in Loads, Load(c) PROVE IInv'
  BY <1>1, ReadKeeps, LoadFileKeeps, LoadSameKeeps, LoadChangedKeeps, LoadFailsKeeps,
     LoadTornKeeps DEF Load
<1>2. CASE DeleteKey
  BY <1>2, SMT DEF IInv, TypeOK, LengthTracksFile, NothingImported, ModuleTracksFile,
                   DeleteKey, diskVars, loadVars
<1>3. CASE UNCHANGED vars
  BY <1>3, SMT DEF IInv, TypeOK, LengthTracksFile, NothingImported, ModuleTracksFile,
                   vars, diskVars, loadVars
<1> QED BY <1>1, <1>2, <1>3, UploadKeeps, LandKeeps, RestartKeeps DEF Next

\* The invariant holds throughout, whatever loads, uploads and restarts do.
LEMMA Invariance == Spec => []IInv
  BY InitIInv, NextIInv, PTL DEF Spec

\* Type correctness, for every number of servers, loads and versions.
THEOREM TypeCorrectness == Spec => []TypeOK
<1>1. IInv => TypeOK
  BY DEF IInv
<1> QED BY <1>1, Invariance, PTL

\* The length a server remembers (lib_content_length) is that of the file on
\* its disk, unless the last write of it failed.
THEOREM LengthIsOfFile == Spec => []LengthTracksFile
<1>1. IInv => LengthTracksFile
  BY DEF IInv
<1> QED BY <1>1, Invariance, PTL

-----------------------------------------------------------------------------
(* What comparing lengths is worth *)

\* Only load_lib takes a load to its end.
LEMMA WhoFinishes ==
    ASSUME IInv, [Next]_vars, NEW c \in Loads, Finishes(c)
    PROVE  LoadSame(c) \/ LoadChanged(c)
<1>0. pc[c] = "read" /\ pc'[c] = "done" /\ seen[c] # None
        /\ pc \in [Loads -> {"idle", "read", "done", "failed"}]
  BY DEF Finishes, IInv, TypeOK
<1>1. CASE Load(c)
  <2>1. ~ Read(c)
    BY <1>0, SMT DEF Read
  <2>2. ~ LoadFile(c)
    BY <1>0, Zenon DEF LoadFile
  <2>3. ~ LoadFails(c) /\ ~ LoadTorn(c)
    BY <1>0, SMT DEF LoadFails, LoadTorn, End
  <2> QED BY <1>1, <2>1, <2>2, <2>3 DEF Load
<1>2. ASSUME NEW d \in Loads \ {c}, Load(d) PROVE FALSE
  <2>1. ASSUME NEW l, pc' = [pc EXCEPT ![d] = l] PROVE FALSE
    BY <1>0, <1>2, <2>1, SMT
  <2>2. \E l : pc' = [pc EXCEPT ![d] = l]
    BY <1>2, Zenon DEF Load, Read, LoadFile, LoadSame, LoadChanged, LoadFails, LoadTorn,
                         Import, End
  <2> QED BY <2>1, <2>2
<1>3. ASSUME NEW s \in Servers, Restart(s) PROVE FALSE
  BY <1>3, SMT DEF Finishes, Restart, IInv, TypeOK
<1>4. ASSUME NEW s \in Servers, NEW v \in Versions, Upload(s, v) PROVE FALSE
  BY <1>4, SMT DEF Finishes, Upload, loadVars
<1>5. CASE (\E w \in pending : Land(w)) \/ DeleteKey \/ UNCHANGED vars
  BY <1>5, SMT DEF Finishes, Land, DeleteKey, loadVars, vars
<1> QED BY <1>1, <1>2, <1>3, <1>4, <1>5 DEF Next

\* A file whose remembered length is that of the text from Redis is as long as
\* that text (exec_cache.py:112).
LEMMA UpToDateFits ==
    ASSUME IInv, NEW s \in Servers \ unwritten, NEW v \in Versions, UpToDate(s, v)
    PROVE  file[s] # None /\ Bytes[v] \in LengthsOf(file[s])
<1>1. length[s] = Bytes[v] /\ Bytes[v] # NoLength
  BY SMT DEF UpToDate
<1> QED BY <1>1 DEF IInv, LengthTracksFile

\* So load_lib leaves a file as long as the text it found in Redis, whatever
\* the lengths of the versions and whatever happened while it waited.
LEMMA LoadFits ==
    ASSUME IInv, [Next]_vars, NEW c \in Loads, Finishes(c), ServerOf[c] \notin unwritten'
    PROVE  file'[ServerOf[c]] # None /\ Bytes[seen[c]] \in LengthsOf(file'[ServerOf[c]])
<1>1. ServerOf[c] \in Servers /\ seen[c] \in Versions
  BY SMT DEF IInv, TypeOK, Finishes
<1>2. CASE LoadSame(c)
  BY <1>1, <1>2, UpToDateFits DEF LoadSame
<1>3. CASE LoadChanged(c)
  <2>1. file'[ServerOf[c]] = seen[c]
    BY <1>1, <1>3, SMT DEF LoadChanged, IInv, TypeOK
  <2> QED BY <1>1, <2>1, SMT DEF LengthsOf
<1> QED BY <1>2, <1>3, WhoFinishes

\* The file load_lib leaves on the disk is as long as the text it found in
\* Redis, unless the last write of the file has failed.
THEOREM FileFitsRedis == Spec => LoadedFileFits
<1>1. IInv /\ [Next]_vars =>
        [\A c \in Loads : Finishes(c) /\ ServerOf[c] \notin unwritten' =>
            file'[ServerOf[c]] # None
            /\ Bytes[seen[c]] \in LengthsOf(file'[ServerOf[c]])]_vars
  BY LoadFits
<1> QED BY <1>1, Invariance, PTL DEF Spec, LoadedFileFits

\* And the script then runs that file: load_lib asked for the reload, or there
\* was no module yet; unless the file was replaced under the module.
THEOREM ScriptFitsRedis == Spec => ScriptTextFits
<1>1. ASSUME IInv, [Next]_vars, NEW c \in Loads, Finishes(c),
             ServerOf[c] \notin (unwritten \union unannounced)'
      PROVE  module'[ServerOf[c]] # None
             /\ Bytes[seen[c]] \in LengthsOf(module'[ServerOf[c]])
  <2>0. ServerOf[c] \in Servers /\ pc'[c] = "done" /\ pc \in [Loads -> {"idle", "read", "done", "failed"}]
    BY <1>1 DEF IInv, TypeOK, Finishes
  <2>1. file'[ServerOf[c]] # None /\ Bytes[seen[c]] \in LengthsOf(file'[ServerOf[c]])
    BY <1>1, LoadFits
  <2>2. CASE LoadSame(c)
    <3>1. module'[ServerOf[c]] = file[ServerOf[c]] /\ file' = file
      BY <1>1, <2>0, <2>1, <2>2, SMT
      DEF LoadSame, Import, End, IInv, TypeOK, ModuleTracksFile
    <3> QED BY <2>1, <3>1
  <2>3. CASE LoadChanged(c)
    <3>1. module[ServerOf[c]] = None \/ length[ServerOf[c]] # NoLength
      BY <1>1, <2>0 DEF IInv, NothingImported
    <3>2. module'[ServerOf[c]] = file'[ServerOf[c]]
      BY <1>1, <2>0, <2>3, <3>1, SMT DEF LoadChanged, Import, End, IInv, TypeOK
    <3> QED BY <2>1, <3>2
  <2> QED BY <1>1, <2>2, <2>3, WhoFinishes
<1>2. IInv /\ [Next]_vars =>
        [\A c \in Loads : Finishes(c) /\ ServerOf[c] \notin (unwritten \union unannounced)' =>
            module'[ServerOf[c]] # None
            /\ Bytes[seen[c]] \in LengthsOf(module'[ServerOf[c]])]_vars
  BY <1>1
<1> QED BY <1>2, Invariance, PTL DEF Spec, ScriptTextFits
=============================================================================
