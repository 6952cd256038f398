--------------------------- MODULE ProfileProofs ---------------------------
(***************************************************************************)
(* The profile and the processes that open it: the safety invariants of     *)
(* DaemonLock and the refinement of AtomicFile, for every set of processes  *)
(* and service tasks and every bound on changes and faults.                 *)
(***************************************************************************)
EXTENDS DaemonLock, TLAPS

(* Where a process holds the profile's lock, and where it has loaded the    *)
(* local storage as well.                                                   *)
Holding == {"load", "publish", "serve", "closing"}
Loaded == \E p \in Procs : flock = p /\ pc[p] \in {"publish", "serve", "closing"}
Writing == {"sync", "rename", "dirsync"}

(* The file lock is held by exactly the process that is past Boot and not   *)
(* yet closed, and only a process that closes is saving.                    *)
HolderInv ==
    /\ \A p \in Procs : flock = p <=> pc[p] \in Holding
    /\ save.at # "off" <=> \E p \in Procs : pc[p] = "closing"
    /\ save.at = "off" => save = SaveOff

(* The disk: a name stands for something a crash may leave, and all that a  *)
(* crash may leave is whole or was foreign to begin with.                   *)
DiskInv ==
    \A f \in Files :
        /\ vis[f] \in dur[f]
        /\ \A c \in dur[f] : c.torn => c = Foreign

(* Live versions: nothing is newer than the last change, and what was       *)
(* answered, or is about to be, is in the live state.                       *)
MemInv ==
    /\ \A f \in Files : acked[f] <= mem[f] /\ mem[f] <= last /\ safe[f] <= last
    /\ \A f \in Files : \A c \in dur[f] : c.ver <= last
    /\ \A w \in Writers : wrote[w] <= mem["localstorage"] /\ (wrote[w] # 0 => Loaded)
    /\ flock # Nobody => mem["cookies"] >= safe["cookies"]
    /\ Loaded => mem["localstorage"] >= safe["localstorage"]

(* While the flag is down, the local storage file has every answered change. *)
CleanInv ==
    Loaded /\ ~ dirty /\ save.at # "ok" =>
        /\ ~ vis["localstorage"].torn
        /\ vis["localstorage"].ver >= acked["localstorage"]

(* The save in progress: its content is not older than what it must cover,  *)
(* it is synced before the rename, and once the local storage is being      *)
(* saved the cookies are settled.                                           *)
SaveInv ==
    /\ \A f \in Files : save.due[f] <= acked[f]
    /\ save.at \in Writing =>
         save.ver >= save.due[save.file] /\ save.ver >= safe[save.file] /\ save.ver <= last
    /\ save.at \in {"rename", "dirsync"} => save.synced
    /\ save.at = "dirsync" => vis[save.file] = Whole(save.ver)
    /\ save.at = "check" => save.file = "localstorage"
    /\ save.file = "localstorage" /\ save.at # "err" =>
         \A c \in dur["cookies"] : ~ c.torn /\ c.ver >= save.due["cookies"]
    /\ save.file = "localstorage" /\ save.at \in {"check", "export", "sync", "rename"} =>
         dur["localstorage"] = {vis["localstorage"]}
    /\ save.file = "localstorage" /\ save.at \in {"export"} \cup Writing => dirty

StoreInv ==
    /\ TypeOK
    /\ HolderInv
    /\ DiskInv
    /\ MemInv
    /\ CleanInv
    /\ SaveInv
    /\ SavedSurvives
    /\ EndpointTrue

-----------------------------------------------------------------------------
(* Facts about the operators. *)

(* The larger of two numbers, as the store picks the newest save. *)
LEMMA MaxOfTwo ==
    ASSUME NEW a \in Nat, NEW b \in Nat
    PROVE  Max({a, b}) = IF a >= b THEN a ELSE b
BY DEF Max

(* The contents of a file, by their fields. *)
LEMMA ContentFacts ==
    /\ Absent \in Content /\ Foreign \in Content /\ Absent # Foreign
    /\ Absent.ver = 0 /\ ~ Absent.torn /\ Foreign.ver = 0 /\ Foreign.torn
    /\ \A n \in 0..MaxVersion : Whole(n) \in Content /\ Whole(n).ver = n /\ ~ Whole(n).torn
    /\ \A c \in Content : c.ver \in 0..MaxVersion /\ c.torn \in BOOLEAN
BY StoreAssumption DEF Content, Whole, Absent, Foreign

(* The persist task before it starts. *)
LEMMA SaveOffFacts ==
    /\ SaveOff \in SaveTask /\ SaveOff.at = "off" /\ SaveOff.file = "cookies"
    /\ \A f \in Files : SaveOff.due[f] = 0
BY StoreAssumption DEF SaveOff, SaveTask, Stages, Files

(* The end of one file, by the fields of the persist task. *)
LEMMA FileEnds ==
    ASSUME StoreType, FileDone
    PROVE  /\ save' \in SaveTask /\ save'.ver = save.ver /\ save'.due = save.due
           /\ save'.file = "localstorage"
           /\ \/ save.file = "cookies" /\ save'.at = "check" /\ safe' = safe
              \/ /\ save.file = "localstorage" /\ save'.at = "ok"
                 /\ safe' \in [Files -> 0..MaxVersion]
                 /\ \A f \in Files : safe'[f] \in {safe[f], save.due[f]}
<1>1. \A f \in Files : Max({safe[f], save.due[f]}) \in {safe[f], save.due[f]}
    BY MaxOfTwo, StoreAssumption DEF StoreType, SaveTask
<1>2. CASE save.file = "cookies"
    BY <1>2 DEF FileDone, StoreType, SaveTask, Stages, Files
<1>3. CASE save.file = "localstorage"
  <2>1. safe' = [f \in Files |-> Max({safe[f], save.due[f]})]
    BY <1>3 DEF FileDone
  <2>2. safe' \in [Files -> 0..MaxVersion] /\ \A f \in Files : safe'[f] \in {safe[f], save.due[f]}
    BY <1>1, <2>1 DEF StoreType, SaveTask
  <2> QED BY <1>3, <2>2 DEF FileDone, StoreType, SaveTask, Stages
<1> QED BY <1>2, <1>3 DEF StoreType, SaveTask, Files

-----------------------------------------------------------------------------
(* The invariant is inductive. *)

(* A daemon starts with empty files on a disk nobody has locked. *)
LEMMA StoreInitial == Init => StoreInv
<1> SUFFICES ASSUME Init PROVE StoreInv
    OBVIOUS
<1> USE StoreAssumption, DaemonAssumption, ContentFacts, SaveOffFacts DEF Init, StoreInit, Files
<1>0. vis \in [Files -> Content] /\ dur \in [Files -> SUBSET Content]
    OBVIOUS
<1>1. TypeOK
  <2>1. StoreType
    BY <1>0 DEF StoreType
  <2> QED BY <2>1 DEF TypeOK, Stage
<1>2. HolderInv /\ EndpointTrue
    BY DEF HolderInv, Holding, EndpointTrue
<1>3. DiskInv /\ MemInv
    BY DEF DiskInv, MemInv, Loaded
<1>4. CleanInv /\ SaveInv /\ SavedSurvives
    BY DEF CleanInv, Loaded, SaveInv, Writing, SavedSurvives
<1> QED BY <1>1, <1>2, <1>3, <1>4 DEF StoreInv

(* A step that leaves the store alone and moves no process into or out of   *)
(* the stages that hold the profile's lock.                                 *)
LEMMA OutsideStep ==
    ASSUME StoreInv, TypeOK', UNCHANGED storeVars,
           \A p \in Procs : \A at \in Holding : pc'[p] = at <=> pc[p] = at,
           endpoint' = endpoint
    PROVE  StoreInv'
<1>1. HolderInv' /\ EndpointTrue'
    BY DEF StoreInv, HolderInv, Holding, EndpointTrue, storeVars
<1>2. Loaded' <=> Loaded
    BY DEF Loaded, Holding, storeVars
<1> QED
    BY <1>1, <1>2
       DEF StoreInv, DiskInv, MemInv, CleanInv, SaveInv, SavedSurvives, Writing, Whole, storeVars

(* One step of persist, taken by the process that closes. *)
LEMMA PersistStep ==
    ASSUME StoreInv, NEW p \in Procs, pc[p] = "closing", UNCHANGED daemonVars,
           SaveStep \/ SaveFails
    PROVE  StoreInv'
<1> USE StoreAssumption, DaemonAssumption, ContentFacts, SaveOffFacts DEF daemonVars
<1>0. flock = p /\ p # Nobody
    BY DEF StoreInv, HolderInv, Holding
<1>1. CASE CheckDirty /\ dirty
  <2>1. StoreType'
    BY <1>1, <1>0
       DEF CheckDirty, SaveAt, StoreInv, StoreType, TypeOK, Stages, Files, SaveTask
  <2>2. TypeOK'
    BY <1>1, <1>0, <2>1 DEF CheckDirty, SaveAt, StoreInv, TypeOK, Stage
  <2>3. HolderInv'
    BY <1>1, <1>0
       DEF CheckDirty, SaveAt, StoreInv, HolderInv, Holding, TypeOK, StoreType, Files,
           SaveTask, Stages
  <2>4. DiskInv'
    BY <1>1, <1>0
       DEF CheckDirty, SaveAt, StoreInv, DiskInv, SaveInv, TypeOK, StoreType, Files,
           SaveTask
  <2>5. MemInv'
    BY <1>1, <1>0
       DEF CheckDirty, SaveAt, StoreInv, MemInv, DiskInv, SavedSurvives, SaveInv,
           HolderInv, Holding, Writing, Loaded, TypeOK, StoreType, Files, SaveTask
  <2>6. CleanInv'
    BY <1>1, <1>0
       DEF CheckDirty, SaveAt, StoreInv, CleanInv, HolderInv, SaveInv, MemInv, DiskInv,
           Writing, Loaded, TypeOK, StoreType, Files, SaveTask
  <2>7. SaveInv'
    BY <1>1, <1>0
       DEF CheckDirty, SaveAt, StoreInv, SaveInv, Loaded, Writing, MemInv, HolderInv,
           CleanInv, DiskInv, TypeOK, StoreType, Files, SaveTask, Stages
  <2>8. SavedSurvives'
    BY <1>1, <1>0
       DEF CheckDirty, SaveAt, StoreInv, SavedSurvives, MemInv, DiskInv, SaveInv,
           CleanInv, HolderInv, Writing, Loaded, TypeOK, StoreType, Files, SaveTask
  <2>9. EndpointTrue'
    BY <1>1, <1>0
       DEF CheckDirty, SaveAt, StoreInv, EndpointTrue, HolderInv, Holding, TypeOK,
           StoreType, Files, SaveTask
  <2> QED BY <2>2, <2>3, <2>4, <2>5, <2>6, <2>7, <2>8, <2>9 DEF StoreInv
<1>2. CASE CheckDirty /\ ~ dirty
  <2>1. StoreType /\ FileDone
    BY <1>2, <1>0 DEF CheckDirty, StoreInv, TypeOK
  <2>2. StoreType'
    BY <1>2, <1>0, FileEnds, <2>1
       DEF CheckDirty, SaveAt, StoreInv, StoreType, TypeOK, Stages, Files, SaveTask
  <2>3. TypeOK'
    BY <1>2, <1>0, FileEnds, <2>1, <2>2 DEF CheckDirty, SaveAt, StoreInv, TypeOK, Stage
  <2>4. HolderInv'
    BY <1>2, <1>0, FileEnds, <2>1
       DEF CheckDirty, SaveAt, StoreInv, HolderInv, Holding, TypeOK, StoreType, Files,
           SaveTask, Stages
  <2>5. DiskInv'
    BY <1>2, <1>0, FileEnds, <2>1
       DEF CheckDirty, SaveAt, StoreInv, DiskInv, SaveInv, TypeOK, StoreType, Files,
           SaveTask
  <2>6. MemInv'
    BY <1>2, <1>0, FileEnds, <2>1
       DEF CheckDirty, SaveAt, StoreInv, MemInv, DiskInv, SavedSurvives, SaveInv,
           HolderInv, Holding, Writing, Loaded, TypeOK, StoreType, Files, SaveTask
  <2>7. CleanInv'
    BY <1>2, <1>0, FileEnds, <2>1
       DEF CheckDirty, SaveAt, StoreInv, CleanInv, HolderInv, SaveInv, MemInv, DiskInv,
           Writing, Loaded, TypeOK, StoreType, Files, SaveTask
  <2>8. SaveInv'
    BY <1>2, <1>0, FileEnds, <2>1
       DEF CheckDirty, SaveAt, StoreInv, SaveInv, Loaded, Writing, MemInv, HolderInv,
           CleanInv, DiskInv, TypeOK, StoreType, Files, SaveTask, Stages
  <2>9. SavedSurvives'
    BY <1>2, <1>0, FileEnds, <2>1
       DEF CheckDirty, SaveAt, StoreInv, SavedSurvives, MemInv, DiskInv, SaveInv,
           CleanInv, HolderInv, Writing, Loaded, TypeOK, StoreType, Files, SaveTask
  <2>10. EndpointTrue'
    BY <1>2, <1>0, FileEnds, <2>1
       DEF CheckDirty, SaveAt, StoreInv, EndpointTrue, HolderInv, Holding, TypeOK,
           StoreType, Files, SaveTask
  <2> QED BY <2>3, <2>4, <2>5, <2>6, <2>7, <2>8, <2>9, <2>10 DEF StoreInv
<1>3. CASE WriteTmp
  <2>1. StoreType'
    BY <1>3, <1>0
       DEF WriteTmp, SaveAt, StoreInv, StoreType, TypeOK, Stages, Files, SaveTask
  <2>2. TypeOK'
    BY <1>3, <1>0, <2>1 DEF WriteTmp, SaveAt, StoreInv, TypeOK, Stage
  <2>3. HolderInv'
    BY <1>3, <1>0
       DEF WriteTmp, SaveAt, StoreInv, HolderInv, Holding, TypeOK, StoreType, Files,
           SaveTask, Stages
  <2>4. DiskInv'
    BY <1>3, <1>0
       DEF WriteTmp, SaveAt, StoreInv, DiskInv, SaveInv, TypeOK, StoreType, Files,
           SaveTask
  <2>5. MemInv'
    BY <1>3, <1>0
       DEF WriteTmp, SaveAt, StoreInv, MemInv, DiskInv, SavedSurvives, SaveInv,
           HolderInv, Holding, Writing, Loaded, TypeOK, StoreType, Files, SaveTask
  <2>6. CleanInv'
    BY <1>3, <1>0
       DEF WriteTmp, SaveAt, StoreInv, CleanInv, HolderInv, SaveInv, MemInv, DiskInv,
           Writing, Loaded, TypeOK, StoreType, Files, SaveTask
  <2>7. SaveInv'
    BY <1>3, <1>0
       DEF WriteTmp, SaveAt, StoreInv, SaveInv, Loaded, Writing, MemInv, HolderInv,
           CleanInv, DiskInv, TypeOK, StoreType, Files, SaveTask, Stages
  <2>8. SavedSurvives'
    BY <1>3, <1>0
       DEF WriteTmp, SaveAt, StoreInv, SavedSurvives, MemInv, DiskInv, SaveInv,
           CleanInv, HolderInv, Writing, Loaded, TypeOK, StoreType, Files, SaveTask
  <2>9. EndpointTrue'
    BY <1>3, <1>0
       DEF WriteTmp, SaveAt, StoreInv, EndpointTrue, HolderInv, Holding, TypeOK,
           StoreType, Files, SaveTask
  <2> QED BY <2>2, <2>3, <2>4, <2>5, <2>6, <2>7, <2>8, <2>9 DEF StoreInv
<1>4. CASE SyncTmp
  <2>1. StoreType'
    BY <1>4, <1>0
       DEF SyncTmp, SaveAt, StoreInv, StoreType, TypeOK, Stages, Files, SaveTask
  <2>2. TypeOK'
    BY <1>4, <1>0, <2>1 DEF SyncTmp, SaveAt, StoreInv, TypeOK, Stage
  <2>3. HolderInv'
    BY <1>4, <1>0
       DEF SyncTmp, SaveAt, StoreInv, HolderInv, Holding, TypeOK, StoreType, Files,
           SaveTask, Stages
  <2>4. DiskInv'
    BY <1>4, <1>0
       DEF SyncTmp, SaveAt, StoreInv, DiskInv, SaveInv, TypeOK, StoreType, Files,
           SaveTask
  <2>5. MemInv'
    BY <1>4, <1>0
       DEF SyncTmp, SaveAt, StoreInv, MemInv, DiskInv, SavedSurvives, SaveInv,
           HolderInv, Holding, Writing, Loaded, TypeOK, StoreType, Files, SaveTask
  <2>6. CleanInv'
    BY <1>4, <1>0
       DEF SyncTmp, SaveAt, StoreInv, CleanInv, HolderInv, SaveInv, MemInv, DiskInv,
           Writing, Loaded, TypeOK, StoreType, Files, SaveTask
  <2>7. SaveInv'
    BY <1>4, <1>0
       DEF SyncTmp, SaveAt, StoreInv, SaveInv, Loaded, Writing, MemInv, HolderInv,
           CleanInv, DiskInv, TypeOK, StoreType, Files, SaveTask, Stages
  <2>8. SavedSurvives'
    BY <1>4, <1>0
       DEF SyncTmp, SaveAt, StoreInv, SavedSurvives, MemInv, DiskInv, SaveInv, CleanInv,
           HolderInv, Writing, Loaded, TypeOK, StoreType, Files, SaveTask
  <2>9. EndpointTrue'
    BY <1>4, <1>0
       DEF SyncTmp, SaveAt, StoreInv, EndpointTrue, HolderInv, Holding, TypeOK,
           StoreType, Files, SaveTask
  <2> QED BY <2>2, <2>3, <2>4, <2>5, <2>6, <2>7, <2>8, <2>9 DEF StoreInv
<1>5. CASE RenameTmp
  <2>1. vis' \in [Files -> Content] /\ dur' \in [Files -> SUBSET Content]
    BY <1>5, <1>0
       DEF RenameTmp, SaveAt, Left, StoreInv, TypeOK, StoreType, Files, SaveInv,
           SaveTask
  <2>2. StoreType'
    BY <1>5, <1>0, <2>1
       DEF RenameTmp, SaveAt, Left, StoreInv, StoreType, TypeOK, Stages, Files, SaveTask
  <2>3. TypeOK'
    BY <1>5, <1>0, <2>2 DEF RenameTmp, SaveAt, Left, StoreInv, TypeOK, Stage
  <2>4. HolderInv'
    BY <1>5, <1>0
       DEF RenameTmp, SaveAt, Left, StoreInv, HolderInv, Holding, TypeOK, StoreType,
           Files, SaveTask, Stages
  <2>5. DiskInv'
    BY <1>5, <1>0
       DEF RenameTmp, SaveAt, Left, StoreInv, DiskInv, SaveInv, TypeOK, StoreType,
           Files, SaveTask
  <2>6. MemInv'
    BY <1>5, <1>0
       DEF RenameTmp, SaveAt, Left, StoreInv, MemInv, DiskInv, SavedSurvives, SaveInv,
           HolderInv, Holding, Writing, Loaded, TypeOK, StoreType, Files, SaveTask
  <2>7. CleanInv'
    BY <1>5, <1>0
       DEF RenameTmp, SaveAt, Left, StoreInv, CleanInv, HolderInv, SaveInv, MemInv,
           DiskInv, Writing, Loaded, TypeOK, StoreType, Files, SaveTask
  <2>8. SaveInv'
    BY <1>5, <1>0
       DEF RenameTmp, SaveAt, Left, StoreInv, SaveInv, Loaded, Writing, MemInv,
           HolderInv, CleanInv, DiskInv, TypeOK, StoreType, Files, SaveTask, Stages
  <2>9. SavedSurvives'
    BY <1>5, <1>0
       DEF RenameTmp, SaveAt, Left, StoreInv, SavedSurvives, MemInv, DiskInv, SaveInv,
           CleanInv, HolderInv, Writing, Loaded, TypeOK, StoreType, Files, SaveTask
  <2>10. EndpointTrue'
    BY <1>5, <1>0
       DEF RenameTmp, SaveAt, Left, StoreInv, EndpointTrue, HolderInv, Holding, TypeOK,
           StoreType, Files, SaveTask
  <2> QED BY <2>3, <2>4, <2>5, <2>6, <2>7, <2>8, <2>9, <2>10 DEF StoreInv
<1>6. CASE SyncDir
  <2>1. StoreType /\ FileDone
    BY <1>6, <1>0 DEF SyncDir, StoreInv, TypeOK
  <2>2. vis' \in [Files -> Content] /\ dur' \in [Files -> SUBSET Content]
    BY <1>6, <1>0, FileEnds, <2>1
       DEF SyncDir, SaveAt, StoreInv, TypeOK, StoreType, Files
  <2>3. StoreType'
    BY <1>6, <1>0, FileEnds, <2>1, <2>2
       DEF SyncDir, SaveAt, StoreInv, StoreType, TypeOK, Stages, Files, SaveTask
  <2>4. TypeOK'
    BY <1>6, <1>0, FileEnds, <2>1, <2>3 DEF SyncDir, SaveAt, StoreInv, TypeOK, Stage
  <2>5. HolderInv'
    BY <1>6, <1>0, FileEnds, <2>1
       DEF SyncDir, SaveAt, StoreInv, HolderInv, Holding, TypeOK, StoreType, Files,
           SaveTask, Stages
  <2>6. DiskInv'
    BY <1>6, <1>0, FileEnds, <2>1
       DEF SyncDir, SaveAt, StoreInv, DiskInv, SaveInv, TypeOK, StoreType, Files,
           SaveTask
  <2>7. MemInv'
    BY <1>6, <1>0, FileEnds, <2>1
       DEF SyncDir, SaveAt, StoreInv, MemInv, DiskInv, SavedSurvives, SaveInv,
           HolderInv, Holding, Writing, Loaded, TypeOK, StoreType, Files, SaveTask
  <2>8. CleanInv'
    BY <1>6, <1>0, FileEnds, <2>1
       DEF SyncDir, SaveAt, StoreInv, CleanInv, HolderInv, SaveInv, MemInv, DiskInv,
           Writing, Loaded, TypeOK, StoreType, Files, SaveTask
  <2>9. SaveInv'
    BY <1>6, <1>0, FileEnds, <2>1
       DEF SyncDir, SaveAt, StoreInv, SaveInv, Loaded, Writing, MemInv, HolderInv,
           CleanInv, DiskInv, TypeOK, StoreType, Files, SaveTask, Stages
  <2>10. SavedSurvives'
    BY <1>6, <1>0, FileEnds, <2>1
       DEF SyncDir, SaveAt, StoreInv, SavedSurvives, MemInv, DiskInv, SaveInv, CleanInv,
           HolderInv, Writing, Loaded, TypeOK, StoreType, Files, SaveTask
  <2>11. EndpointTrue'
    BY <1>6, <1>0, FileEnds, <2>1
       DEF SyncDir, SaveAt, StoreInv, EndpointTrue, HolderInv, Holding, TypeOK,
           StoreType, Files, SaveTask
  <2> QED BY <2>4, <2>5, <2>6, <2>7, <2>8, <2>9, <2>10, <2>11 DEF StoreInv
<1>7. CASE SaveFails
  <2>1. StoreType'
    BY <1>7, <1>0 DEF SaveFails, StoreInv, StoreType, TypeOK, Stages, Files, SaveTask
  <2>2. TypeOK'
    BY <1>7, <1>0, <2>1 DEF SaveFails, StoreInv, TypeOK, Stage
  <2>3. HolderInv'
    BY <1>7, <1>0
       DEF SaveFails, StoreInv, HolderInv, Holding, TypeOK, StoreType, Files, SaveTask,
           Stages
  <2>4. DiskInv'
    BY <1>7, <1>0
       DEF SaveFails, StoreInv, DiskInv, SaveInv, TypeOK, StoreType, Files, SaveTask
  <2>5. MemInv'
    BY <1>7, <1>0
       DEF SaveFails, StoreInv, MemInv, DiskInv, SavedSurvives, SaveInv, HolderInv,
           Holding, Writing, Loaded, TypeOK, StoreType, Files, SaveTask
  <2>6. CleanInv'
    BY <1>7, <1>0
       DEF SaveFails, StoreInv, CleanInv, HolderInv, SaveInv, MemInv, DiskInv, Writing,
           Loaded, TypeOK, StoreType, Files, SaveTask
  <2>7. SaveInv'
    BY <1>7, <1>0
       DEF SaveFails, StoreInv, SaveInv, Loaded, Writing, MemInv, HolderInv, CleanInv,
           DiskInv, TypeOK, StoreType, Files, SaveTask, Stages
  <2>8. SavedSurvives'
    BY <1>7, <1>0
       DEF SaveFails, StoreInv, SavedSurvives, MemInv, DiskInv, SaveInv, CleanInv,
           HolderInv, Writing, Loaded, TypeOK, StoreType, Files, SaveTask
  <2>9. EndpointTrue'
    BY <1>7, <1>0
       DEF SaveFails, StoreInv, EndpointTrue, HolderInv, Holding, TypeOK, StoreType,
           Files, SaveTask
  <2> QED BY <2>2, <2>3, <2>4, <2>5, <2>6, <2>7, <2>8, <2>9 DEF StoreInv
<1> QED BY <1>1, <1>2, <1>3, <1>4, <1>5, <1>6, <1>7 DEF SaveStep

(* Every step of a process, of a service task or of the machine. *)
LEMMA StoreStep == StoreInv /\ [Next]_vars => StoreInv'
<1> SUFFICES ASSUME StoreInv, [Next]_vars PROVE StoreInv'
    OBVIOUS
<1> USE StoreAssumption, DaemonAssumption, ContentFacts, SaveOffFacts
<1>1. ASSUME NEW p \in Procs, Start(p) PROVE StoreInv'
  <2>1. TypeOK'
    BY <1>1 DEF Start, Goto, StoreInv, TypeOK, StoreType, Stage, storeVars
  <2> QED
    BY <1>1, <2>1, OutsideStep DEF Start, Goto, StoreInv, TypeOK, Holding
<1>2. ASSUME NEW p \in Procs, CreateLock(p) PROVE StoreInv'
  <2>1. TypeOK'
    <3>1. [by |-> p, written |-> FALSE, old |-> FALSE] \in LockFile
      BY DEF LockFile
    <3> QED
      BY <1>2, <3>1 DEF CreateLock, Goto, StoreInv, TypeOK, StoreType, Stage, storeVars
  <2> QED
    BY <1>2, <2>1, OutsideStep DEF CreateLock, Goto, StoreInv, TypeOK, Holding
<1>3. ASSUME NEW p \in Procs, LockStatus(p) PROVE StoreInv'
  <2>1. TypeOK'
    BY <1>3 DEF LockStatus, Status, Goto, StoreInv, TypeOK, StoreType, Stage, storeVars
  <2> QED
    BY <1>3, <2>1, OutsideStep DEF LockStatus, Status, Goto, StoreInv, TypeOK, Holding
<1>4. ASSUME NEW p \in Procs, RemoveStale(p) PROVE StoreInv'
  <2>1. TypeOK'
    BY <1>4 DEF RemoveStale, Goto, StoreInv, TypeOK, StoreType, Stage, storeVars
  <2> QED
    BY <1>4, <2>1, OutsideStep DEF RemoveStale, Goto, StoreInv, TypeOK, Holding
<1>5. ASSUME NEW p \in Procs, WritePid(p) PROVE StoreInv'
  <2>1. TypeOK'
    BY <1>5 DEF WritePid, Goto, StoreInv, TypeOK, StoreType, Stage, storeVars, LockFile
  <2> QED
    BY <1>5, <2>1, OutsideStep DEF WritePid, Goto, StoreInv, TypeOK, Holding
<1>6. ASSUME NEW p \in Procs, BootLocked(p) PROVE StoreInv'
  <2>1. TypeOK'
    BY <1>6 DEF BootLocked, Goto, StoreInv, TypeOK, StoreType, Stage, storeVars
  <2> QED
    BY <1>6, <2>1, OutsideStep DEF BootLocked, Goto, StoreInv, TypeOK, Holding
<1>7. ASSUME NEW p \in Procs, Unlock(p) PROVE StoreInv'
  <2>1. TypeOK'
    BY <1>7 DEF Unlock, Goto, StoreInv, TypeOK, StoreType, Stage, storeVars
  <2> QED
    BY <1>7, <2>1, OutsideStep DEF Unlock, Goto, StoreInv, TypeOK, Holding
<1>8. CASE LockAges
  <2>1. TypeOK'
    BY <1>8 DEF LockAges, StoreInv, TypeOK, StoreType, storeVars, LockFile
  <2> QED
    BY <1>8, <2>1, OutsideStep DEF LockAges
<1>9. ASSUME NEW p \in Procs, Boot(p) PROVE StoreInv'
  <2>1. flock = Nobody /\ p # Nobody /\ ~ Loaded /\ save = SaveOff
    BY <1>9 DEF Boot, OpenStore, StoreInv, TypeOK, StoreType, HolderInv, Holding, Loaded
  <2>2. StoreType'
    BY <1>9, <2>1
       DEF Boot, OpenStore, Load, diskVars, Goto, StoreInv, StoreType, TypeOK, Stages,
           Files
  <2>3. TypeOK'
    BY <1>9, <2>1, <2>2
       DEF Boot, OpenStore, Load, diskVars, Goto, StoreInv, TypeOK, Stage
  <2>4. HolderInv'
    BY <1>9, <2>1
       DEF Boot, OpenStore, Load, diskVars, Goto, StoreInv, HolderInv, Holding, TypeOK,
           StoreType, Files, Stages
  <2>5. DiskInv'
    BY <1>9, <2>1
       DEF Boot, OpenStore, Load, diskVars, Goto, StoreInv, DiskInv, SaveInv, TypeOK,
           StoreType, Files
  <2>6. MemInv'
    BY <1>9, <2>1
       DEF Boot, OpenStore, Load, diskVars, Goto, StoreInv, MemInv, DiskInv,
           SavedSurvives, SaveInv, HolderInv, Holding, Writing, Loaded, TypeOK,
           StoreType, Files
  <2>7. CleanInv'
    BY <1>9, <2>1
       DEF Boot, OpenStore, Load, diskVars, Goto, StoreInv, CleanInv, HolderInv,
           SaveInv, MemInv, DiskInv, Writing, Loaded, TypeOK, StoreType, Files
  <2>8. SaveInv'
    BY <1>9, <2>1
       DEF Boot, OpenStore, Load, diskVars, Goto, StoreInv, SaveInv, Loaded, Writing,
           MemInv, HolderInv, CleanInv, DiskInv, TypeOK, StoreType, Files, SaveTask,
           Stages
  <2>9. SavedSurvives'
    BY <1>9, <2>1
       DEF Boot, OpenStore, Load, diskVars, Goto, StoreInv, SavedSurvives, MemInv,
           DiskInv, SaveInv, CleanInv, HolderInv, Writing, Loaded, TypeOK, StoreType,
           Files
  <2>10. EndpointTrue'
    BY <1>9, <2>1
       DEF Boot, OpenStore, Load, diskVars, Goto, StoreInv, EndpointTrue, HolderInv,
           Holding, TypeOK, StoreType, Files
  <2> QED BY <2>3, <2>4, <2>5, <2>6, <2>7, <2>8, <2>9, <2>10 DEF StoreInv
<1>10. ASSUME NEW p \in Procs, BootLoad(p) PROVE StoreInv'
  <2>1. flock = p /\ p # Nobody /\ ~ Loaded /\ save = SaveOff
    BY <1>10
       DEF BootLoad, LoadLocalStorage, StoreInv, TypeOK, StoreType, HolderInv, Holding,
           Loaded
  <2>2. vis' \in [Files -> Content] /\ dur' \in [Files -> SUBSET Content]
    BY <1>10, <2>1
       DEF BootLoad, LoadLocalStorage, Load, diskVars, Goto, StoreInv, TypeOK,
           StoreType, Files
  <2>3. StoreType'
    BY <1>10, <2>1, <2>2
       DEF BootLoad, LoadLocalStorage, Load, diskVars, Goto, StoreInv, StoreType,
           TypeOK, Stages, Files
  <2>4. TypeOK'
    BY <1>10, <2>1, <2>3
       DEF BootLoad, LoadLocalStorage, Load, diskVars, Goto, StoreInv, TypeOK, Stage
  <2>5. HolderInv'
    BY <1>10, <2>1
       DEF BootLoad, LoadLocalStorage, Load, diskVars, Goto, StoreInv, HolderInv,
           Holding, TypeOK, StoreType, Files, Stages
  <2>6. DiskInv'
    BY <1>10, <2>1
       DEF BootLoad, LoadLocalStorage, Load, diskVars, Goto, StoreInv, DiskInv, SaveInv,
           TypeOK, StoreType, Files
  <2>7. MemInv'
    BY <1>10, <2>1
       DEF BootLoad, LoadLocalStorage, Load, diskVars, Goto, StoreInv, MemInv, DiskInv,
           SavedSurvives, SaveInv, HolderInv, Holding, Writing, Loaded, TypeOK,
           StoreType, Files
  <2>8. CleanInv'
    BY <1>10, <2>1
       DEF BootLoad, LoadLocalStorage, Load, diskVars, Goto, StoreInv, CleanInv,
           HolderInv, SaveInv, MemInv, DiskInv, Writing, Loaded, TypeOK, StoreType,
           Files
  <2>9. SaveInv'
    BY <1>10, <2>1
       DEF BootLoad, LoadLocalStorage, Load, diskVars, Goto, StoreInv, SaveInv, Loaded,
           Writing, MemInv, HolderInv, CleanInv, DiskInv, TypeOK, StoreType, Files,
           SaveTask, Stages
  <2>10. SavedSurvives'
    BY <1>10, <2>1
       DEF BootLoad, LoadLocalStorage, Load, diskVars, Goto, StoreInv, SavedSurvives,
           MemInv, DiskInv, SaveInv, CleanInv, HolderInv, Writing, Loaded, TypeOK,
           StoreType, Files
  <2>11. EndpointTrue'
    BY <1>10, <2>1
       DEF BootLoad, LoadLocalStorage, Load, diskVars, Goto, StoreInv, EndpointTrue,
           HolderInv, Holding, TypeOK, StoreType, Files
  <2> QED BY <2>4, <2>5, <2>6, <2>7, <2>8, <2>9, <2>10, <2>11 DEF StoreInv
<1>11. ASSUME NEW p \in Procs, WriteEndpoint(p) PROVE StoreInv'
  <2>1. flock = p /\ p # Nobody
    BY <1>11 DEF WriteEndpoint, StoreInv, TypeOK, StoreType, HolderInv, Holding
  <2>2. StoreType'
    BY <1>11, <2>1
       DEF WriteEndpoint, storeVars, Goto, StoreInv, StoreType, TypeOK, Stages, Files
  <2>3. TypeOK'
    BY <1>11, <2>1, <2>2 DEF WriteEndpoint, storeVars, Goto, StoreInv, TypeOK, Stage
  <2>4. HolderInv'
    BY <1>11, <2>1
       DEF WriteEndpoint, storeVars, Goto, StoreInv, HolderInv, Holding, TypeOK,
           StoreType, Files, Stages
  <2>5. DiskInv'
    BY <1>11, <2>1
       DEF WriteEndpoint, storeVars, Goto, StoreInv, DiskInv, SaveInv, TypeOK,
           StoreType, Files
  <2>6. MemInv'
    BY <1>11, <2>1
       DEF WriteEndpoint, storeVars, Goto, StoreInv, MemInv, DiskInv, SavedSurvives,
           SaveInv, HolderInv, Holding, Writing, Loaded, TypeOK, StoreType, Files
  <2>7. CleanInv'
    BY <1>11, <2>1
       DEF WriteEndpoint, storeVars, Goto, StoreInv, CleanInv, HolderInv, SaveInv,
           MemInv, DiskInv, Writing, Loaded, TypeOK, StoreType, Files
  <2>8. SaveInv'
    BY <1>11, <2>1
       DEF WriteEndpoint, storeVars, Goto, StoreInv, SaveInv, Loaded, Writing, MemInv,
           HolderInv, CleanInv, DiskInv, TypeOK, StoreType, Files, SaveTask, Stages
  <2>9. SavedSurvives'
    BY <1>11, <2>1
       DEF WriteEndpoint, storeVars, Goto, StoreInv, SavedSurvives, MemInv, DiskInv,
           SaveInv, CleanInv, HolderInv, Writing, Loaded, TypeOK, StoreType, Files
  <2>10. EndpointTrue'
    BY <1>11, <2>1
       DEF WriteEndpoint, storeVars, Goto, StoreInv, EndpointTrue, HolderInv, Holding,
           TypeOK, StoreType, Files
  <2> QED BY <2>3, <2>4, <2>5, <2>6, <2>7, <2>8, <2>9, <2>10 DEF StoreInv
<1>12. ASSUME NEW p \in Procs, Stop(p) PROVE StoreInv'
  <2>1. flock = p /\ p # Nobody
    BY <1>12 DEF Stop, StoreInv, TypeOK, StoreType, HolderInv, Holding
  <2>2. StoreType'
    BY <1>12, <2>1
       DEF Stop, BeginPersist, SaveAt, Goto, StoreInv, StoreType, TypeOK, Stages, Files,
           SaveTask
  <2>3. TypeOK'
    BY <1>12, <2>1, <2>2 DEF Stop, BeginPersist, SaveAt, Goto, StoreInv, TypeOK, Stage
  <2>4. HolderInv'
    BY <1>12, <2>1
       DEF Stop, BeginPersist, SaveAt, Goto, StoreInv, HolderInv, Holding, TypeOK,
           StoreType, Files, SaveTask, Stages
  <2>5. DiskInv'
    BY <1>12, <2>1
       DEF Stop, BeginPersist, SaveAt, Goto, StoreInv, DiskInv, SaveInv, TypeOK,
           StoreType, Files, SaveTask
  <2>6. MemInv'
    BY <1>12, <2>1
       DEF Stop, BeginPersist, SaveAt, Goto, StoreInv, MemInv, DiskInv, SavedSurvives,
           SaveInv, HolderInv, Holding, Writing, Loaded, TypeOK, StoreType, Files,
           SaveTask
  <2>7. CleanInv'
    BY <1>12, <2>1
       DEF Stop, BeginPersist, SaveAt, Goto, StoreInv, CleanInv, HolderInv, SaveInv,
           MemInv, DiskInv, Writing, Loaded, TypeOK, StoreType, Files, SaveTask
  <2>8. SaveInv'
    BY <1>12, <2>1
       DEF Stop, BeginPersist, SaveAt, Goto, StoreInv, SaveInv, Loaded, Writing, MemInv,
           HolderInv, CleanInv, DiskInv, TypeOK, StoreType, Files, SaveTask, Stages
  <2>9. SavedSurvives'
    BY <1>12, <2>1
       DEF Stop, BeginPersist, SaveAt, Goto, StoreInv, SavedSurvives, MemInv, DiskInv,
           SaveInv, CleanInv, HolderInv, Writing, Loaded, TypeOK, StoreType, Files,
           SaveTask
  <2>10. EndpointTrue'
    BY <1>12, <2>1
       DEF Stop, BeginPersist, SaveAt, Goto, StoreInv, EndpointTrue, HolderInv, Holding,
           TypeOK, StoreType, Files, SaveTask
  <2> QED BY <2>3, <2>4, <2>5, <2>6, <2>7, <2>8, <2>9, <2>10 DEF StoreInv
<1>13. ASSUME NEW p \in Procs, Closed(p) PROVE StoreInv'
  <2>1. flock = p /\ p # Nobody
    BY <1>13 DEF Closed, StoreInv, TypeOK, StoreType, HolderInv, Holding
  <2>2. MemoryGone /\ UNCHANGED <<vis, dur, safe, last>>
    BY <1>13, <2>1 DEF Closed, DropStore
  <2>3. vis' \in [Files -> Content] /\ dur' \in [Files -> SUBSET Content]
    BY <1>13, <2>1, <2>2
       DEF Closed, MemoryGone, Goto, StoreInv, TypeOK, StoreType, Files
  <2>4. StoreType'
    BY <1>13, <2>1, <2>2, <2>3
       DEF Closed, MemoryGone, Goto, StoreInv, StoreType, TypeOK, Stages, Files
  <2>5. TypeOK'
    BY <1>13, <2>1, <2>2, <2>4 DEF Closed, MemoryGone, Goto, StoreInv, TypeOK, Stage
  <2>6. HolderInv'
    BY <1>13, <2>1, <2>2
       DEF Closed, MemoryGone, Goto, StoreInv, HolderInv, Holding, TypeOK, StoreType,
           Files, Stages
  <2>7. DiskInv'
    BY <1>13, <2>1, <2>2
       DEF Closed, MemoryGone, Goto, StoreInv, DiskInv, SaveInv, TypeOK, StoreType,
           Files
  <2>8. MemInv'
    BY <1>13, <2>1, <2>2
       DEF Closed, MemoryGone, Goto, StoreInv, MemInv, DiskInv, SavedSurvives, SaveInv,
           HolderInv, Holding, Writing, Loaded, TypeOK, StoreType, Files
  <2>9. CleanInv'
    BY <1>13, <2>1, <2>2
       DEF Closed, MemoryGone, Goto, StoreInv, CleanInv, HolderInv, SaveInv, MemInv,
           DiskInv, Writing, Loaded, TypeOK, StoreType, Files
  <2>10. SaveInv'
    BY <1>13, <2>1, <2>2
       DEF Closed, MemoryGone, Goto, StoreInv, SaveInv, Loaded, Writing, MemInv,
           HolderInv, CleanInv, DiskInv, TypeOK, StoreType, Files, SaveTask, Stages
  <2>11. SavedSurvives'
    BY <1>13, <2>1, <2>2
       DEF Closed, MemoryGone, Goto, StoreInv, SavedSurvives, MemInv, DiskInv, SaveInv,
           CleanInv, HolderInv, Writing, Loaded, TypeOK, StoreType, Files
  <2>12. EndpointTrue'
    BY <1>13, <2>1, <2>2
       DEF Closed, MemoryGone, Goto, StoreInv, EndpointTrue, HolderInv, Holding, TypeOK,
           StoreType, Files
  <2> QED BY <2>5, <2>6, <2>7, <2>8, <2>9, <2>10, <2>11, <2>12 DEF StoreInv
<1>14. ASSUME NEW p \in Procs, Kill(p) PROVE StoreInv'
  <2>1. vis' \in [Files -> Content] /\ dur' \in [Files -> SUBSET Content]
    BY <1>14
       DEF Kill, Alive, DropStore, MemoryGone, Goto, StoreInv, TypeOK, StoreType, Files
  <2>2. StoreType'
    BY <1>14, <2>1
       DEF Kill, Alive, DropStore, MemoryGone, Goto, StoreInv, StoreType, TypeOK,
           Stages, Files
  <2>3. TypeOK'
    BY <1>14, <2>2 DEF Kill, Alive, DropStore, MemoryGone, Goto, StoreInv, TypeOK, Stage
  <2>4. HolderInv'
    BY <1>14
       DEF Kill, Alive, DropStore, MemoryGone, Goto, StoreInv, HolderInv, Holding,
           TypeOK, StoreType, Files, Stages
  <2>5. DiskInv'
    BY <1>14
       DEF Kill, Alive, DropStore, MemoryGone, Goto, StoreInv, DiskInv, SaveInv, TypeOK,
           StoreType, Files
  <2>6. MemInv'
    BY <1>14
       DEF Kill, Alive, DropStore, MemoryGone, Goto, StoreInv, MemInv, DiskInv,
           SavedSurvives, SaveInv, HolderInv, Holding, Writing, Loaded, TypeOK,
           StoreType, Files
  <2>7. CleanInv'
    BY <1>14
       DEF Kill, Alive, DropStore, MemoryGone, Goto, StoreInv, CleanInv, HolderInv,
           SaveInv, MemInv, DiskInv, Writing, Loaded, TypeOK, StoreType, Files
  <2>8. SaveInv'
    BY <1>14
       DEF Kill, Alive, DropStore, MemoryGone, Goto, StoreInv, SaveInv, Loaded, Writing,
           MemInv, HolderInv, CleanInv, DiskInv, TypeOK, StoreType, Files, SaveTask,
           Stages
  <2>9. SavedSurvives'
    BY <1>14
       DEF Kill, Alive, DropStore, MemoryGone, Goto, StoreInv, SavedSurvives, MemInv,
           DiskInv, SaveInv, CleanInv, HolderInv, Writing, Loaded, TypeOK, StoreType,
           Files
  <2>10. EndpointTrue'
    BY <1>14
       DEF Kill, Alive, DropStore, MemoryGone, Goto, StoreInv, EndpointTrue, HolderInv,
           Holding, TypeOK, StoreType, Files
  <2> QED BY <2>3, <2>4, <2>5, <2>6, <2>7, <2>8, <2>9, <2>10 DEF StoreInv
<1>15. ASSUME PowerLoss PROVE StoreInv'
  <2>1. vis' \in [Files -> Content] /\ dur' \in [Files -> SUBSET Content]
    BY <1>15
       DEF PowerLoss, StorePowerLoss, MemoryGone, Alive, StoreInv, TypeOK, StoreType,
           Files
  <2>2. StoreType'
    BY <1>15, <2>1
       DEF PowerLoss, StorePowerLoss, MemoryGone, Alive, StoreInv, StoreType, TypeOK,
           Stages, Files
  <2>3. TypeOK'
    BY <1>15, <2>2
       DEF PowerLoss, StorePowerLoss, MemoryGone, Alive, StoreInv, TypeOK, Stage
  <2>4. HolderInv'
    BY <1>15
       DEF PowerLoss, StorePowerLoss, MemoryGone, Alive, StoreInv, HolderInv, Holding,
           TypeOK, StoreType, Files, Stages
  <2>5. DiskInv'
    BY <1>15
       DEF PowerLoss, StorePowerLoss, MemoryGone, Alive, StoreInv, DiskInv, SaveInv,
           TypeOK, StoreType, Files
  <2>6. MemInv'
    BY <1>15
       DEF PowerLoss, StorePowerLoss, MemoryGone, Alive, StoreInv, MemInv, DiskInv,
           SavedSurvives, SaveInv, HolderInv, Holding, Writing, Loaded, TypeOK,
           StoreType, Files
  <2>7. CleanInv'
    BY <1>15
       DEF PowerLoss, StorePowerLoss, MemoryGone, Alive, StoreInv, CleanInv, HolderInv,
           SaveInv, MemInv, DiskInv, Writing, Loaded, TypeOK, StoreType, Files
  <2>8. SaveInv'
    BY <1>15
       DEF PowerLoss, StorePowerLoss, MemoryGone, Alive, StoreInv, SaveInv, Loaded,
           Writing, MemInv, HolderInv, CleanInv, DiskInv, TypeOK, StoreType, Files,
           SaveTask, Stages
  <2>9. SavedSurvives'
    BY <1>15
       DEF PowerLoss, StorePowerLoss, MemoryGone, Alive, StoreInv, SavedSurvives,
           MemInv, DiskInv, SaveInv, CleanInv, HolderInv, Writing, Loaded, TypeOK,
           StoreType, Files
  <2>10. EndpointTrue'
    BY <1>15
       DEF PowerLoss, StorePowerLoss, MemoryGone, Alive, StoreInv, EndpointTrue,
           HolderInv, Holding, TypeOK, StoreType, Files
  <2> QED BY <2>3, <2>4, <2>5, <2>6, <2>7, <2>8, <2>9, <2>10 DEF StoreInv
<1>16. ASSUME NEW p \in Procs, Serving(p), SetCookie, UNCHANGED daemonVars PROVE StoreInv'
  <2>1. flock = p /\ p # Nobody /\ save = SaveOff
    BY <1>16 DEF Serving, StoreInv, TypeOK, StoreType, HolderInv, Holding
  <2>2. StoreType'
    BY <1>16, <2>1
       DEF SetCookie, Serving, daemonVars, StoreInv, StoreType, TypeOK, Stages, Files
  <2>3. TypeOK'
    BY <1>16, <2>1, <2>2 DEF SetCookie, Serving, daemonVars, StoreInv, TypeOK, Stage
  <2>4. HolderInv'
    BY <1>16, <2>1
       DEF SetCookie, Serving, daemonVars, StoreInv, HolderInv, Holding, TypeOK,
           StoreType, Files, Stages
  <2>5. DiskInv'
    BY <1>16, <2>1
       DEF SetCookie, Serving, daemonVars, StoreInv, DiskInv, SaveInv, TypeOK,
           StoreType, Files
  <2>6. MemInv'
    BY <1>16, <2>1
       DEF SetCookie, Serving, daemonVars, StoreInv, MemInv, DiskInv, SavedSurvives,
           SaveInv, HolderInv, Holding, Writing, Loaded, TypeOK, StoreType, Files
  <2>7. CleanInv'
    BY <1>16, <2>1
       DEF SetCookie, Serving, daemonVars, StoreInv, CleanInv, HolderInv, SaveInv,
           MemInv, DiskInv, Writing, Loaded, TypeOK, StoreType, Files
  <2>8. SaveInv'
    BY <1>16, <2>1
       DEF SetCookie, Serving, daemonVars, StoreInv, SaveInv, Loaded, Writing, MemInv,
           HolderInv, CleanInv, DiskInv, TypeOK, StoreType, Files, SaveTask, Stages
  <2>9. SavedSurvives'
    BY <1>16, <2>1
       DEF SetCookie, Serving, daemonVars, StoreInv, SavedSurvives, MemInv, DiskInv,
           SaveInv, CleanInv, HolderInv, Writing, Loaded, TypeOK, StoreType, Files
  <2>10. EndpointTrue'
    BY <1>16, <2>1
       DEF SetCookie, Serving, daemonVars, StoreInv, EndpointTrue, HolderInv, Holding,
           TypeOK, StoreType, Files
  <2> QED BY <2>3, <2>4, <2>5, <2>6, <2>7, <2>8, <2>9, <2>10 DEF StoreInv
<1>17. ASSUME NEW p \in Procs, Serving(p), NEW w \in Writers, SetItem(w), UNCHANGED daemonVars
      PROVE  StoreInv'
  <2>1. flock = p /\ p # Nobody /\ save = SaveOff
    BY <1>17 DEF Serving, StoreInv, TypeOK, StoreType, HolderInv, Holding
  <2>2. StoreType'
    BY <1>17, <2>1
       DEF SetItem, Serving, daemonVars, StoreInv, StoreType, TypeOK, Stages, Files
  <2>3. TypeOK'
    BY <1>17, <2>1, <2>2 DEF SetItem, Serving, daemonVars, StoreInv, TypeOK, Stage
  <2>4. HolderInv'
    BY <1>17, <2>1
       DEF SetItem, Serving, daemonVars, StoreInv, HolderInv, Holding, TypeOK,
           StoreType, Files, Stages
  <2>5. DiskInv'
    BY <1>17, <2>1
       DEF SetItem, Serving, daemonVars, StoreInv, DiskInv, SaveInv, TypeOK, StoreType,
           Files
  <2>6. MemInv'
    BY <1>17, <2>1
       DEF SetItem, Serving, daemonVars, StoreInv, MemInv, DiskInv, SavedSurvives,
           SaveInv, HolderInv, Holding, Writing, Loaded, TypeOK, StoreType, Files
  <2>7. CleanInv'
    BY <1>17, <2>1
       DEF SetItem, Serving, daemonVars, StoreInv, CleanInv, HolderInv, SaveInv, MemInv,
           DiskInv, Writing, Loaded, TypeOK, StoreType, Files
  <2>8. SaveInv'
    BY <1>17, <2>1
       DEF SetItem, Serving, daemonVars, StoreInv, SaveInv, Loaded, Writing, MemInv,
           HolderInv, CleanInv, DiskInv, TypeOK, StoreType, Files, SaveTask, Stages
  <2>9. SavedSurvives'
    BY <1>17, <2>1
       DEF SetItem, Serving, daemonVars, StoreInv, SavedSurvives, MemInv, DiskInv,
           SaveInv, CleanInv, HolderInv, Writing, Loaded, TypeOK, StoreType, Files
  <2>10. EndpointTrue'
    BY <1>17, <2>1
       DEF SetItem, Serving, daemonVars, StoreInv, EndpointTrue, HolderInv, Holding,
           TypeOK, StoreType, Files
  <2> QED BY <2>3, <2>4, <2>5, <2>6, <2>7, <2>8, <2>9, <2>10 DEF StoreInv
<1>18. ASSUME NEW w \in Writers, MarkDirty(w), UNCHANGED daemonVars PROVE StoreInv'
  <2>1. StoreType'
    BY <1>18, MaxOfTwo
       DEF MarkDirty, daemonVars, StoreInv, StoreType, TypeOK, Stages, Files
  <2>2. TypeOK'
    BY <1>18, <2>1 DEF MarkDirty, daemonVars, StoreInv, TypeOK, Stage
  <2>3. HolderInv'
    BY <1>18
       DEF MarkDirty, daemonVars, StoreInv, HolderInv, Holding, TypeOK, StoreType,
           Files, Stages
  <2>4. DiskInv'
    BY <1>18
       DEF MarkDirty, daemonVars, StoreInv, DiskInv, SaveInv, TypeOK, StoreType, Files
  <2>5. MemInv'
    BY <1>18, MaxOfTwo
       DEF MarkDirty, daemonVars, StoreInv, MemInv, DiskInv, SavedSurvives, SaveInv,
           HolderInv, Holding, Writing, Loaded, TypeOK, StoreType, Files
  <2>6. CleanInv'
    BY <1>18
       DEF MarkDirty, daemonVars, StoreInv, CleanInv, HolderInv, SaveInv, MemInv,
           DiskInv, Writing, Loaded, TypeOK, StoreType, Files
  <2>7. SaveInv'
    BY <1>18, MaxOfTwo
       DEF MarkDirty, daemonVars, StoreInv, SaveInv, Loaded, Writing, MemInv, HolderInv,
           CleanInv, DiskInv, TypeOK, StoreType, Files, SaveTask, Stages
  <2>8. SavedSurvives'
    BY <1>18, MaxOfTwo
       DEF MarkDirty, daemonVars, StoreInv, SavedSurvives, MemInv, DiskInv, SaveInv,
           CleanInv, HolderInv, Writing, Loaded, TypeOK, StoreType, Files
  <2>9. EndpointTrue'
    BY <1>18
       DEF MarkDirty, daemonVars, StoreInv, EndpointTrue, HolderInv, Holding, TypeOK,
           StoreType, Files
  <2> QED BY <2>2, <2>3, <2>4, <2>5, <2>6, <2>7, <2>8, <2>9 DEF StoreInv
<1>19. CASE UNCHANGED vars
    BY <1>19, OutsideStep DEF vars, storeVars, daemonVars, StoreInv, TypeOK, StoreType
<1> QED
    BY <1>1, <1>2, <1>3, <1>4, <1>5, <1>6, <1>7, <1>8, <1>9, <1>10, <1>11, <1>12, <1>13,
       <1>14, <1>15, <1>16, <1>17, <1>18, <1>19, PersistStep
       DEF Next, Startup, Persist, Change, Mark

(* The inductive invariant holds throughout. *)
THEOREM StoreInvariant == Spec => []StoreInv
BY StoreInitial, StoreStep, PTL DEF Spec

(* Every variable keeps its type, and nothing is saved without the lock. *)
THEOREM ProfileTypeCorrect == Spec => []TypeOK
<1>1. StoreInv => TypeOK
    BY DEF StoreInv
<1> QED BY StoreInvariant, <1>1, PTL

(* write_atomic and persist: a change that was answered before a persist    *)
(* that returned Ok is in the file after any later crash or power loss.     *)
THEOREM SavedChangesSurvive == Spec => []SavedSurvives
<1>1. StoreInv => SavedSurvives
    BY DEF StoreInv
<1> QED BY StoreInvariant, <1>1, PTL

(* write_endpoint: the daemon that serves is the one daemon.json names. *)
THEOREM EndpointNamesServer == Spec => []EndpointTrue
<1>1. StoreInv => EndpointTrue
    BY DEF StoreInv
<1> QED BY StoreInvariant, <1>1, PTL

-----------------------------------------------------------------------------
(* The refinement: what a crash may leave of the files is an AtomicFile.    *)

(* All that is ever in a file is whole, or was there before.                *)
LEMMA DurableContents ==
    ASSUME StoreInv
    PROVE  \A f \in Files : \A c \in dur[f] :
               c \in {Whole(n) : n \in 0..MaxVersion} \cup {Foreign}
BY DEF StoreInv, TypeOK, StoreType, DiskInv, Content, Whole

(* Init maps to AtomicFile's Init. *)
LEMMA AtomicInitial == Init => Atomic!Init
BY StoreAssumption DEF Init, StoreInit, Atomic!Init, Absent

(* A content that takes a name, at load or by the rename. *)
LEMMA AtomicReplaces ==
    ASSUME NEW f \in Files, NEW n \in 0..MaxVersion,
           dur' = [dur EXCEPT ![f] = @ \cup {Whole(n)}]
    PROVE  Atomic!Next
BY DEF Atomic!Next, Atomic!Replace

(* A directory sync or a power loss leaves one of the contents of each.     *)
LEMMA AtomicSettles ==
    ASSUME StoreInv, NEW s \in [Files -> Content],
           \A f \in Files : s[f] \in dur[f],
           dur' = [f \in Files |-> {s[f]}]
    PROVE  Atomic!Next
<1>1. s \in [Files -> {Whole(n) : n \in 0..MaxVersion} \cup {Foreign}]
    BY DurableContents
<1>2. Atomic!Settle
    BY <1>1 DEF Atomic!Settle
<1> QED BY <1>2 DEF Atomic!Next

(* Every other step maps to one of these, or leaves the files alone.        *)
LEMMA AtomicStep == StoreInv /\ [Next]_vars => [Atomic!Next]_dur
<1> SUFFICES ASSUME StoreInv, [Next]_vars PROVE dur' = dur \/ Atomic!Next
    OBVIOUS
<1> USE StoreAssumption
<1>1. ASSUME NEW f \in Files, Load(f) PROVE dur' = dur \/ Atomic!Next
    BY <1>1, AtomicReplaces DEF Load, diskVars, Absent
<1>2. CASE RenameTmp
  <2>1. save.file \in Files /\ save.ver \in 0..MaxVersion /\ Left = {Whole(save.ver)}
    BY <1>2 DEF RenameTmp, SaveAt, Left, StoreInv, SaveInv, TypeOK, StoreType, SaveTask
  <2> QED BY <1>2, <2>1, AtomicReplaces DEF RenameTmp
<1>3. CASE SyncDir
    BY <1>3, AtomicSettles DEF SyncDir, StoreInv, DiskInv, TypeOK, StoreType
<1>4. CASE PowerLoss
  <2>1. vis' \in [Files -> Content]
    BY <1>4 DEF PowerLoss, StorePowerLoss, StoreInv, TypeOK, StoreType
  <2> QED BY <1>4, <2>1, AtomicSettles DEF PowerLoss, StorePowerLoss
<1>5. ASSUME NEW p \in Procs, Boot(p) \/ BootLoad(p) PROVE dur' = dur \/ Atomic!Next
    BY <1>5, <1>1 DEF Boot, BootLoad, OpenStore, LoadLocalStorage, Files
<1>6. ASSUME NEW p \in Procs, Start(p) \/ CreateLock(p) \/ LockStatus(p) \/ RemoveStale(p)
                              \/ WritePid(p) \/ BootLocked(p) \/ WriteEndpoint(p) \/ Unlock(p)
      PROVE  dur' = dur
    BY <1>6 DEF Start, CreateLock, LockStatus, RemoveStale, WritePid, BootLocked, WriteEndpoint,
                Unlock, storeVars
<1>7. ASSUME NEW p \in Procs, Stop(p) \/ Closed(p) \/ Kill(p) PROVE dur' = dur
    BY <1>7 DEF Stop, BeginPersist, Closed, Kill, DropStore
<1>8. CASE CheckDirty \/ WriteTmp \/ SyncTmp \/ SaveFails
    BY <1>8 DEF CheckDirty, WriteTmp, SyncTmp, SaveFails
<1>9. CASE LockAges \/ Change \/ Mark
    BY <1>9 DEF LockAges, Change, Mark, SetCookie, SetItem, MarkDirty, storeVars
<1>10. CASE UNCHANGED vars
    BY <1>10 DEF vars, storeVars
<1> QED
    BY <1>2, <1>3, <1>4, <1>5, <1>6, <1>7, <1>8, <1>9, <1>10
       DEF Next, Startup, Persist, SaveStep

(* The profile files implement AtomicFile: whatever fails in a save, and    *)
(* whenever the power goes, a name stands for one complete content that was *)
(* saved into it.                                                           *)
THEOREM StoreIsAtomic == Spec => AtomicSaves
BY StoreInvariant, AtomicInitial, AtomicStep, PTL DEF Spec, AtomicSaves, Atomic!Spec

(* A profile shared by daemons that start, stop and die: what was saved is  *)
(* there, and the endpoint file names the daemon that serves.               *)
THEOREM ProfileIsSafe == Spec => []ProfileSafe
BY ProfileTypeCorrect, SavedChangesSurvive, EndpointNamesServer, PTL DEF ProfileSafe
=============================================================================
