---------------------------- MODULE ProfileStore ----------------------------
(* The durable profile of browser/profile/store.rs and the live state it    *)
(* saves: the cookie jar and the local storage areas with their dirty flag. *)
(* A content is the number of the last change it contains; the machine may  *)
(* lose its power between any two file operations.                          *)
EXTENDS Naturals, FiniteSetsExt

CONSTANTS
    Procs,       \* browser processes, each started at most once
    Writers,     \* renderer service tasks that change local storage
    MaxVersion   \* bound on the changes made in one behaviour

Files == {"cookies", "localstorage"}
Nobody == "nobody"

ASSUME StoreAssumption == /\ Nobody \notin Procs
                          /\ MaxVersion \in Nat

VARIABLES
    vis,      \* what the name of each file stands for now
    dur,      \* what it may stand for after a power loss
    flock,    \* the process that holds the profile's lock
    mem,      \* live state of the open profile
    dirty,    \* LocalStorage::dirty
    wrote,    \* per service task: the change it has made and not yet marked
    acked,    \* last change of each file that was answered
    save,     \* the persist task: where it is and the content in its hands
    safe,     \* changes answered before a save that returned Ok (history)
    last      \* last change made by anybody

storeVars == <<vis, dur, flock, mem, dirty, wrote, acked, save, safe, last>>
diskVars == <<vis, dur>>

\* A torn content is what a crash leaves of bytes that were never synced; one
\* may also have been there before, written by something else.
Content == [ver : 0..MaxVersion, torn : BOOLEAN]
Whole(n) == [ver |-> n, torn |-> FALSE]
Absent == Whole(0)
Foreign == [ver |-> 0, torn |-> TRUE]

Stages == {"off", "check", "export", "sync", "rename", "dirsync", "ok", "err"}
SaveTask == [at : Stages, file : Files, ver : 0..MaxVersion, synced : BOOLEAN,
             due : [Files -> 0..MaxVersion]]
SaveOff == [at |-> "off", file |-> "cookies", ver |-> 0, synced |-> FALSE,
            due |-> [f \in Files |-> 0]]

StoreInit ==
    /\ \E c \in {Absent, Foreign} : vis = [f \in Files |-> c]
    /\ dur = [f \in Files |-> {vis[f]}]
    /\ flock = Nobody
    /\ mem = [f \in Files |-> 0]
    /\ dirty = FALSE
    /\ wrote = [w \in Writers |-> 0]
    /\ acked = [f \in Files |-> 0]
    /\ save = SaveOff
    /\ safe = [f \in Files |-> 0]
    /\ last = 0

-----------------------------------------------------------------------------
(* Opening: the lock is tried once; a file that does not parse is moved     *)
(* aside and the profile starts empty.                                      *)
\* Reading one file into the live state.
Load(f) ==
    /\ mem' = [mem EXCEPT ![f] = vis[f].ver]
    /\ acked' = [acked EXCEPT ![f] = vis[f].ver]
    /\ IF vis[f].torn
       THEN /\ vis' = [vis EXCEPT ![f] = Absent]
            /\ dur' = [dur EXCEPT ![f] = @ \cup {Absent}]
       ELSE UNCHANGED diskVars

OpenStore(p) ==
    /\ flock = Nobody
    /\ flock' = p
    /\ Load("cookies")
    /\ UNCHANGED <<dirty, wrote, save, safe, last>>

LoadLocalStorage(p) ==
    /\ flock = p
    /\ Load("localstorage")
    /\ dirty' = FALSE
    /\ UNCHANGED <<flock, wrote, save, safe, last>>

-----------------------------------------------------------------------------
(* Changes of the live state. A cookie is stored under the agent's lock.    *)
(* LocalStorage changes the area under its lock and raises the flag after   *)
(* it has released it; only then is the caller answered.                    *)
SetCookie ==
    /\ last < MaxVersion
    /\ last' = last + 1
    /\ mem' = [mem EXCEPT !["cookies"] = last']
    /\ acked' = [acked EXCEPT !["cookies"] = last']
    /\ UNCHANGED <<vis, dur, flock, dirty, wrote, save, safe>>

\* Mutant: the caller is answered before the flag is raised.
SetItemAckFirst(w) ==
    /\ wrote[w] = 0
    /\ last < MaxVersion
    /\ last' = last + 1
    /\ mem' = [mem EXCEPT !["localstorage"] = last']
    /\ acked' = [acked EXCEPT !["localstorage"] = last']
    /\ wrote' = [wrote EXCEPT ![w] = last']
    /\ UNCHANGED <<vis, dur, flock, dirty, save, safe>>

SetItem(w) ==
    /\ wrote[w] = 0
    /\ last < MaxVersion
    /\ last' = last + 1
    /\ mem' = [mem EXCEPT !["localstorage"] = last']
    /\ wrote' = [wrote EXCEPT ![w] = last']
    /\ UNCHANGED <<vis, dur, flock, dirty, acked, save, safe>>

MarkDirty(w) ==
    /\ wrote[w] # 0
    /\ dirty' = TRUE
    /\ acked' = [acked EXCEPT !["localstorage"] = Max({@, wrote[w]})]
    /\ wrote' = [wrote EXCEPT ![w] = 0]
    /\ UNCHANGED <<vis, dur, flock, mem, save, safe, last>>

-----------------------------------------------------------------------------
(* persist: save_from, then save_local_storage.                             *)
SaveAt(at) == save.at = at

BeginPersist ==
    /\ SaveAt("off")
    /\ save' = [SaveOff EXCEPT !.at = "export", !.due = acked]
    /\ UNCHANGED <<vis, dur, flock, mem, dirty, wrote, acked, safe, last>>

\* The end of one file: the cookies are followed by the local storage, and
\* the answer of persist covers what was answered before it began.
FileDone ==
    IF save.file = "cookies"
    THEN /\ save' = [save EXCEPT !.at = "check", !.file = "localstorage", !.synced = FALSE]
         /\ UNCHANGED safe
    ELSE /\ save' = [save EXCEPT !.at = "ok"]
         /\ safe' = [f \in Files |-> Max({safe[f], save.due[f]})]

CheckDirty ==
    /\ SaveAt("check")
    /\ IF dirty THEN save' = [save EXCEPT !.at = "export"] /\ UNCHANGED safe
                ELSE FileDone
    /\ UNCHANGED <<vis, dur, flock, mem, dirty, wrote, acked, last>>

\* The rows are exported and written to a new temporary file.
WriteTmp ==
    /\ SaveAt("export")
    /\ save' = [save EXCEPT !.at = "sync", !.ver = mem[save.file]]
    /\ UNCHANGED <<vis, dur, flock, mem, dirty, wrote, acked, safe, last>>

\* Mutant: the rename is not preceded by sync_all.
SyncTmpSkipped ==
    /\ SaveAt("sync")
    /\ save' = [save EXCEPT !.at = "rename"]
    /\ UNCHANGED <<vis, dur, flock, mem, dirty, wrote, acked, safe, last>>

SyncTmp ==
    /\ SaveAt("sync")
    /\ save' = [save EXCEPT !.at = "rename", !.synced = TRUE]
    /\ UNCHANGED <<vis, dur, flock, mem, dirty, wrote, acked, safe, last>>

\* Bytes that were not synced before the rename may be gone after a crash.
Left == IF save.synced THEN {Whole(save.ver)}
        ELSE {Whole(save.ver), [ver |-> save.ver, torn |-> TRUE]}

RenameTmp ==
    /\ SaveAt("rename")
    /\ vis' = [vis EXCEPT ![save.file] = Whole(save.ver)]
    /\ dur' = [dur EXCEPT ![save.file] = @ \cup Left]
    /\ save' = [save EXCEPT !.at = "dirsync"]
    /\ UNCHANGED <<flock, mem, dirty, wrote, acked, safe, last>>

\* Both files live in the directory that is synced.
SyncDir ==
    /\ SaveAt("dirsync")
    /\ dur' = [f \in Files |-> {vis[f]}]
    /\ dirty' = (dirty /\ save.file = "cookies")
    /\ FileDone
    /\ UNCHANGED <<vis, flock, mem, wrote, acked, last>>

\* Any file operation may fail: the temporary file is removed, the error ends
\* persist, and what has already happened to the name stays.
SaveFails ==
    /\ save.at \in {"export", "sync", "rename", "dirsync"}
    /\ save' = [save EXCEPT !.at = "err"]
    /\ UNCHANGED <<vis, dur, flock, mem, dirty, wrote, acked, safe, last>>

SaveStep == CheckDirty \/ WriteTmp \/ SyncTmp \/ RenameTmp \/ SyncDir

-----------------------------------------------------------------------------
(* The end of a process, its store with it, and of the machine.             *)

MemoryGone ==
    /\ flock' = Nobody
    /\ save' = SaveOff
    /\ wrote' = [w \in Writers |-> 0]
    /\ mem' = [f \in Files |-> 0]
    /\ acked' = [f \in Files |-> 0]
    /\ dirty' = FALSE

DropStore(p) ==
    /\ IF flock = p THEN MemoryGone ELSE UNCHANGED <<flock, save, wrote, mem, acked, dirty>>
    /\ UNCHANGED <<vis, dur, safe, last>>

StorePowerLoss ==
    /\ vis' \in [Files -> UNION {dur[f] : f \in Files}]
    /\ \A f \in Files : vis'[f] \in dur[f]
    /\ dur' = [f \in Files |-> {vis'[f]}]
    /\ MemoryGone
    /\ UNCHANGED <<safe, last>>

-----------------------------------------------------------------------------
(* Nothing is saved without the lock.                                       *)
StoreType ==
    /\ vis \in [Files -> Content]
    /\ dur \in [Files -> SUBSET Content]
    /\ flock \in Procs \cup {Nobody}
    /\ mem \in [Files -> 0..MaxVersion]
    /\ dirty \in BOOLEAN
    /\ wrote \in [Writers -> 0..MaxVersion]
    /\ acked \in [Files -> 0..MaxVersion]
    /\ save \in SaveTask
    /\ safe \in [Files -> 0..MaxVersion]
    /\ last \in 0..MaxVersion
    /\ flock = Nobody => save = SaveOff

(* A change that was answered before a persist that returned Ok is in the   *)
(* file, whatever the machine does afterwards: the rename was followed by   *)
(* the sync of the directory, and local storage skips its save only when    *)
(* no answered change is missing.                                           *)
SavedSurvives ==
    \A f \in Files : \A c \in dur[f] : safe[f] > 0 => ~c.torn /\ c.ver >= safe[f]

(* The name of a profile file stands for a whole content that was saved     *)
(* into it, the old or the new one: every step of the store is a step of    *)
(* AtomicFile.                                                              *)
Atomic == INSTANCE AtomicFile WITH
              Contents <- {Whole(n) : n \in 0..MaxVersion} \cup {Foreign},
              possible <- dur
AtomicSaves == Atomic!Spec
=============================================================================
