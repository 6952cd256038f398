----------------------------- MODULE DaemonLock -----------------------------
(* The life of the processes that open one profile: daemons (src/daemon.rs), *)
(* which take the lock file of the runtime directory first and publish their *)
(* endpoint when they serve, and WebDriver servers (serve_webdriver in       *)
(* src/main.rs), which only take the profile's own lock. Processes may be    *)
(* killed and the machine may lose its power at any time.                    *)
EXTENDS ProfileStore

CONSTANTS
    Drivers,   \* the processes that are WebDriver servers
    MaxFaults, \* bound on killed processes and power losses
    NoLock, NoEndpoint


VARIABLES
    pc,        \* where each process is
    lock,      \* the lock file: who created it, whether it holds its pid yet,
               \* whether it is older than two seconds
    endpoint,  \* the process named by daemon.json
    faults     \* killed processes and power losses so far

daemonVars == <<pc, lock, endpoint, faults>>
vars == <<storeVars, daemonVars>>

Stage == {"off", "acquire", "status", "remove", "writepid", "boot", "load", "publish",
          "serve", "closing", "unlock", "dead"}
LockFile == [by : Procs, written : BOOLEAN, old : BOOLEAN]

ASSUME DaemonAssumption == /\ Drivers \subseteq Procs
                           /\ MaxFaults \in Nat
                           /\ NoLock \notin LockFile
                           /\ NoEndpoint \notin Procs

Alive(p) == pc[p] \notin {"off", "dead"}

Init ==
    /\ StoreInit
    /\ pc = [p \in Procs |-> "off"]
    /\ lock = NoLock
    /\ endpoint = NoEndpoint
    /\ faults = 0

Goto(p, at) == pc' = [pc EXCEPT ![p] = at]

Start(p) ==
    /\ pc[p] = "off"
    /\ Goto(p, IF p \in Drivers THEN "boot" ELSE "acquire")
    /\ UNCHANGED <<storeVars, lock, endpoint, faults>>

-----------------------------------------------------------------------------
(* acquire_lock                                                             *)
CreateLock(p) ==
    /\ pc[p] = "acquire"
    /\ IF lock = NoLock
       THEN /\ lock' = [by |-> p, written |-> FALSE, old |-> FALSE]
            /\ Goto(p, "writepid")
       ELSE Goto(p, "status") /\ UNCHANGED lock
    /\ UNCHANGED <<storeVars, endpoint, faults>>

\* Mutant: a lock without a pid is in progress for ever.
StatusNoAge == IF lock = NoLock THEN "stale"
               ELSE IF ~lock.written THEN "progress"
               ELSE IF Alive(lock.by) THEN "held" ELSE "stale"

\* lock_status: a file that has gone meanwhile counts as stale, one without a
\* pid is in progress until it is two seconds old.
Status == IF lock = NoLock THEN "stale"
          ELSE IF ~lock.written THEN (IF lock.old THEN "stale" ELSE "progress")
          ELSE IF Alive(lock.by) THEN "held" ELSE "stale"

LockStatus(p) ==
    /\ pc[p] = "status"
    /\ Goto(p, CASE Status = "stale" -> "remove"
                 [] Status = "progress" -> "acquire"
                 [] Status = "held" -> "dead")
    /\ UNCHANGED <<storeVars, lock, endpoint, faults>>

\* remove_file names a path: whatever lock file is there now goes.
RemoveStale(p) ==
    /\ pc[p] = "remove"
    /\ lock' = NoLock
    /\ Goto(p, "acquire")
    /\ UNCHANGED <<storeVars, endpoint, faults>>

\* The pid goes into the file this process created, which may have lost its name.
WritePid(p) ==
    /\ pc[p] = "writepid"
    /\ lock' = IF lock # NoLock /\ lock.by = p
               THEN [lock EXCEPT !.written = TRUE, !.old = FALSE] ELSE lock
    /\ Goto(p, "boot")
    /\ UNCHANGED <<storeVars, endpoint, faults>>

LockAges ==
    /\ lock # NoLock
    /\ ~lock.old
    /\ lock' = [lock EXCEPT !.old = TRUE]
    /\ UNCHANGED <<storeVars, pc, endpoint, faults>>

-----------------------------------------------------------------------------
(* Browser::new, the first tab, the endpoint.                               *)
Boot(p) ==
    /\ pc[p] = "boot"
    /\ OpenStore(p)
    /\ Goto(p, "load")
    /\ UNCHANGED <<lock, endpoint, faults>>

BootLoad(p) ==
    /\ pc[p] = "load"
    /\ LoadLocalStorage(p)
    /\ Goto(p, IF p \in Drivers THEN "serve" ELSE "publish")
    /\ UNCHANGED <<lock, endpoint, faults>>

\* The profile is locked by another process: the error leaves run, and the
\* lock file stays.
BootLocked(p) ==
    /\ pc[p] = "boot"
    /\ flock # Nobody
    /\ Goto(p, "dead")
    /\ UNCHANGED <<storeVars, lock, endpoint, faults>>

WriteEndpoint(p) ==
    /\ pc[p] = "publish"
    /\ endpoint' = p
    /\ Goto(p, "serve")
    /\ UNCHANGED <<storeVars, lock, faults>>

-----------------------------------------------------------------------------
(* Serving, and the orderly end: the browser closes and saves, its task     *)
(* ends and the store goes with it, then run removes the lock file.         *)
Serving(p) == flock = p /\ pc[p] = "serve"

Change ==
    /\ \E p \in Procs : Serving(p) /\ UNCHANGED daemonVars
    /\ SetCookie \/ \E w \in Writers : SetItem(w)

\* A service task marks the flag whatever the browser does meanwhile.
Mark == \E w \in Writers : MarkDirty(w) /\ UNCHANGED daemonVars

Stop(p) ==
    /\ pc[p] = "serve"
    /\ BeginPersist
    /\ Goto(p, "closing")
    /\ UNCHANGED <<lock, endpoint, faults>>

Persist(p) ==
    /\ pc[p] = "closing"
    /\ SaveStep \/ SaveFails
    /\ UNCHANGED daemonVars

Closed(p) ==
    /\ pc[p] = "closing"
    /\ save.at \in {"ok", "err"}
    /\ DropStore(p)
    /\ Goto(p, IF p \in Drivers THEN "dead" ELSE "unlock")
    /\ UNCHANGED <<lock, endpoint, faults>>

Unlock(p) ==
    /\ pc[p] = "unlock"
    /\ lock' = NoLock
    /\ Goto(p, "dead")
    /\ UNCHANGED <<storeVars, endpoint, faults>>

-----------------------------------------------------------------------------
(* A process that fails or is killed leaves its files behind. The runtime   *)
(* directory does not survive the machine.                                  *)
Kill(p) ==
    /\ Alive(p)
    /\ faults < MaxFaults
    /\ faults' = faults + 1
    /\ DropStore(p)
    /\ Goto(p, "dead")
    /\ UNCHANGED <<lock, endpoint>>

PowerLoss ==
    /\ faults < MaxFaults
    /\ faults' = faults + 1
    /\ StorePowerLoss
    /\ pc' = [p \in Procs |-> IF Alive(p) THEN "dead" ELSE pc[p]]
    /\ lock' = NoLock
    /\ endpoint' = NoEndpoint

Startup(p) == CreateLock(p) \/ LockStatus(p) \/ RemoveStale(p) \/ WritePid(p)
              \/ Boot(p) \/ BootLoad(p) \/ BootLocked(p) \/ WriteEndpoint(p)

Next ==
    \/ \E p \in Procs : Start(p) \/ Startup(p) \/ Stop(p) \/ Persist(p) \/ Closed(p)
                        \/ Unlock(p) \/ Kill(p)
    \/ LockAges
    \/ Change
    \/ Mark
    \/ PowerLoss

Spec == Init /\ [][Next]_vars

\* A process that starts goes on, and so does the clock. Nothing is asked of
\* a process that serves.
Fairness == WF_vars(LockAges) /\ \A p \in Procs \ Drivers : WF_vars(Startup(p))
FairSpec == Spec /\ Fairness

-----------------------------------------------------------------------------
TypeOK ==
    /\ StoreType
    /\ pc \in [Procs -> Stage]
    /\ lock \in LockFile \cup {NoLock}
    /\ endpoint \in Procs \cup {NoEndpoint}
    /\ faults \in 0..MaxFaults

(* A daemon that serves is the one daemon.json names, so at most one        *)
(* serves: start-ups overlap, locks are stolen from under slow writers and  *)
(* killed daemons leave theirs behind, but write_endpoint comes after the   *)
(* profile lock and that lock is kept to the end.                           *)
EndpointTrue == \A p \in Procs \ Drivers : pc[p] = "serve" => endpoint = p

\* A profile shared by daemons that start, stop and die: saved changes survive
\* and the endpoint file names the daemon that serves.
ProfileSafe ==
    TypeOK /\ SavedSurvives /\ EndpointTrue

(* A start is never stuck in acquire_lock: it serves or the process ends,   *)
(* also when the creator of the lock died before it wrote its pid.          *)
StartSettles ==
    \A p \in Procs \ Drivers : pc[p] = "acquire" ~> pc[p] \in {"serve", "closing", "unlock", "dead"}
=============================================================================
