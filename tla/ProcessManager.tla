--------------------------- MODULE ProcessManager ---------------------------
(***************************************************************************)
(* The renderer process manager: crates/browser/src/manager.rs, with the   *)
(* parts of assignment.rs (reserve, Drop for Assignment), link.rs (bind,   *)
(* spawn_process, shutdown) and actor.rs (ensure_renderer, drop_renderer,  *)
(* the abort of a tab coordinator) that move its state.                    *)
(*                                                                         *)
(* The daemon runs on tokio's multi-threaded runtime, so every step between *)
(* two points where another thread can observe the state is an action.     *)
(* The state mutex is held across an await only while an acquire spawns a  *)
(* process; `lock' names that holder, and every other critical section is  *)
(* one action guarded by the lock being free.                              *)
(*                                                                         *)
(* A RendererHandle owns its permit of the slot semaphore and lives as     *)
(* long as some Arc refers to it.  Handles is therefore computed from the  *)
(* places that hold such an Arc (or, while the spawn is in flight, the     *)
(* permit itself).  The identity of a dropped handle is reused: nothing    *)
(* can tell, because a Weak left behind never upgrades again.              *)
(***************************************************************************)
EXTENDS Integers, Sequences, FiniteSets

CONSTANTS
    Procs,         \* identities of renderer handles
    Sites,         \* sites a tab can navigate to
    Tabs,          \* tab coordinators that acquire renderers
    Asgs,          \* identities of Assignment records (reused once dropped)
    Fillers,       \* identities of spawned fill_spare tasks
    Limit,         \* permits of the slot semaphore
    NoticeCap,     \* bound on the release notices queued at once
    OrphanCap,     \* bound on the spawns a tab abort can cancel
    SpawnCanFail,  \* whether spawn_process may fail
    CanCrash,      \* whether a renderer may die on its own
    NoProc, NoSite, NoTab, NoAsg

ASSUME ConstantsAssumption ==
    /\ IsFiniteSet(Procs) /\ IsFiniteSet(Asgs)
    /\ Limit \in Nat \ {0}
    /\ NoticeCap \in Nat /\ OrphanCap \in Nat
    /\ SpawnCanFail \in BOOLEAN /\ CanCrash \in BOOLEAN
    /\ NoProc \notin Procs /\ NoSite \notin Sites
    /\ NoTab \notin Tabs /\ NoAsg \notin Asgs

VARIABLES
    lock, spare, spawning, pool,      \* ManagerState and its mutex
    life, site, count,                \* RendererHandle: alive, site, assignments
    tpc, want, hold, cur, new,        \* one tab coordinator inside ensure_renderer
    aphase, aproc, asite,             \* Assignment records and their Drop
    releases, rpc, rproc, rsite,      \* the notice channel and release_loop
    fpc, fproc,                       \* fill_spare tasks
    orphans                           \* children whose spawn was cancelled

managerVars == <<lock, spare, spawning, pool>>
procVars    == <<life, site, count>>
tabVars     == <<tpc, want, hold, cur, new>>
asgVars     == <<aphase, aproc, asite>>
loopVars    == <<releases, rpc, rproc, rsite>>
fillVars    == <<fpc, fproc>>
vars        == <<managerVars, procVars, tabVars, asgVars, loopVars, fillVars,
                 orphans>>

-----------------------------------------------------------------------------
(* Who holds an Arc<RendererHandle>, or the permit of one being spawned.   *)
Referenced(p) ==
    \/ spare = p
    \/ \E t \in Tabs : hold[t] = p
    \/ \E a \in Asgs : aproc[a] = p
    \/ \E i \in DOMAIN releases : releases[i] = p
    \/ rproc = p
    \/ \E f \in Fillers : fproc[f] = p

Handles == {p \in Procs : Referenced(p)}

(* try_acquire_owned on the slot semaphore succeeds. *)
HasSlot == Cardinality(Handles) < Limit

Unlocked == lock = NoTab

(* Mutant: an acquire that ends in its spawn leaves the mutex locked. *)
UnlockForgotten == lock' = lock

Unlock == lock' = NoTab

(* Mutant: the spawning_spare flag is not looked at. *)
SpareWantedUnflagged == spare = NoProc

(* fill_spare goes on only when no spare exists or is being spawned. *)
SpareWanted == spare = NoProc /\ ~ spawning

TakeSpare == spare' = NoProc

(* Mutant: the process is not locked to the site. *)
BindSkipped(p, s) == site' = site

(* RendererHandle::bind. *)
Bind(p, s) ==
    /\ site[p] \in {NoSite, s}
    /\ site' = [site EXCEPT ![p] = s]

(* Mutant: the retired process stays in its pool. *)
LeavePoolForgotten(p, s) == pool' = pool

(* The release loop takes p out of the pool of s; dangling Weaks go too. *)
LeavePool(p, s) ==
    pool' = [x \in Sites |-> IF x = s THEN (pool[x] \cap Handles) \ {p} ELSE pool[x]]

(* Weak::upgrade succeeds and the alive flag is still set. *)
Usable(s) == {p \in pool[s] : p \in Handles /\ life[p] = "live"}

-----------------------------------------------------------------------------
(* spawn_slot up to the handshake: a fresh handle, counted against the      *)
(* budget, with no assignment.  A Weak to a handle that bore this identity  *)
(* before does not refer to the new one.                                    *)
StartSpawn(p, s) ==
    /\ p \in Procs \ Handles
    /\ life'  = [life  EXCEPT ![p] = "live"]
    /\ site'  = [site  EXCEPT ![p] = s]
    /\ count' = [count EXCEPT ![p] = 0]
    /\ pool'  = [x \in Sites |-> pool[x] \ {p}]

(* AssignmentRegistry::reserve, under the state lock. *)
Reserve(t, p) ==
    \E a \in Asgs :
        /\ aphase[a] = "free"
        /\ aphase' = [aphase EXCEPT ![a] = "held"]
        /\ aproc'  = [aproc  EXCEPT ![a] = p]
        /\ asite'  = [asite  EXCEPT ![a] = want[t]]
        /\ new'    = [new    EXCEPT ![t] = a]
        /\ count'  = [count  EXCEPT ![p] = @ + 1]
        /\ hold'   = [hold   EXCEPT ![t] = p]
        /\ tpc'    = [tpc    EXCEPT ![t] = "notify"]

(* fill_spare: spawns one task. *)
FillSpare ==
    \E f \in Fillers :
        /\ fpc[f] = "off"
        /\ fpc' = [fpc EXCEPT ![f] = "start"]
        /\ fproc' = fproc

(* The last Arc<Assignment> of each member of S goes away: Drop begins. *)
BeginDrop(S) ==
    /\ aphase' = [a \in Asgs |-> IF a \in S THEN "release" ELSE aphase[a]]
    /\ UNCHANGED <<aproc, asite>>

-----------------------------------------------------------------------------
(* ensure_renderer: the tab already hosting the site keeps its renderer     *)
(* (no step); otherwise it asks the manager for one and, until it has it,   *)
(* keeps the old one.                                                       *)
EnsureRenderer(t, s) ==
    /\ tpc[t] = "idle"
    /\ cur[t] # NoAsg => asite[cur[t]] # s
    /\ tpc'  = [tpc  EXCEPT ![t] = "wait"]
    /\ want' = [want EXCEPT ![t] = s]
    /\ UNCHANGED <<hold, cur, new, managerVars, procVars, asgVars, loopVars,
                   fillVars, orphans>>

(* acquire_reserved, first branch: take the spare and lock it to the site.  *)
(* Nothing checks that the spare is still alive.                            *)
AcquireSpare(t) ==
    /\ tpc[t] = "wait" /\ Unlocked
    /\ spare # NoProc
    /\ Bind(spare, want[t])
    /\ pool' = [pool EXCEPT ![want[t]] = @ \cup {spare}]
    /\ TakeSpare
    /\ Reserve(t, spare)
    /\ UNCHANGED <<lock, spawning, life, want, cur, loopVars, fillVars, orphans>>

(* Second branch: a permit is free, so spawn with the state lock held. *)
AcquireSpawn(t) ==
    /\ tpc[t] = "wait" /\ Unlocked
    /\ spare = NoProc
    /\ HasSlot
    /\ \E p \in Procs :
         /\ StartSpawn(p, want[t])
         /\ hold' = [hold EXCEPT ![t] = p]
    /\ lock' = t
    /\ tpc'  = [tpc EXCEPT ![t] = "spawn"]
    /\ UNCHANGED <<spare, spawning, want, cur, new, asgVars, loopVars, fillVars,
                   orphans>>

SpawnOk(t) ==
    /\ tpc[t] = "spawn"
    /\ Unlock
    /\ pool' = [pool EXCEPT ![want[t]] = @ \cup {hold[t]}]
    /\ Reserve(t, hold[t])
    /\ UNCHANGED <<spare, spawning, life, site, want, cur, loopVars, fillVars,
                   orphans>>

(* spawn_process fails: its permit is dropped and acquire returns the error.*)
SpawnFail(t) ==
    /\ SpawnCanFail
    /\ tpc[t] = "spawn"
    /\ Unlock
    /\ tpc'  = [tpc  EXCEPT ![t] = "idle"]
    /\ want' = [want EXCEPT ![t] = NoSite]
    /\ hold' = [hold EXCEPT ![t] = NoProc]
    /\ UNCHANGED <<spare, spawning, pool, procVars, cur, new, asgVars, loopVars,
                   fillVars, orphans>>

(* Third branch: the budget is spent; dead candidates leave the pool and a  *)
(* live one is shared (the code takes the oldest, the model any).           *)
AcquireReuse(t) ==
    /\ tpc[t] = "wait" /\ Unlocked
    /\ spare = NoProc
    /\ ~ HasSlot
    /\ pool' = [pool EXCEPT ![want[t]] = Usable(want[t])]
    /\ \E p \in Usable(want[t]) : Reserve(t, p)
    /\ UNCHANGED <<lock, spare, spawning, life, site, want, cur, loopVars,
                   fillVars, orphans>>

AcquireExhausted(t) ==
    /\ tpc[t] = "wait" /\ Unlocked
    /\ spare = NoProc
    /\ ~ HasSlot
    /\ Usable(want[t]) = {}
    /\ pool' = [pool EXCEPT ![want[t]] = {}]
    /\ tpc'  = [tpc  EXCEPT ![t] = "idle"]
    /\ want' = [want EXCEPT ![t] = NoSite]
    /\ UNCHANGED <<lock, spare, spawning, procVars, hold, cur, new, asgVars,
                   loopVars, fillVars, orphans>>

(* assign_notify is queued (a dead process may still accept it); acquire    *)
(* asks for a new spare and returns, and ensure_renderer drops the old      *)
(* renderer before it installs the new one.                                 *)
NotifyOk(t) ==
    /\ tpc[t] = "notify"
    /\ FillSpare
    /\ BeginDrop({cur[t]})
    /\ cur'  = [cur  EXCEPT ![t] = new[t]]
    /\ new'  = [new  EXCEPT ![t] = NoAsg]
    /\ hold' = [hold EXCEPT ![t] = NoProc]
    /\ want' = [want EXCEPT ![t] = NoSite]
    /\ tpc'  = [tpc  EXCEPT ![t] = "idle"]
    /\ UNCHANGED <<managerVars, procVars, loopVars, orphans>>

(* The transport is gone: the reservation is dropped; acquire's own Arc of  *)
(* the process goes when it returns.                                        *)
NotifyErr(t) ==
    /\ tpc[t] = "notify"
    /\ life[hold[t]] # "live"
    /\ BeginDrop({new[t]})
    /\ new' = [new EXCEPT ![t] = NoAsg]
    /\ tpc' = [tpc EXCEPT ![t] = "fail"]
    /\ UNCHANGED <<want, hold, cur, managerVars, procVars, loopVars, fillVars,
                   orphans>>

FailReturn(t) ==
    /\ tpc[t] = "fail"
    /\ hold' = [hold EXCEPT ![t] = NoProc]
    /\ want' = [want EXCEPT ![t] = NoSite]
    /\ tpc'  = [tpc  EXCEPT ![t] = "idle"]
    /\ UNCHANGED <<cur, new, managerVars, procVars, asgVars, loopVars, fillVars,
                   orphans>>

(* drop_renderer: a failed mount or request, or the tab closing. *)
DropRenderer(t) ==
    /\ tpc[t] = "idle" /\ cur[t] # NoAsg
    /\ BeginDrop({cur[t]})
    /\ cur' = [cur EXCEPT ![t] = NoAsg]
    /\ UNCHANGED <<tpc, want, hold, new, managerVars, procVars, loopVars,
                   fillVars, orphans>>

(* TabTask::shutdown gives up and aborts the coordinator while it awaits    *)
(* inside acquire.  Everything the future owns is dropped.  A spawn cut off *)
(* in its handshake gives its permit back, but the transport tasks were     *)
(* detached and keep the child; one cut off after it failed leaves nothing. *)
AbortTab(t) ==
    /\ tpc[t] \in {"wait", "spawn", "notify"}
    /\ BeginDrop({cur[t], new[t]})
    /\ lock' = IF tpc[t] = "spawn" THEN NoTab ELSE lock
    /\ orphans' \in {orphans} \cup
         (IF tpc[t] = "spawn" /\ orphans < OrphanCap THEN {orphans + 1} ELSE {})
    /\ cur'  = [cur  EXCEPT ![t] = NoAsg]
    /\ new'  = [new  EXCEPT ![t] = NoAsg]
    /\ hold' = [hold EXCEPT ![t] = NoProc]
    /\ want' = [want EXCEPT ![t] = NoSite]
    /\ tpc'  = [tpc  EXCEPT ![t] = "idle"]
    /\ UNCHANGED <<spare, spawning, pool, procVars, loopVars, fillVars>>

-----------------------------------------------------------------------------
(***************************************************************************)
(* Drop for Assignment, as its steps: the count goes down, the notice is   *)
(* sent, and only after drop() returns does the process field go.          *)
(***************************************************************************)
DropCount(a) ==
    /\ aphase[a] = "release"
    /\ count'  = [count  EXCEPT ![aproc[a]] = @ - 1]
    /\ aphase' = [aphase EXCEPT ![a] = "uncounted"]
    /\ UNCHANGED <<aproc, asite, managerVars, life, site, tabVars, loopVars,
                   fillVars, orphans>>

(* Mutant: the notice is lost. *)
DropSendLost(a) ==
    /\ aphase[a] = "uncounted"
    /\ aphase' = [aphase EXCEPT ![a] = "sent"]
    /\ UNCHANGED <<aproc, asite, managerVars, procVars, tabVars, loopVars,
                   fillVars, orphans>>

DropSend(a) ==
    /\ aphase[a] = "uncounted"
    /\ Len(releases) < NoticeCap
    /\ releases' = Append(releases, aproc[a])
    /\ aphase'   = [aphase EXCEPT ![a] = "sent"]
    /\ UNCHANGED <<aproc, asite, managerVars, procVars, tabVars, rpc, rproc,
                   rsite, fillVars, orphans>>

DropArc(a) ==
    /\ aphase[a] = "sent"
    /\ aphase' = [aphase EXCEPT ![a] = "free"]
    /\ aproc'  = [aproc  EXCEPT ![a] = NoProc]
    /\ asite'  = [asite  EXCEPT ![a] = NoSite]
    /\ UNCHANGED <<managerVars, procVars, tabVars, loopVars, fillVars, orphans>>

-----------------------------------------------------------------------------
(* release_loop.  The site is read before the state lock is taken. *)
ReleaseRecv ==
    /\ rpc = "recv" /\ releases # <<>>
    /\ rproc' = Head(releases)
    /\ rsite' = site[Head(releases)]
    /\ releases' = Tail(releases)
    /\ rpc' = "decide"
    /\ UNCHANGED <<managerVars, procVars, tabVars, asgVars, fillVars, orphans>>

ReleaseKeep ==
    /\ rpc = "decide" /\ Unlocked
    /\ count[rproc] # 0
    /\ rpc' = "drop"
    /\ UNCHANGED <<releases, rproc, rsite, managerVars, procVars, tabVars,
                   asgVars, fillVars, orphans>>

ReleaseRetire ==
    /\ rpc = "decide" /\ Unlocked
    /\ count[rproc] = 0
    /\ LeavePool(rproc, rsite)
    /\ rpc' = "shutdown"
    /\ UNCHANGED <<releases, rproc, rsite, lock, spare, spawning, procVars,
                   tabVars, asgVars, fillVars, orphans>>

(* RendererHandle::shutdown kills the child, then waits for its tasks. *)
ReleaseShutdown ==
    /\ rpc = "shutdown"
    /\ life' = [life EXCEPT ![rproc] = "stopped"]
    /\ rpc' = "drop"
    /\ UNCHANGED <<releases, rproc, rsite, managerVars, site, count, tabVars,
                   asgVars, fillVars, orphans>>

ReleaseDrop ==
    /\ rpc = "drop"
    /\ FillSpare
    /\ rproc' = NoProc /\ rsite' = NoSite
    /\ rpc' = "recv"
    /\ UNCHANGED <<releases, managerVars, procVars, tabVars, asgVars, orphans>>

-----------------------------------------------------------------------------
(* One fill_spare task. *)
FillSkip(f) ==
    /\ fpc[f] = "start" /\ Unlocked
    /\ ~ SpareWanted
    /\ fpc' = [fpc EXCEPT ![f] = "off"]
    /\ UNCHANGED <<fproc, managerVars, procVars, tabVars, asgVars, loopVars,
                   orphans>>

FillClaim(f) ==
    /\ fpc[f] = "start" /\ Unlocked
    /\ SpareWanted
    /\ spawning' = TRUE
    /\ fpc' = [fpc EXCEPT ![f] = "slot"]
    /\ UNCHANGED <<fproc, lock, spare, pool, procVars, tabVars, asgVars,
                   loopVars, orphans>>

FillSpawn(f) ==
    /\ fpc[f] = "slot"
    /\ HasSlot
    /\ \E p \in Procs :
         /\ StartSpawn(p, NoSite)
         /\ fproc' = [fproc EXCEPT ![f] = p]
    /\ fpc' = [fpc EXCEPT ![f] = "spawn"]
    /\ UNCHANGED <<lock, spare, spawning, tabVars, asgVars, loopVars, orphans>>

FillNoSlot(f) ==
    /\ fpc[f] = "slot"
    /\ ~ HasSlot
    /\ fpc' = [fpc EXCEPT ![f] = "store"]
    /\ UNCHANGED <<fproc, managerVars, procVars, tabVars, asgVars, loopVars,
                   orphans>>

FillSpawnOk(f) ==
    /\ fpc[f] = "spawn"
    /\ fpc' = [fpc EXCEPT ![f] = "store"]
    /\ UNCHANGED <<fproc, managerVars, procVars, tabVars, asgVars, loopVars,
                   orphans>>

FillSpawnFail(f) ==
    /\ SpawnCanFail
    /\ fpc[f] = "spawn"
    /\ fpc'   = [fpc   EXCEPT ![f] = "store"]
    /\ fproc' = [fproc EXCEPT ![f] = NoProc]
    /\ UNCHANGED <<managerVars, procVars, tabVars, asgVars, loopVars, orphans>>

FillStore(f) ==
    /\ fpc[f] = "store" /\ Unlocked
    /\ spawning' = FALSE
    /\ spare' = IF fproc[f] # NoProc THEN fproc[f] ELSE spare
    /\ fpc'   = [fpc   EXCEPT ![f] = "off"]
    /\ fproc' = [fproc EXCEPT ![f] = NoProc]
    /\ UNCHANGED <<lock, pool, procVars, tabVars, asgVars, loopVars, orphans>>

-----------------------------------------------------------------------------
BeingSpawned(p) ==
    \/ \E t \in Tabs : tpc[t] = "spawn" /\ hold[t] = p
    \/ \E f \in Fillers : fpc[f] = "spawn" /\ fproc[f] = p

(* A renderer exits, breaks the protocol or is interrupted after a request  *)
(* timeout; the transport tasks clear its alive flag.                       *)
Crash(p) ==
    /\ CanCrash
    /\ p \in Handles /\ ~ BeingSpawned(p)
    /\ life[p] = "live"
    /\ life' = [life EXCEPT ![p] = "dead"]
    /\ UNCHANGED <<managerVars, site, count, tabVars, asgVars, loopVars,
                   fillVars, orphans>>

-----------------------------------------------------------------------------
Init ==
    /\ lock = NoTab /\ spare = NoProc /\ spawning = FALSE
    /\ pool = [s \in Sites |-> {}]
    /\ life = [p \in Procs |-> "stopped"]
    /\ site = [p \in Procs |-> NoSite]
    /\ count = [p \in Procs |-> 0]
    /\ tpc = [t \in Tabs |-> "idle"]
    /\ want = [t \in Tabs |-> NoSite]
    /\ hold = [t \in Tabs |-> NoProc]
    /\ cur = [t \in Tabs |-> NoAsg]
    /\ new = [t \in Tabs |-> NoAsg]
    /\ aphase = [a \in Asgs |-> "free"]
    /\ aproc = [a \in Asgs |-> NoProc]
    /\ asite = [a \in Asgs |-> NoSite]
    /\ releases = <<>>
    /\ rpc = "recv" /\ rproc = NoProc /\ rsite = NoSite
    /\ \E f \in Fillers : fpc = [g \in Fillers |-> IF g = f THEN "start" ELSE "off"]
    /\ fproc = [f \in Fillers |-> NoProc]
    /\ orphans = 0

(* The three branches of acquire_reserved, once the state lock is granted. *)
AcquireReserved(t) ==
    \/ AcquireSpare(t)
    \/ AcquireSpawn(t)
    \/ AcquireReuse(t)
    \/ AcquireExhausted(t)

TabStep(t) ==
    \/ \E s \in Sites : EnsureRenderer(t, s)
    \/ AcquireReserved(t)
    \/ SpawnOk(t)
    \/ SpawnFail(t)
    \/ NotifyOk(t)
    \/ NotifyErr(t)
    \/ FailReturn(t)
    \/ DropRenderer(t)
    \/ AbortTab(t)

DropStep(a) ==
    \/ DropCount(a)
    \/ DropSend(a)
    \/ DropArc(a)

ReleaseDecide ==
    \/ ReleaseKeep
    \/ ReleaseRetire

ReleaseStep ==
    \/ ReleaseRecv
    \/ ReleaseDecide
    \/ ReleaseShutdown
    \/ ReleaseDrop

FillLocked(f) ==
    \/ FillSkip(f)
    \/ FillClaim(f)
    \/ FillStore(f)

FillStep(f) ==
    \/ FillLocked(f)
    \/ FillSpawn(f)
    \/ FillNoSlot(f)
    \/ FillSpawnOk(f)
    \/ FillSpawnFail(f)

Next ==
    \/ \E t \in Tabs : TabStep(t)
    \/ \E a \in Asgs : DropStep(a)
    \/ ReleaseStep
    \/ \E f \in Fillers : FillStep(f)
    \/ \E p \in Procs : Crash(p)

Spec == Init /\ [][Next]_vars

-----------------------------------------------------------------------------
(***************************************************************************)
(* Safety.                                                                 *)
(***************************************************************************)

(* Type correctness of the whole manager state, one part per owner. *)
ManagerType ==
    /\ lock \in Tabs \cup {NoTab}
    /\ spare \in Procs \cup {NoProc}
    /\ spawning \in BOOLEAN
    /\ pool \in [Sites -> SUBSET Procs]

ProcType ==
    /\ life \in [Procs -> {"live", "dead", "stopped"}]
    /\ site \in [Procs -> Sites \cup {NoSite}]
    /\ count \in [Procs -> Int]

TabType ==
    /\ tpc \in [Tabs -> {"idle", "wait", "spawn", "notify", "fail"}]
    /\ want \in [Tabs -> Sites \cup {NoSite}]
    /\ hold \in [Tabs -> Procs \cup {NoProc}]
    /\ cur \in [Tabs -> Asgs \cup {NoAsg}]
    /\ new \in [Tabs -> Asgs \cup {NoAsg}]

AsgType ==
    /\ aphase \in [Asgs -> {"free", "held", "release", "uncounted", "sent"}]
    /\ aproc \in [Asgs -> Procs \cup {NoProc}]
    /\ asite \in [Asgs -> Sites \cup {NoSite}]

LoopType ==
    /\ releases \in Seq(Procs)
    /\ rpc \in {"recv", "decide", "shutdown", "drop"}
    /\ rproc \in Procs \cup {NoProc}
    /\ rsite \in Sites \cup {NoSite}

FillType ==
    /\ fpc \in [Fillers -> {"off", "start", "slot", "spawn", "store"}]
    /\ fproc \in [Fillers -> Procs \cup {NoProc}]

TypeOK ==
    /\ ManagerType /\ ProcType /\ TabType /\ AsgType /\ LoopType /\ FillType
    /\ orphans \in Nat

(* Assignments counted against p: reserved and not yet past fetch_sub. *)
Counted(p) == {a \in Asgs : aproc[a] = p /\ aphase[a] \in {"held", "release"}}

(* The atomic counter the release loop reads is exactly the number of       *)
(* assignments that still count against the process, whatever the           *)
(* interleaving of reservations and drops (link.rs: "the assignment         *)
(* registry increments while the manager's state lock is held; release      *)
(* decrements before the manager re-evaluates shutdown").                   *)
CountExact == \A p \in Handles : count[p] = Cardinality(Counted(p))

(* "A release that races an acquire ... cannot disagree": a process the     *)
(* release loop has decided to stop hosts no assignment, is offered in no   *)
(* site pool, is not the spare, and no acquire holds it alive.              *)
Retiring(p) ==
    \/ rproc = p /\ rpc = "shutdown"
    \/ p \in Handles /\ life[p] = "stopped"

NoShutdownUnderAssignment ==
    \A p \in Procs : Retiring(p) =>
        /\ Counted(p) = {}
        /\ \A s \in Sites : p \notin pool[s]
        /\ p # spare
        /\ \A t \in Tabs : hold[t] = p => tpc[t] = "fail"

(* Site isolation: every counted assignment lives in a process locked to    *)
(* its own site, and a site pool offers only processes locked to that site, *)
(* so one renderer never hosts documents of two sites.                      *)
SiteLocked ==
    /\ \A a \in Asgs : aphase[a] \in {"held", "release"} => site[aproc[a]] = asite[a]
    /\ \A s \in Sites : \A p \in pool[s] : site[p] = s

(* The spare is unlocked: bound to no site, hosting nothing, and nobody     *)
(* else (a tab, a notice, the release loop, another task) refers to it.     *)
SpareUnlocked ==
    spare # NoProc =>
        /\ site[spare] = NoSite
        /\ Counted(spare) = {}
        /\ \A i \in DOMAIN releases : releases[i] # spare
        /\ rproc # spare
        /\ \A t \in Tabs : hold[t] # spare
        /\ \A f \in Fillers : fproc[f] # spare

\* The manager keeps its books whatever acquires, releases and fill_spare tasks
\* interleave: counts are exact, a process serves one site, the spare nobody
\* (manager.rs: acquire_reserved, release_loop, fill_spare).
ManagerSafe ==
    TypeOK /\ CountExact /\ SiteLocked /\ SpareUnlocked

(* No process is stranded: one that hosts nothing is the spare, is being    *)
(* spawned or stored, is being stopped, or has a notice on its way that     *)
(* will make the release loop look at it again; and a pool lists no process *)
(* whose handle is gone.                                                    *)
NoticePending(p) ==
    \/ \E a \in Asgs : aproc[a] = p /\ aphase[a] = "uncounted"
    \/ \E i \in DOMAIN releases : releases[i] = p
    \/ rproc = p /\ rpc = "decide"

NoStrandedProcess ==
    /\ \A p \in Handles : Counted(p) = {} =>
         \/ p = spare
         \/ BeingSpawned(p)
         \/ \E f \in Fillers : fproc[f] = p
         \/ Retiring(p)
         \/ NoticePending(p)
    /\ \A s \in Sites : pool[s] \subseteq Handles

(* A filled spare is only ever consumed by an acquire, never replaced by    *)
(* another fill_spare task (which would drop a live renderer unused).       *)
SpareNeverReplaced == [][spare # NoProc => spare' \in {spare, NoProc}]_vars

-----------------------------------------------------------------------------
(***************************************************************************)
(* Liveness.  tokio's mutex is a FIFO queue, so whoever waits for the state *)
(* lock gets it (SF on the steps that take it).  spawn_process is bounded   *)
(* by HANDSHAKE_TIMEOUT and shutdown by SHUTDOWN_TIMEOUT, and a task that   *)
(* can run does run (WF).  SF on the steps that start a fill_spare task     *)
(* only says that the bound on Fillers does not starve them.  No fairness   *)
(* on what tabs decide to do or on crashes.                                 *)
(***************************************************************************)
Fairness ==
    /\ \A t \in Tabs :
         /\ SF_vars(AcquireReserved(t))
         /\ SF_vars(SpawnOk(t) \/ SpawnFail(t))
         /\ SF_vars(NotifyOk(t) \/ NotifyErr(t))
         /\ WF_vars(FailReturn(t))
    /\ \A a \in Asgs : WF_vars(DropStep(a))
    /\ WF_vars(ReleaseRecv \/ ReleaseShutdown)
    /\ SF_vars(ReleaseDecide)
    /\ SF_vars(ReleaseDrop)
    /\ \A f \in Fillers :
         /\ SF_vars(FillLocked(f))
         /\ WF_vars(FillSpawn(f) \/ FillNoSlot(f) \/ FillSpawnOk(f) \/ FillSpawnFail(f))

FairSpec == Spec /\ Fairness

(* An acquire always returns, however the others hold the state lock. *)
AcquireReturns == \A t \in Tabs : tpc[t] # "idle" ~> tpc[t] = "idle"

(* An idle process goes away: a process hosting nothing ends up as the      *)
(* spare, is given work again, or its handle and slot are released (the     *)
(* test "idle_processes_collapse_to_one_spare").                            *)
IdleProcessCollapses ==
    \A p \in Procs :
        (p \in Handles /\ Counted(p) = {})
            ~> (p \notin Handles \/ p = spare \/ Counted(p) # {})

\* Nobody waits for the manager for ever: acquires return and idle processes
\* are stopped or used again (acquire_reserved, release_loop).
ManagerSettles ==
    AcquireReturns /\ IdleProcessCollapses

=============================================================================
