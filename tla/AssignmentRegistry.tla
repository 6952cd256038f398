------------------------ MODULE AssignmentRegistry ------------------------
(***************************************************************************)
(* The assignment registry of one browser context: reserve, resolve,       *)
(* was_released and Drop for Assignment (crates/browser/src/assignment.rs), *)
(* seen by the service task of a renderer and by the dial workers that task *)
(* spawns (crates/browser/src/link.rs).                                     *)
(*                                                                         *)
(* All of these run on different threads.  The `live' map has its own       *)
(* mutex and `max_released' is an atomic, so between the step that empties  *)
(* one and the step that updates the other everybody else can run.         *)
(* An Arc<Assignment> is held by the owning tab, by a service call while it *)
(* is being served, and for an instant by a dial worker; Drop begins when   *)
(* the last of them goes.                                                   *)
(***************************************************************************)
EXTENDS Integers, FiniteSets

CONSTANTS
    MaxId,      \* bound on the ids `next' hands out
    Workers,    \* dial workers, each used for one dial
    NoId

AsgIds == 1..MaxId

ASSUME RegistryAssumption == MaxId \in Nat \ {0} /\ NoId \notin AsgIds

VARIABLES
    nextId,         \* AtomicU64 next
    maxReleased,  \* AtomicU64 max_released
    live,         \* keys of the live map
    owned,        \* ids whose tab still holds its Arc
    drop,         \* how far Drop for Assignment has come, per id
    spc, sid,     \* the service task: where it is, and the id of its call
    workerAt, wid,     \* each dial worker, and the id it dials for
    streams       \* workers whose response stream is in the network's table

registryVars == <<nextId, maxReleased, live, owned, drop, spc, sid, workerAt, wid, streams>>

(* Arc::strong_count of the assignment is not zero. *)
Referenced(id) == id \in owned \/ (spc = "serve" /\ sid = id)

(* note_released: fetch_max. *)
NoteReleased(id) == maxReleased' = IF id > maxReleased THEN id ELSE maxReleased

WasReleased(id) == id # 0 /\ id <= maxReleased

(* Drop starts for id when the step leaves no Arc of it. *)
BeginDrop(id) == drop' = [drop EXCEPT ![id] = "note"]

-----------------------------------------------------------------------------
(* reserve: under the manager's lock, so next, insert and count are one step. *)
ReserveId ==
    /\ nextId <= MaxId
    /\ nextId' = nextId + 1
    /\ live' = live \cup {nextId}
    /\ owned' = owned \cup {nextId}
    /\ UNCHANGED <<maxReleased, drop, spc, sid, workerAt, wid, streams>>

(* The tab lets go of its assignment (drop_renderer, close, abort). *)
OwnerDrop(id) ==
    /\ id \in owned
    /\ owned' = owned \ {id}
    /\ IF spc = "serve" /\ sid = id THEN drop' = drop ELSE BeginDrop(id)
    /\ UNCHANGED <<nextId, maxReleased, live, spc, sid, workerAt, wid, streams>>

(* Drop for Assignment: the mark, the streams, then the record. *)
DropNote(id) ==
    /\ drop[id] = "note"
    /\ NoteReleased(id)
    /\ drop' = [drop EXCEPT ![id] = "streams"]
    /\ UNCHANGED <<nextId, live, owned, spc, sid, workerAt, wid, streams>>

DropStreams(id) ==
    /\ drop[id] = "streams"
    /\ streams' = {w \in streams : wid[w] # id}
    /\ drop' = [drop EXCEPT ![id] = "unlist"]
    /\ UNCHANGED <<nextId, maxReleased, live, owned, spc, sid, workerAt, wid>>

DropUnlist(id) ==
    /\ drop[id] = "unlist"
    /\ live' = live \ {id}
    /\ drop' = [drop EXCEPT ![id] = "done"]
    /\ UNCHANGED <<nextId, maxReleased, owned, spc, sid, workerAt, wid, streams>>

-----------------------------------------------------------------------------
(* The service task takes one call.  A renderer names an assignment it was  *)
(* given; it may have queued the call before it processed Release.          *)
ReceiveCall(id) ==
    /\ spc = "idle"
    /\ id < nextId
    /\ spc' = "resolve" /\ sid' = id
    /\ UNCHANGED <<nextId, maxReleased, live, owned, drop, workerAt, wid, streams>>

(* resolve, under the map's mutex: a Weak that no longer upgrades is        *)
(* removed, and only after the mutex is released is the id noted.           *)
ResolveCall ==
    /\ spc = "resolve"
    /\ \/ sid \notin live /\ spc' = "check" /\ live' = live
       \/ sid \in live /\ Referenced(sid) /\ spc' = "serve" /\ live' = live
       \/ sid \in live /\ ~ Referenced(sid) /\ spc' = "note" /\ live' = live \ {sid}
    /\ UNCHANGED <<nextId, maxReleased, owned, drop, sid, workerAt, wid, streams>>

NoteCall ==
    /\ spc = "note"
    /\ NoteReleased(sid)
    /\ spc' = "check"
    /\ UNCHANGED <<nextId, live, owned, drop, sid, workerAt, wid, streams>>

(* live_assignment / route_service_call with no live record: a released id  *)
(* gets a benign answer, anything else is a RendererViolation.              *)
CheckCall ==
    /\ spc = "check"
    /\ spc' = IF WasReleased(sid) THEN "idle" ELSE "violation"
    /\ sid' = IF WasReleased(sid) THEN NoId ELSE sid
    /\ UNCHANGED <<nextId, maxReleased, live, owned, drop, workerAt, wid, streams>>

(* The call is answered and its Arc dropped.  If it was the last one, Drop  *)
(* runs on the service task, which takes no other call until it is done.    *)
FinishCall ==
    /\ IF sid \in owned
         THEN spc' = "idle" /\ sid' = NoId /\ drop' = drop
         ELSE spc' = "dropping" /\ sid' = sid /\ BeginDrop(sid)
    /\ UNCHANGED <<nextId, maxReleased, live, owned>>

CallDropped ==
    /\ spc = "dropping" /\ drop[sid] = "done"
    /\ spc' = "idle" /\ sid' = NoId
    /\ UNCHANGED <<nextId, maxReleased, live, owned, drop, workerAt, wid, streams>>

(* A call that touches nothing modelled here (cookies, storage, windows). *)
ServeCall ==
    /\ spc = "serve"
    /\ FinishCall
    /\ UNCHANGED <<workerAt, wid, streams>>

(* Dial: the worker keeps the id and the network handle, not the Arc. *)
ServeDial(w) ==
    /\ spc = "serve"
    /\ workerAt[w] = "off"
    /\ workerAt' = [workerAt EXCEPT ![w] = "dial"]
    /\ wid' = [wid EXCEPT ![w] = sid]
    /\ FinishCall
    /\ UNCHANGED streams

ServeCancelStream(w) ==
    /\ spc = "serve"
    /\ w \in streams /\ wid[w] = sid
    /\ streams' = streams \ {w}
    /\ FinishCall
    /\ UNCHANGED <<workerAt, wid>>

-----------------------------------------------------------------------------
(* The dial ends with a streamed body, or with none (failed or cancelled).  *)
WorkerDialed(w) ==
    /\ workerAt[w] = "dial"
    /\ \/ streams' = streams \cup {w} /\ workerAt' = [workerAt EXCEPT ![w] = "recheck"]
       \/ streams' = streams /\ workerAt' = [workerAt EXCEPT ![w] = "done"]
    /\ UNCHANGED <<nextId, maxReleased, live, owned, drop, spc, sid, wid>>

(* Mutant: the worker does not look at the registry again. *)
WorkerRecheckSkipped(w) ==
    /\ workerAt[w] = "recheck"
    /\ workerAt' = [workerAt EXCEPT ![w] = "done"]
    /\ UNCHANGED <<nextId, maxReleased, live, owned, drop, spc, sid, wid, streams>>

(* "release_streams may have run while the dial was in flight": resolve     *)
(* again.  A record that is still referenced keeps the stream; whoever      *)
(* drops the last Arc later releases it.                                    *)
WorkerRecheck(w) ==
    /\ workerAt[w] = "recheck"
    /\ \/ /\ wid[w] \in live /\ Referenced(wid[w])
          /\ workerAt' = [workerAt EXCEPT ![w] = "done"]
          /\ live' = live
       \/ /\ wid[w] \in live /\ ~ Referenced(wid[w])
          /\ workerAt' = [workerAt EXCEPT ![w] = "note"]
          /\ live' = live \ {wid[w]}
       \/ /\ wid[w] \notin live
          /\ workerAt' = [workerAt EXCEPT ![w] = "cancel"]
          /\ live' = live
    /\ UNCHANGED <<nextId, maxReleased, owned, drop, spc, sid, wid, streams>>

WorkerNote(w) ==
    /\ workerAt[w] = "note"
    /\ NoteReleased(wid[w])
    /\ workerAt' = [workerAt EXCEPT ![w] = "cancel"]
    /\ UNCHANGED <<nextId, live, owned, drop, spc, sid, wid, streams>>

WorkerCancel(w) ==
    /\ workerAt[w] = "cancel"
    /\ streams' = streams \ {w}
    /\ workerAt' = [workerAt EXCEPT ![w] = "done"]
    /\ UNCHANGED <<nextId, maxReleased, live, owned, drop, spc, sid, wid>>

-----------------------------------------------------------------------------
RegistryInit ==
    /\ nextId = 1 /\ maxReleased = 0
    /\ live = {} /\ owned = {}
    /\ drop = [id \in AsgIds |-> "none"]
    /\ spc = "idle" /\ sid = NoId
    /\ workerAt = [w \in Workers |-> "off"] /\ wid = [w \in Workers |-> NoId]
    /\ streams = {}

DropStep(id) ==
    \/ DropNote(id)
    \/ DropStreams(id)
    \/ DropUnlist(id)

ServiceStep ==
    \/ ResolveCall
    \/ NoteCall
    \/ CheckCall
    \/ ServeCall
    \/ CallDropped
    \/ \E w \in Workers : ServeDial(w) \/ ServeCancelStream(w)

WorkerStep(w) ==
    \/ WorkerDialed(w)
    \/ WorkerRecheck(w)
    \/ WorkerNote(w)
    \/ WorkerCancel(w)

RegistryNext ==
    \/ ReserveId
    \/ \E id \in AsgIds : OwnerDrop(id) \/ ReceiveCall(id) \/ DropStep(id)
    \/ ServiceStep
    \/ \E w \in Workers : WorkerStep(w)

RegistrySpec == RegistryInit /\ [][RegistryNext]_registryVars

(* Every thread that can take its next step takes it; tabs and renderers    *)
(* owe nothing.                                                             *)
RegistryFairness ==
    /\ \A id \in AsgIds : WF_registryVars(DropStep(id))
    /\ WF_registryVars(ServiceStep)
    /\ \A w \in Workers : WF_registryVars(WorkerStep(w))

RegistryFairSpec == RegistrySpec /\ RegistryFairness

-----------------------------------------------------------------------------
RegistryTypeOK ==
    /\ nextId \in 1..(MaxId + 1) /\ maxReleased \in 0..MaxId
    /\ live \subseteq AsgIds /\ owned \subseteq AsgIds
    /\ drop \in [AsgIds -> {"none", "note", "streams", "unlist", "done"}]
    /\ spc \in {"idle", "resolve", "note", "check", "serve", "dropping", "violation"}
    /\ sid \in AsgIds \cup {NoId}
    /\ workerAt \in [Workers -> {"off", "dial", "recheck", "note", "cancel", "done"}]
    /\ wid \in [Workers -> AsgIds \cup {NoId}]
    /\ streams \subseteq Workers

(* The benign "released" answer is only given for an assignment that really *)
(* is gone: a call for a document some tab still owns is always served,     *)
(* although the mark may be above its id.                                   *)
ReleasedAnswerIsTrue == spc = "check" => ~ Referenced(sid) /\ sid \notin owned

(* The mark never runs behind the map: an id that was handed out and is in  *)
(* neither the map nor some thread's hands is at or below the mark.         *)
UnlistedIsMarked ==
    \A id \in 1..(nextId - 1) :
        \/ id \in live
        \/ WasReleased(id)
        \/ spc = "note" /\ sid = id
        \/ \E w \in Workers : workerAt[w] = "note" /\ wid[w] = id

(* release_streams: "a released renderer leaves no body task reading into   *)
(* memory for nobody".  Once Drop has passed, the only streams of that      *)
(* assignment belong to workers that are about to look again.               *)
NoStreamLeak ==
    \A w \in streams :
        drop[wid[w]] \in {"unlist", "done"} => workerAt[w] \in {"recheck", "note", "cancel"}

\* What the registry promises while drops race service calls and dial workers:
\* no live document is refused as released, no released one is taken for a
\* protocol violation, and no stream survives its assignment unwatched.
RegistrySafe ==
    RegistryTypeOK /\ ReleasedAnswerIsTrue /\ UnlistedIsMarked /\ NoStreamLeak

(* ... and those are cancelled: every stream of a dropped assignment ends.  *)
StreamsEnd ==
    \A w \in Workers :
        (w \in streams /\ drop[wid[w]] # "none") ~> w \notin streams

=============================================================================
