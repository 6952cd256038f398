---------------------------- MODULE JointHistory ----------------------------
(***************************************************************************)
(* The tab actor's joint history and the renderer's replay store, which     *)
(* exchange events and calls (browser/src/actor.rs, renderer/src/engine.rs).*)
(*                                                                          *)
(* The renderer reports what its page did through a queue of events.  The   *)
(* actor takes one event at a time, changes the joint list and then calls   *)
(* the renderer, one frame after the other, with the new positions.  While  *)
(* it waits for an answer the page goes on: a call can find a store that    *)
(* is already ahead of the snapshot it carries.                             *)
(***************************************************************************)
EXTENDS SessionHistory

CONSTANTS
  Names,      \* values of window.name
  MaxFrame,   \* bound: child frames one renderer creates
  MaxEntry,   \* bound: entry identities
  MaxDoc,     \* bound: document states
  MaxUp,      \* bound: events in the queue
  Env         \* what may happen besides settled pages, see Circumstances

\* "eager": the page acts, or a client traverses, while events, calls or a load
\* are under way.
\* "refusal": the main frame's part of a traversal may be refused, superseded or fail.
\* "crossSite": a navigation may replace the renderer.
\* "before": a traversal within the main document may go to a step before the
\* one at which a child of that document appeared.
\* "opaque": a child whose URL has an opaque origin may call pushState.
Circumstances == {"eager", "refusal", "before", "crossSite", "opaque"}

ASSUME EnvAssumption == Env \subseteq Circumstances

VARIABLES
  hist,       \* Tab::history
  up,         \* Tab::events_rx, the events not yet handled
  job,        \* the calls the actor is awaiting, and the step it sets after them
  nav,        \* the main navigation under way: its traversal entry, or Fresh
  replay,     \* Engine::frame_history, for the child frames it hosts
  nextFrame   \* the next frame identity of this renderer

vars == <<hist, up, job, nav, replay, nextFrame>>

Fresh == -2        \* a navigation that pushes
StageAppends == -2      \* a staged replay entry that appends
MaybeName == Names \cup {NoName}

NoJob == [calls |-> {}, then |-> None]
Idle == job = NoJob
Settled == Idle /\ up = <<>> /\ nav = None

Children(h) == DOMAIN h.frames \ {MAIN}

\* sync_histories: what each child's store should hold.  The main frame has no
\* replay store, so its call is left out.
Sync(h) ==
  [calls |-> {[cmd |-> "set", frame |-> f, len |-> Len(Ids(h, f)),
               index |-> IF Active(h, f) = None THEN 0 ELSE Position(h, f, Active(h, f))] : f \in Children(h)},
   then  |-> None]

Init ==
  /\ hist = New
  /\ up = <<>>
  /\ job = NoJob
  /\ nav = None
  /\ replay = <<>>
  /\ nextFrame = 1

-----------------------------------------------------------------------------
(* The engine's replay store: how many payloads it holds, the active         *)
(* position, the staged navigation and whether the document is still the     *)
(* initial blank one.                                                         *)

StorePush(r) ==
  LET kept == Min({r.len, r.index + 1})
  IN [r EXCEPT !.len = kept + 1, !.index = kept]

StoreReplace(r) == IF r.index < r.len THEN r ELSE StorePush(r)

StoreStage(r, replace) == [r EXCEPT !.stage = IF replace THEN r.index ELSE StageAppends]

\* record_frame_history of a navigation.
StoreRecord(r, replace, pending) ==
  IF pending THEN StoreStage(r, replace)
  ELSE LET d == [r EXCEPT !.stage = None, !.fresh = FALSE]
       IN IF replace THEN StoreReplace(d) ELSE StorePush(d)

\* commit_pending.
StoreCommit(r) ==
  LET d == [r EXCEPT !.stage = None, !.fresh = FALSE]
  IN IF r.stage = StageAppends \/ r.stage >= r.len THEN StorePush(d) ELSE d

\* Mutant: the store is not cut when another frame cleared the branch.
StoreSetKeeps(r, len, index) == [r EXCEPT !.index = Min({index, r.len})]

\* set_frame_history.
StoreSet(r, len, index) ==
  LET kept == Min({r.len, len})
  IN [r EXCEPT !.len = kept, !.index = IF kept = 0 THEN 0 ELSE Min({index, kept - 1})]

\* install_frame_history: the staged load is dropped; a position without a
\* payload is followed only by a same-document step.
StoreTraverse(r, index, same) ==
  [r EXCEPT !.stage = None, !.index = IF same \/ index < r.len THEN index ELSE @]

NewStore == [len |-> 1, index |-> 0, stage |-> None, fresh |-> TRUE]

-----------------------------------------------------------------------------
(* The page.                                                                  *)

PageMayAct ==
  /\ Settled \/ "eager" \in Env
  /\ Len(up) < MaxUp
  /\ hist.nextEntry + Len(up) < MaxEntry
  /\ hist.nextDoc + Len(up) < MaxDoc

Started(f, r, pending, replace) ==
  [t |-> "started", f |-> f, replace |-> replace, local |-> r.index, pending |-> pending]

\* A frame is adopted and, when it has a source, navigated in the same turn.
PageAddFrame ==
  /\ PageMayAct
  /\ nextFrame <= MaxFrame
  /\ nextFrame' = nextFrame + 1
  /\ \/ /\ replay' = (nextFrame :> NewStore) @@ replay
        /\ up' = Append(up, [t |-> "added", f |-> nextFrame])
     \/ \E pending \in BOOLEAN :
          LET r == StoreRecord(NewStore, TRUE, pending)
          IN /\ replay' = (nextFrame :> r) @@ replay
             /\ up' = up \o <<[t |-> "added", f |-> nextFrame], Started(nextFrame, r, pending, TRUE)>>
  /\ UNCHANGED <<hist, job, nav>>

\* A navigation of a child replaces only the initial blank document.
PageNavigate(f) ==
  /\ PageMayAct
  /\ replay[f].len < MaxEntry
  /\ \E pending \in BOOLEAN :
       LET replace == replay[f].fresh
           r == StoreRecord(replay[f], replace, pending)
       IN /\ replay' = [replay EXCEPT ![f] = r]
          /\ up' = Append(up, Started(f, r, pending, replace))
  /\ UNCHANGED <<hist, job, nav, nextFrame>>

\* A staged load commits.
PageCommit(f) ==
  /\ PageMayAct
  /\ replay[f].stage # None
  /\ replay[f].len < MaxEntry
  /\ replay' = [replay EXCEPT ![f] = StoreCommit(@)]
  /\ up' = Append(up, [t |-> "navigated", f |-> f])
  /\ UNCHANGED <<hist, job, nav, nextFrame>>

\* pushState or replaceState in a child; take_browser_events keeps the store in
\* line with a push.
PageUpdate(f) ==
  /\ PageMayAct
  /\ replay[f].len < MaxEntry
  /\ "opaque" \in Env \/ (Active(hist, f) # None /\ hist.entries[Active(hist, f)].web)
  /\ \E push \in BOOLEAN :
       /\ replay' = IF push THEN [replay EXCEPT ![f] = StorePush(@)] ELSE replay
       /\ up' = Append(up, [t |-> "updated", f |-> f, push |-> push])
  /\ UNCHANGED <<hist, job, nav, nextFrame>>

PageRemoveFrame(f) ==
  /\ PageMayAct
  /\ replay' = Without(replay, f)
  /\ up' = Append(up, [t |-> "removed", f |-> f])
  /\ UNCHANGED <<hist, job, nav, nextFrame>>

\* pushState or replaceState of the main document.
PageUpdateMain ==
  /\ PageMayAct
  /\ \E push \in BOOLEAN : up' = Append(up, [t |-> "updated", f |-> MAIN, push |-> push])
  /\ UNCHANGED <<hist, job, nav, replay, nextFrame>>

\* history.go of any frame.
PageTraverse(f) ==
  /\ PageMayAct
  /\ \E delta \in {-1, 0, 1} : up' = Append(up, [t |-> "traversal", f |-> f, delta |-> delta])
  /\ UNCHANGED <<hist, job, nav, replay, nextFrame>>

Removals == [i \in 1..Cardinality(DOMAIN replay) |-> [t |-> "removed", f |-> SetToSeq(DOMAIN replay)[i]]]

\* The renderer navigates the main frame itself: the children go first.
PageNavigateMain ==
  /\ PageMayAct
  /\ replay' = <<>>
  /\ up' = up \o Removals \o <<[t |-> "navigated", f |-> MAIN]>>
  /\ UNCHANGED <<hist, job, nav, nextFrame>>

-----------------------------------------------------------------------------
(* The actor.                                                                 *)

\* The child frames a step to `step` moves, and the call each gets.
Moves(h, step) ==
  {[cmd |-> "traverse", frame |-> f, index |-> h.entries[ActiveAt(h, f, step)].local,
    same |-> h.entries[ActiveAt(h, f, step)].doc = h.entries[Active(h, f)].doc] :
      f \in {c \in Children(h) : Ids(h, c) # <<>> /\ ActiveAt(h, c, step) # Active(h, c)}}

\* Tab::traverse to a step.  A cross-document main entry starts a load and
\* becomes current when it commits; goto refuses an entry that has no http,
\* https or data URL, and the children move all the same.
TraverseTo(h, step) ==
  LET main   == ActiveAt(h, MAIN, step)
      active == Active(h, MAIN)
      reload == main # active /\ h.entries[main].doc # h.entries[active].doc
      moves  == Moves(h, step)
  IN /\ reload => h.entries[main].web \/ "refusal" \in Env
     /\ reload \/ "before" \in Env \/ \A f \in Children(h) : h.entries[Ids(h, f)[1]].step <= step
     /\ hist' = [h EXCEPT !.pending = Restrict(@, DOMAIN @ \ {m.frame : m \in moves})]
     /\ nav' = IF reload /\ h.entries[main].web THEN main ELSE nav
     /\ job' = [calls |-> moves, then |-> IF reload THEN None ELSE step]

\* reload_frame.
ReloadFrame(h, f) ==
  LET a == Active(h, f)
  IN IF f = MAIN
     THEN /\ hist' = h
          /\ nav' = IF h.entries[a].web THEN a ELSE nav
          /\ job' = NoJob
     ELSE /\ hist' = DiscardPending(h, f)
          /\ job' = [calls |-> IF a = None THEN {}
                               ELSE {[cmd |-> "traverse", frame |-> f, index |-> h.entries[a].local, same |-> FALSE]},
                     then |-> None]
          /\ nav' = nav

\* The name is folded into the entry being left when the main frame speaks.
Traverse(f, delta) ==
  \E name \in MaybeName :
    LET h == IF f = MAIN THEN SyncName(hist, name) ELSE hist
        step == TargetStep(h, delta)
    IN CASE delta = 0   -> ReloadFrame(h, f)
         [] step = None /\ delta # 0 -> hist' = h /\ UNCHANGED <<nav, job>>
         [] OTHER       -> TraverseTo(h, step)

\* apply_history_update.  A refused update changes nothing and tells the
\* renderer nothing; a replacement only changes the entry's URL and state.
Update(f, push) ==
  LET a == Active(hist, f)
      h == IF push THEN UpdatePush(hist, f) ELSE hist
  IN IF a # None /\ hist.entries[a].web
     THEN hist' = h /\ job' = Sync(h)
     ELSE UNCHANGED <<hist, job>>

\* handle_renderer_event applied to the first event.
Handle(e) ==
  CASE e.t = "added"     -> hist' = AddFrame(hist, e.f) /\ job' = Sync(AddFrame(hist, e.f)) /\ nav' = nav
    [] e.t = "removed"   -> hist' = RemoveFrame(hist, e.f) /\ job' = Sync(RemoveFrame(hist, e.f)) /\ nav' = nav
    [] e.t = "started"   -> LET h == Begin(hist, e.f, e.replace, e.local, e.pending)
                            IN hist' = h /\ job' = (IF e.pending THEN NoJob ELSE Sync(h)) /\ nav' = nav
    [] e.t = "updated"   -> Update(e.f, e.push) /\ nav' = nav
    [] e.t = "traversal" -> Traverse(e.f, e.delta)
    [] e.t = "navigated" /\ e.f # MAIN -> hist' = CommitUrl(hist, e.f) /\ job' = Sync(CommitUrl(hist, e.f)) /\ nav' = nav
    [] e.t = "navigated" /\ e.f = MAIN ->
         \E outgoing, name \in MaybeName :
           LET h == CommitPush(SyncName(hist, outgoing), name) IN hist' = h /\ job' = Sync(h) /\ nav' = nav

HandleEvent ==
  /\ Idle
  /\ up # <<>>
  /\ Handle(Head(up))
  /\ up' = Tail(up)
  /\ UNCHANGED <<replay, nextFrame>>

\* The renderer answers one of the calls the actor awaits.  A frame it no
\* longer hosts answers with an error that changes nothing.
Answer(c) ==
  /\ c \in job.calls
  /\ job' = [job EXCEPT !.calls = @ \ {c}]
  /\ replay' = IF c.frame \notin DOMAIN replay THEN replay
               ELSE [replay EXCEPT ![c.frame] = IF c.cmd = "set" THEN StoreSet(@, c.len, c.index)
                                                ELSE StoreTraverse(@, c.index, c.same)]
  /\ UNCHANGED <<hist, up, nav, nextFrame>>

\* The end of traverse: the step becomes current and every frame learns of it.
FinishTraverse ==
  /\ job.calls = {}
  /\ job.then # None
  /\ hist' = [hist EXCEPT !.cur = job.then]
  /\ job' = Sync([hist EXCEPT !.cur = job.then])
  /\ UNCHANGED <<up, nav, replay, nextFrame>>

\* Page.navigateToHistoryEntry: a traversal to an identity.
TraverseToEntry(e) ==
  /\ Idle
  /\ Settled \/ "eager" \in Env
  /\ e \in DOMAIN hist.entries
  /\ \E name \in MaybeName : TraverseTo(SyncName(hist, name), hist.entries[e].step)
  /\ UNCHANGED <<up, replay, nextFrame>>

\* goto of a client: it supersedes the load under way.
Goto ==
  /\ Idle
  /\ nav < 0 \/ "refusal" \in Env
  /\ nav' = Fresh
  /\ UNCHANGED <<hist, up, job, replay, nextFrame>>

DropRenderer ==
  /\ up' = <<>>
  /\ replay' = <<>>
  /\ nextFrame' = 1

\* Mutant: the outgoing name is written after the traversal became current.
CommittedLateName(outgoing, name) ==
  SyncName(IF nav = Fresh THEN CommitPush(hist, name)
           ELSE IF nav \in DOMAIN hist.entries THEN CommitTraverse(hist, nav) ELSE hist, outgoing)

\* The commit works on a clone of the history and installs it after the mount.
\* A mount in another renderer drops the children of the history it replaces,
\* not of the clone.
Committed(outgoing, name) ==
  LET h == SyncName(hist, outgoing)
  IN IF nav = Fresh THEN CommitPush(h, name)
     ELSE IF nav \in DOMAIN hist.entries THEN CommitTraverse(h, nav) ELSE h

NavCommit ==
  /\ Idle
  /\ nav # None
  /\ hist.nextEntry + Len(up) < MaxEntry /\ hist.nextDoc + Len(up) < MaxDoc
  /\ \E outgoing, name \in MaybeName : hist' = Committed(outgoing, name)
  /\ nav' = None
  /\ IF nav # Fresh /\ nav \notin DOMAIN hist.entries
     THEN UNCHANGED <<up, replay, nextFrame>>
     ELSE \/ /\ replay' = <<>>
             /\ up' = up \o Removals
             /\ UNCHANGED nextFrame
          \/ "crossSite" \in Env /\ DropRenderer
  /\ UNCHANGED job

\* The mount fails: the renderer is dropped and the clone forgotten.
MountFails ==
  /\ Idle
  /\ nav # None
  /\ \E outgoing \in MaybeName : hist' = ClearChildren(SyncName(hist, outgoing))
  /\ nav' = None
  /\ DropRenderer
  /\ UNCHANGED job

\* The dial of the navigation fails.
NavFails ==
  /\ Idle
  /\ nav # None
  /\ nav = Fresh \/ "refusal" \in Env
  /\ nav' = None
  /\ UNCHANGED <<hist, up, job, replay, nextFrame>>

\* The renderer dies, while idle or under a call.  A traversal still makes its
\* step current.
RendererDies ==
  /\ hist' = [ClearChildren(hist) EXCEPT !.cur = IF job.then = None THEN @ ELSE job.then]
  /\ job' = NoJob
  /\ DropRenderer
  /\ UNCHANGED nav

Page ==
  \/ PageAddFrame
  \/ PageUpdateMain
  \/ PageNavigateMain
  \/ \E f \in DOMAIN replay :
       \/ PageNavigate(f)
       \/ PageCommit(f)
       \/ PageUpdate(f)
       \/ PageRemoveFrame(f)
  \/ \E f \in DOMAIN replay \cup {MAIN} : PageTraverse(f)

Next ==
  \/ Page
  \/ HandleEvent
  \/ \E c \in job.calls : Answer(c)
  \/ FinishTraverse
  \/ \E e \in 0..MaxEntry : TraverseToEntry(e)
  \/ Goto
  \/ NavCommit
  \/ MountFails
  \/ NavFails
  \/ RendererDies

Spec == Init /\ [][Next]_vars

-----------------------------------------------------------------------------
(* Properties.                                                               *)

Calls == [cmd : {"set"}, frame : 1..MaxFrame, len : 0..MaxEntry, index : 0..MaxEntry]
           \cup [cmd : {"traverse"}, frame : 1..MaxFrame, index : 0..MaxEntry, same : BOOLEAN]

\* Every variable has the type the code gives it; a staged navigation and every
\* position stay in range (history.rs, engine.rs:49).
TypeOK ==
  /\ hist.cur \in 0..MaxEntry
  /\ DOMAIN hist.entries \subseteq 0..hist.nextEntry - 1
  /\ \A e \in DOMAIN hist.entries :
       hist.entries[e] \in [step : 0..MaxEntry, local : 0..MaxEntry, doc : 0..hist.nextDoc - 1, web : BOOLEAN]
  /\ {MAIN} \subseteq DOMAIN hist.frames /\ DOMAIN hist.frames \subseteq 0..MaxFrame
  /\ DOMAIN hist.pending \subseteq Children(hist)
  /\ job.calls \subseteq Calls /\ job.then \in -1..MaxEntry
  /\ nav \in -2..MaxEntry
  /\ \A f \in DOMAIN replay :
       /\ f \in 1..nextFrame - 1
       /\ replay[f] \in [len : 0..MaxEntry, index : 0..MaxEntry, stage : -2..MaxEntry, fresh : BOOLEAN]

\* Whatever the page and the loads do, the frames' lists are a partition of the
\* entries: no list names an entry that is gone, none is in two lists or twice
\* in one, and no entry is in none (history.rs:708, 771).
ListsPartition ==
  /\ UNION {Range(hist.frames[f]) : f \in DOMAIN hist.frames} = DOMAIN hist.entries
  /\ \A f \in DOMAIN hist.frames : IsInjective(hist.frames[f])
  /\ \A f, g \in DOMAIN hist.frames : f # g => Range(hist.frames[f]) \cap Range(hist.frames[g]) = {}

Ascending(ids) == \A i, j \in 1..Len(ids) : i < j => hist.entries[ids[i]].step < hist.entries[ids[j]].step

\* The main frame's list is never empty, is in step order, and each entry knows
\* its position in it, which is what snapshot reports as the current index to
\* protocol clients (history.rs:309).
MainInOrder ==
  LET ids == Ids(hist, MAIN)
  IN ids # <<>> /\ Ascending(ids) /\ \A i \in 1..Len(ids) : hist.entries[ids[i]].local = i - 1

\* No name outlives the last entry that presents its document, through pushes,
\* replacements, traversals and frame removals (history.rs:169).
NamesLive == DOMAIN hist.names \subseteq Docs(hist)

\* What holds of the joint history in every circumstance, crashes, failed mounts
\* and stale events included.
HistorySafe ==
    TypeOK /\ ListsPartition /\ MainInOrder /\ NamesLive

NameOf(h, e) == IF h.entries[e].doc \in DOMAIN h.names THEN h.names[h.entries[e].doc] ELSE NoName

\* A step changes the stored name of an entry only when that entry shares the
\* document state the main frame was presenting: no load, traversal or frame
\* removal rewrites the name another entry will be restored with (history.rs:481).
NameStable ==
  [][\A e \in DOMAIN hist.entries \cap DOMAIN hist'.entries :
       NameOf(hist, e) # NameOf(hist', e) => hist.entries[e].doc = hist.entries[Active(hist, MAIN)].doc]_vars

\* With a page that waits for its mirror, every frame's list stays in step order
\* and each entry's local position is its place in the list, so a traversal
\* names the payload the renderer filed under it (history.rs:641).
ListsInOrder ==
  \A f \in DOMAIN hist.frames :
    Ascending(hist.frames[f]) /\ \A i \in 1..Len(hist.frames[f]) : hist.entries[hist.frames[f][i]].local = i - 1

\* When nothing is under way the replay store of every hosted frame holds as
\* many payloads as the joint list has entries for it (one at least), and both
\* are at the same position, so the next traversal installs the right payload
\* (history.rs:641, engine.rs:912).
ReplayAligned ==
  Settled => \A f \in DOMAIN replay :
    /\ Ids(hist, f) # <<>>
    /\ replay[f].len = Len(Ids(hist, f))
    /\ replay[f].index = Position(hist, f, Active(hist, f))

\* When nothing is under way the joint list covers exactly the frames the
\* renderer hosts.
FramesMatch == Settled => Children(hist) = DOMAIN replay

\* What holds when pages wait for their mirror: the joint lists, the replay
\* stores and the hosted frames describe the same history.
HistoryAligned ==
    ListsInOrder /\ ReplayAligned /\ FramesMatch
=============================================================================
