--------------------------- MODULE TabCoordinator ---------------------------
(* The coordinator of one tab (browser/actor.rs): navigations with their    *)
(* epochs and dials, the commit of a response into a renderer, the load     *)
(* state, and the callers that wait for it or for a script condition. The   *)
(* coordinator handles one wake-up at a time and awaits the renderer in the *)
(* middle of it; dials, renderer, clock and callers move meanwhile. The     *)
(* session history is in JointHistory, the names in TabRegistry.            *)
EXTENDS Naturals, Sequences, FiniteSets

CONSTANTS
    Urls,       \* addresses a navigation may ask for or end at
    DataUrls,   \* those of them with the scheme data, committed without a dial
    Blank,      \* about:blank
    Calls,      \* callers of run_until_load_timeout and run_until_js_true
    MaxEpoch,   \* bound on the navigations asked for in one behaviour
    MaxEvents,  \* bound on the renderer events under way
    MaxMounts   \* bound on the renderers and self-navigations of one behaviour

ASSUME CoordinatorAssumption ==
    /\ DataUrls \subseteq Urls
    /\ Blank \notin Urls
    /\ {MaxEpoch, MaxEvents, MaxMounts} \subseteq Nat

Shown == Urls \cup {Blank}

VARIABLES
    at,        \* what the coordinator is doing
    nav,       \* the active navigation: epoch 0 for none
    epoch,     \* nav_epoch
    gotos,     \* navigations asked for so far; each carries its number (history)
    goal,      \* the navigation being committed, or the address expected of a load
    docDials,     \* dial tasks that may still complete, the cancelled ones too
    results,   \* dial_rx
    url,       \* document_url
    loaded,    \* document_loaded
    failed,    \* navigation_failed
    renderer,  \* "none", "up", or "dead" (the process is gone, the tab has not noticed)
    shownDoc,       \* the document in the renderer: its address, whether it is complete
    tabEvents,    \* events_rx
    mounts,    \* documents the renderers have shown so far
    call,      \* what each caller sees
    waiting,   \* the retained waiters: caller, what it waits for, whether its deadline has passed
    known,     \* JS waiters the renderer knows
    missed     \* a load event was filtered out (history)

navVars == <<nav, epoch, gotos, docDials, results>>
tabRendererVars == <<renderer, shownDoc, tabEvents, mounts, known>>
coordVars == <<at, goal, navVars, url, loaded, failed, tabRendererVars, call, waiting, missed>>

NoNav == [epoch |-> 0, no |-> 0, url |-> Blank]
NoGoal == NoNav

CoordInit ==
    /\ at = "select"
    /\ nav = NoNav
    /\ epoch = 0
    /\ gotos = 0
    /\ goal = NoGoal
    /\ docDials = {}
    /\ results = <<>>
    /\ url = Blank
    /\ loaded = FALSE
    /\ failed = FALSE
    /\ renderer = "none"
    /\ shownDoc = [url |-> Blank, ready |-> FALSE]
    /\ tabEvents = <<>>
    /\ mounts = 0
    /\ call = [c \in Calls |-> "idle"]
    /\ waiting = {}
    /\ known = {}
    /\ missed = FALSE

JsWaiters == {w \in waiting : w.kind = "js"}
Of(ws) == {w.call : w \in ws}

WaitingForLoad == nav # NoNav \/ (~loaded /\ ~failed)

-----------------------------------------------------------------------------
(* Renderers.                                                               *)

\* drop_renderer: the event channel goes with it.
DropTabRenderer == renderer' = "none" /\ tabEvents' = <<>> /\ known' = {}

\* ensure_renderer and a mount that succeeds: the same renderer takes the
\* document, and the events it has sent before stay in the channel, or a new
\* one does.
Mount(u) ==
    /\ mounts < MaxMounts
    /\ mounts' = mounts + 1
    /\ renderer' = "up"
    /\ shownDoc' = [url |-> u, ready |-> FALSE]
    /\ \/ renderer = "up" /\ UNCHANGED <<tabEvents, known>>
       \/ tabEvents' = <<>> /\ known' = {}

\* A mount that fails: no process can be had, or the mount itself failed.
MountFails ==
    /\ \/ UNCHANGED <<renderer, tabEvents, known>>
       \/ DropTabRenderer

\* A request to the renderer, which leaves it with the JS waiters k; a tab
\* without a renderer mounts a blank document first. On failure, a timeout
\* included, the renderer is dropped; the waiters stay.
RequestOk(k) ==
    /\ known' = k
    /\ \/ renderer = "up" /\ UNCHANGED <<renderer, shownDoc, tabEvents, mounts, loaded>>
       \/ /\ renderer = "none"
          /\ mounts < MaxMounts
          /\ mounts' = mounts + 1
          /\ renderer' = "up"
          /\ shownDoc' = [url |-> Blank, ready |-> FALSE]
          /\ loaded' = FALSE
          /\ UNCHANGED tabEvents
RequestFails ==
    /\ renderer # "none" => DropTabRenderer
    /\ renderer = "none" => MountFails
    /\ UNCHANGED <<shownDoc, mounts, loaded>>
Request(k) == RequestOk(k) \/ RequestFails

-----------------------------------------------------------------------------
(* Navigations.                                                             *)
\* Mutant: a navigation takes over the epoch of the one it replaces.
NextEpochReused == IF nav = NoNav THEN epoch + 1 ELSE nav.epoch

NextEpoch == epoch + 1

\* The Goto command, also behind reload and traversal. A dial is launched at
\* the top of the loop: the one under way is told to stop, which is no
\* barrier. A data: navigation waits there to be taken.
Goto(u) ==
    /\ at = "select"
    /\ gotos < MaxEpoch
    /\ gotos' = gotos + 1
    /\ epoch' = NextEpoch
    /\ failed' = FALSE
    /\ nav' = [epoch |-> epoch', no |-> gotos', url |-> u]
    /\ docDials' = IF u \in DataUrls THEN docDials ELSE docDials \cup {nav'}
    /\ at' = "resolve"
    /\ UNCHANGED <<goal, results, url, loaded, tabRendererVars, call, waiting, missed>>

\* A dial ends with a response, whose address may be another one, with a
\* failure, or silently because it was aborted.
DialDone(d, outcome) ==
    /\ d \in docDials
    /\ docDials' = docDials \ {d}
    /\ results' = Append(results, [d EXCEPT !.url = outcome])
    /\ UNCHANGED <<at, nav, epoch, gotos, goal, url, loaded, failed, tabRendererVars, call, waiting, missed>>

DialAborted(d) ==
    /\ d \in docDials
    /\ d # nav
    /\ docDials' = docDials \ {d}
    /\ UNCHANGED <<at, nav, epoch, gotos, goal, results, url, loaded, failed, tabRendererVars, call, waiting, missed>>

Active(r) == nav # NoNav /\ r.epoch = nav.epoch

\* handle_navigation up to the commit.
HandleNavigation ==
    /\ at = "select"
    /\ results # <<>>
    /\ results' = Tail(results)
    /\ LET r == Head(results) IN
       IF ~Active(r)
       THEN at' = "resolve" /\ UNCHANGED <<nav, loaded, failed, goal>>
       ELSE /\ nav' = NoNav
            /\ loaded' = FALSE
            /\ IF r.url = Blank
               THEN failed' = TRUE /\ at' = "resolve" /\ UNCHANGED goal
               ELSE goal' = r /\ at' = "commit" /\ UNCHANGED failed
    /\ UNCHANGED <<epoch, gotos, docDials, url, tabRendererVars, call, waiting, missed>>

\* The document is in the renderer; its scripts run before the commit is over.
CommitMounts ==
    /\ at \in {"commit", "commitData"}
    /\ Mount(goal.url)
    /\ loaded' = FALSE
    /\ at' = IF at = "commit" THEN "mounted" ELSE "mountedData"
    /\ UNCHANGED <<navVars, goal, url, failed, call, waiting, missed>>

\* The title is asked for in the end, which may cost the renderer. After a
\* data: navigation the loop goes on without resolve_waiters.
Over == at' = IF at \in {"commitData", "mountedData"} THEN "select" ELSE "resolve"

CommitDone ==
    /\ at \in {"mounted", "mountedData"}
    /\ url' = goal.url
    /\ failed' = (failed /\ at = "mounted")
    /\ goal' = NoGoal
    /\ Over
    /\ \/ renderer = "up" /\ UNCHANGED tabRendererVars
       \/ DropTabRenderer /\ UNCHANGED <<shownDoc, mounts>>
    /\ UNCHANGED <<navVars, loaded, call, waiting, missed>>

\* Decoding, history, the mount or the end of the body failed.
CommitFails ==
    /\ at \in {"commit", "commitData", "mounted", "mountedData"}
    /\ failed' = TRUE
    /\ goal' = NoGoal
    /\ Over
    /\ IF at \in {"commit", "commitData"} THEN MountFails ELSE DropTabRenderer
    /\ UNCHANGED <<shownDoc, mounts, navVars, url, loaded, call, waiting, missed>>

\* load_html: deferred while the tab has no renderer and shows a blank page.
MountHtml ==
    /\ at = "select"
    /\ IF renderer = "none" /\ url = Blank
       THEN loaded' = TRUE /\ UNCHANGED tabRendererVars
       ELSE \/ Mount(url) /\ loaded' = FALSE
            \/ MountFails /\ UNCHANGED <<loaded, shownDoc, mounts>>
    /\ at' = "resolve"
    /\ UNCHANGED <<navVars, goal, url, failed, call, waiting, missed>>

-----------------------------------------------------------------------------
(* Renderer events.                                                         *)
Event(k) ==
    /\ at = "select"
    /\ tabEvents # <<>>
    /\ Head(tabEvents).kind = k

LoadTrue(expected) == shownDoc.ready /\ shownDoc.url = expected

\* Load: only the document the tab is on its way to, or at, may count. The
\* renderer is asked in the middle.
LoadEvent ==
    /\ Event("load")
    /\ tabEvents' = Tail(tabEvents)
    /\ goal' = [NoGoal EXCEPT !.url = IF nav # NoNav THEN nav.url ELSE url]
    /\ at' = "asked"
    /\ UNCHANGED <<navVars, url, loaded, failed, renderer, shownDoc, mounts, known, call, waiting, missed>>

LoadAnswer ==
    /\ at = "asked"
    /\ \/ /\ renderer = "up"
          /\ loaded' = (loaded \/ LoadTrue(goal.url))
          /\ missed' = (missed \/ ~LoadTrue(goal.url))
          /\ UNCHANGED tabRendererVars
       \/ \* the script ran into its timeout, or the renderer is gone
          /\ UNCHANGED loaded
          /\ missed' = TRUE
          /\ \/ UNCHANGED tabRendererVars
             \/ DropTabRenderer /\ UNCHANGED <<shownDoc, mounts>>
    /\ goal' = NoGoal
    /\ at' = "resolve"
    /\ UNCHANGED <<navVars, url, failed, call, waiting>>

\* resolve_frame_waiters: the realm is gone, so its waiters are cancelled and
\* answered; the request that cancels them may cost the renderer.
AnswerFrameWaiters ==
    LET js == Of(JsWaiters) IN
    /\ waiting' = waiting \ JsWaiters
    /\ call' = [c \in Calls |-> IF c \in js THEN "false" ELSE call[c]]
    /\ \/ /\ renderer = "up" \/ js = {}
          /\ tabEvents' = Tail(tabEvents)
          /\ known' = known \ js
          /\ UNCHANGED renderer
       \/ js # {} /\ DropTabRenderer

\* Navigated: the renderer has replaced its document.
Navigated ==
    /\ Event("navigated")
    /\ url' = Head(tabEvents).url
    /\ loaded' = FALSE
    /\ failed' = FALSE
    /\ AnswerFrameWaiters
    /\ at' = "resolve"
    /\ UNCHANGED <<navVars, goal, shownDoc, mounts, missed>>

\* pushState and replaceState: the same document at another address.
HistoryUpdated ==
    /\ Event("update")
    /\ tabEvents' = Tail(tabEvents)
    /\ url' = Head(tabEvents).url
    /\ at' = "resolve"
    /\ UNCHANGED <<navVars, goal, loaded, failed, renderer, shownDoc, mounts, known, call, waiting, missed>>

WaiterSettled ==
    /\ Event("settled")
    /\ tabEvents' = Tail(tabEvents)
    /\ LET c == Head(tabEvents).by IN
       IF c \in Of(waiting)
       THEN waiting' = {w \in waiting : w.call # c} /\ call' = [call EXCEPT ![c] = "true"]
       ELSE UNCHANGED <<waiting, call>>
    /\ at' = "resolve"
    /\ UNCHANGED <<navVars, goal, url, loaded, failed, renderer, shownDoc, mounts, known, missed>>

\* The end of the channel: the renderer is dropped and every waiter fails.
\* Cancelling the JS waiters of the dead renderer mounts a blank document.
RendererGone ==
    /\ at = "select"
    /\ renderer = "dead"
    /\ tabEvents = <<>>
    /\ call' = [c \in Calls |-> IF c \in Of(waiting) THEN "error" ELSE call[c]]
    /\ waiting' = {}
    /\ known' = {}
    /\ \/ renderer' = "none" /\ UNCHANGED <<shownDoc, mounts, loaded>>
       \/ /\ JsWaiters # {}
          /\ mounts < MaxMounts
          /\ mounts' = mounts + 1
          /\ renderer' = "up"
          /\ shownDoc' = [url |-> Blank, ready |-> FALSE]
          /\ loaded' = FALSE
    /\ at' = "resolve"
    /\ UNCHANGED <<navVars, goal, url, failed, tabEvents, missed>>

-----------------------------------------------------------------------------
(* Callers that wait. retain_waiter refuses one when the list is full, which the    *)
(* waiters of other callers and frames may have brought about.               *)
Waiter(c, kind) == [call |-> c, kind |-> kind, late |-> FALSE]

WaitLoad(c) ==
    /\ at = "select"
    /\ call[c] = "idle"
    /\ \/ waiting' = waiting \cup {Waiter(c, "load")} /\ call' = [call EXCEPT ![c] = "kept"]
       \/ UNCHANGED waiting /\ call' = [call EXCEPT ![c] = "error"]
    /\ at' = "resolve"
    /\ UNCHANGED <<navVars, goal, url, loaded, failed, tabRendererVars, missed>>

\* serve_js_waiter: the renderer is told first, and told again when the
\* waiter is not kept.
WaitJs(c) ==
    /\ at = "select"
    /\ call[c] = "idle"
    /\ \/ RequestOk(known \cup {c}) /\ waiting' = waiting \cup {Waiter(c, "js")} /\ call' = [call EXCEPT ![c] = "kept"]
       \/ RequestOk(known) /\ UNCHANGED waiting /\ call' = [call EXCEPT ![c] = "error"]
       \/ RequestFails /\ UNCHANGED waiting /\ call' = [call EXCEPT ![c] = "error"]
    /\ at' = "resolve"
    /\ UNCHANGED <<navVars, goal, url, failed, missed>>

\* Another command, or a message of another window, that needs the renderer.
Execute ==
    /\ at = "select"
    /\ Request(known)
    /\ at' = "resolve"
    /\ UNCHANGED <<navVars, goal, url, failed, call, waiting, missed>>

DropCaller(c) ==
    /\ call[c] = "kept"
    /\ call' = [call EXCEPT ![c] = "gone"]
    /\ UNCHANGED <<at, goal, navVars, url, loaded, failed, tabRendererVars, waiting, missed>>

WaitDeadline(w) ==
    /\ ~w.late
    /\ waiting' = (waiting \ {w}) \cup {[w EXCEPT !.late = TRUE]}
    /\ UNCHANGED <<at, goal, navVars, url, loaded, failed, tabRendererVars, call, missed>>

\* resolve_waiters, after every wake-up.
Answer(w) ==
    IF call[w.call] = "gone" THEN "gone"
    ELSE IF w.kind = "load" /\ ~WaitingForLoad THEN "true"
    ELSE IF w.late THEN "false"
    ELSE "kept"

\* The JS waiters that go are cancelled in the renderer. Then the loop begins
\* again, where a data: navigation is taken.
Resolve ==
    /\ at = "resolve"
    /\ IF nav # NoNav /\ nav.url \in DataUrls
       THEN at' = "commitData" /\ goal' = nav /\ nav' = NoNav
       ELSE at' = "select" /\ UNCHANGED <<goal, nav>>
    /\ call' = [c \in Calls |-> IF c \in Of(waiting) THEN Answer(CHOOSE w \in waiting : w.call = c)
                                                     ELSE call[c]]
    /\ waiting' = {w \in waiting : Answer(w) = "kept"}
    /\ LET cancelled == Of({w \in JsWaiters : Answer(w) # "kept"}) IN
       IF cancelled = {} THEN UNCHANGED <<tabRendererVars, loaded>> ELSE Request(known \ cancelled)
    /\ UNCHANGED <<epoch, gotos, docDials, results, url, failed, missed>>

\* The deadline of a waiter, or its Cancel, wakes the loop.
WakeUp ==
    /\ at = "select"
    /\ \E w \in waiting : w.late \/ call[w.call] = "gone"
    /\ at' = "resolve"
    /\ UNCHANGED <<goal, navVars, url, loaded, failed, tabRendererVars, call, waiting, missed>>

\* Shutdown: the loop returns, and the waiters it drops read ActorStopped.
Shutdown ==
    /\ at = "select"
    /\ at' = "stopped"
    /\ DropTabRenderer
    /\ call' = [c \in Calls |-> IF c \in Of(waiting) /\ call[c] = "kept" THEN "error" ELSE call[c]]
    /\ waiting' = {}
    /\ UNCHANGED <<goal, navVars, url, loaded, failed, shownDoc, mounts, missed>>

-----------------------------------------------------------------------------
(* The renderer.                                                            *)
SendCommand(e) == Len(tabEvents) < MaxEvents /\ tabEvents' = Append(tabEvents, e)
E(k, u) == [kind |-> k, url |-> u, by |-> "none"]

Completes ==
    /\ renderer = "up"
    /\ ~shownDoc.ready
    /\ shownDoc' = [shownDoc EXCEPT !.ready = TRUE]
    /\ SendCommand(E("load", shownDoc.url))
    /\ UNCHANGED <<at, goal, navVars, url, loaded, failed, renderer, mounts, known, call, waiting, missed>>

NavigatesItself(u) ==
    /\ renderer = "up"
    /\ mounts < MaxMounts
    /\ mounts' = mounts + 1
    /\ shownDoc' = [url |-> u, ready |-> FALSE]
    /\ SendCommand(E("navigated", u))
    /\ UNCHANGED <<at, goal, navVars, url, loaded, failed, renderer, known, call, waiting, missed>>

PushState(u) ==
    /\ renderer = "up"
    /\ shownDoc.url # u
    /\ shownDoc' = [shownDoc EXCEPT !.url = u]
    /\ SendCommand(E("update", u))
    /\ UNCHANGED <<at, goal, navVars, url, loaded, failed, renderer, mounts, known, call, waiting, missed>>

Settles(c) ==
    /\ renderer = "up"
    /\ c \in known
    /\ known' = known \ {c}
    /\ SendCommand([E("settled", Blank) EXCEPT !.by = c])
    /\ UNCHANGED <<at, goal, navVars, url, loaded, failed, renderer, shownDoc, mounts, call, waiting, missed>>

Dies ==
    /\ renderer = "up"
    /\ renderer' = "dead"
    /\ UNCHANGED <<at, goal, navVars, url, loaded, failed, shownDoc, tabEvents, mounts, known, call, waiting, missed>>

\* Where a document goes by itself, the scheme makes no difference here.
RendererStep == Completes \/ (\E u \in Urls \ DataUrls : NavigatesItself(u) \/ PushState(u))
                \/ (\E c \in Calls : Settles(c)) \/ Dies

\* What the coordinator does once it has something to do.
Wakes == HandleNavigation \/ LoadEvent \/ Navigated \/ HistoryUpdated \/ WaiterSettled
         \/ RendererGone \/ WakeUp
Continues == LoadAnswer \/ CommitMounts \/ CommitDone \/ CommitFails \/ Resolve
Commands == (\E u \in Urls : Goto(u)) \/ (\E c \in Calls : WaitLoad(c) \/ WaitJs(c))
            \/ Execute \/ MountHtml \/ Shutdown
Callers == (\E c \in Calls : DropCaller(c)) \/ (\E w \in waiting : WaitDeadline(w))
Network == \E d \in docDials : DialAborted(d) \/ \E o \in (Urls \ DataUrls) \cup {Blank} : DialDone(d, o)

CoordNext == Wakes \/ Continues \/ Commands \/ Callers \/ Network \/ RendererStep

CoordSpec == CoordInit /\ [][CoordNext]_coordVars

\* The loop goes on while it has work (tokio polls every ready branch), and
\* deadlines pass. Nothing is asked of dials and renderers.
CoordFairness ==
    /\ WF_coordVars(Continues)
    /\ SF_coordVars(WakeUp)
    /\ \A c \in Calls : WF_coordVars(\E w \in waiting : w.call = c /\ WaitDeadline(w))
CoordFairSpec == CoordSpec /\ CoordFairness

-----------------------------------------------------------------------------
Kinds == {"load", "navigated", "update", "settled"}
Stages == {"select", "resolve", "commit", "commitData", "mounted", "mountedData", "asked", "stopped"}

CoordTypeOK ==
    /\ at \in Stages
    /\ nav.epoch \in 0..MaxEpoch /\ nav.url \in Shown
    /\ gotos \in 0..MaxEpoch
    /\ epoch \in 0..gotos
    /\ goal.url \in Shown
    /\ url \in Shown
    /\ loaded \in BOOLEAN /\ failed \in BOOLEAN /\ missed \in BOOLEAN
    /\ renderer \in {"none", "up", "dead"}
    /\ \A i \in 1..Len(tabEvents) : tabEvents[i].kind \in Kinds
    /\ waiting \subseteq [call : Calls, kind : {"load", "js"}, late : BOOLEAN]
    /\ \A c \in Calls : call[c] = "kept" => c \in Of(waiting)
    /\ renderer = "none" => tabEvents = <<>> /\ known = {}

(* Only the navigation asked for last commits: the completion of a dial that *)
(* was overtaken, also one that was cancelled and completes after its        *)
(* successor, never does (actor.rs:938).                                     *)
NewestCommits == at \in {"commit", "commitData", "mounted", "mountedData"} => goal.no = gotos

Unseen(k) == \E i \in 1..Len(tabEvents) : tabEvents[i].kind = k
Quiet == at = "select" /\ nav = NoNav /\ renderer = "up" /\ ~Unseen("navigated")

(* A tab that says it is loaded shows a complete document: the load event of *)
(* a document that was replaced meanwhile does not count.                    *)
LoadedIsTrue == Quiet /\ loaded => shownDoc.ready

(* A caller that waits for the load does not wait for nothing: once a        *)
(* complete document's events are handled, and its load event was not        *)
(* filtered out, the tab no longer waits for a load (actor.rs:1505).         *)
LoadNotLost == Quiet /\ shownDoc.ready /\ ~Unseen("load") /\ ~missed => ~WaitingForLoad

\* A tab commits the newest navigation only, and what it says of the load is
\* true of the document it shows.
CoordinatorSafe ==
    CoordTypeOK /\ NewestCommits /\ LoadedIsTrue /\ LoadNotLost

(* Every caller that waits is answered: by the load, by the renderer, by its *)
(* deadline, or because the tab or its renderer is gone.                     *)
WaitEnds == \A c \in Calls : call[c] = "kept" ~> call[c] # "kept"
=============================================================================
