-------------------------- MODULE NavigationProofs ---------------------------
(***************************************************************************)
(* The safety properties of TabCoordinator, for every set of addresses and  *)
(* callers and every bound on navigations, events and mounts, and of        *)
(* ResponseStreams, for every set of tabs, every number of uploads and      *)
(* every capacity, body limit and limit of the tombstones.                  *)
(*                                                                         *)
(* Commits: a dial carries the epoch of its navigation and nothing else has *)
(* that epoch, so the result that matches the active navigation is the      *)
(* result of the newest one. Loads: a document that is replaced from inside *)
(* announces itself before it can be complete, so behind every Navigated    *)
(* event of a complete document there is its Load event; whoever clears     *)
(* `loaded' either has that event ahead or puts an incomplete document in.  *)
(*                                                                         *)
(* Bodies: the frames of a tab stay in the order of its uploads, those of   *)
(* an upload in the order they were sent, and only a cancel overtakes. So   *)
(* the child always meets the next chunk of a stream, and the end behind    *)
(* all of them; and a cancel is there before the next upload of its tab is, *)
(* so it can only end the document of its own upload.                       *)
(***************************************************************************)
EXTENDS TabCoordinator, ResponseStreams, SequenceTheorems, FiniteSetTheorems, TLAPS

(***************************************************************************)
(* The coordinator.                                                         *)
(***************************************************************************)

NavRecord == [epoch : Nat, no : Nat, url : Shown]
DocRecord == [url : Shown, ready : BOOLEAN]
EventRecord == [kind : Kinds, url : Shown, by : Calls \cup {"none"}]
WaiterRecord == [call : Calls, kind : {"load", "js"}, late : BOOLEAN]

(* The types of the variables, the records of dials and events included:    *)
(* the navigation, the document with its events, and the callers.           *)
NavShape ==
    /\ at \in Stages
    /\ nav \in NavRecord
    /\ epoch \in Nat
    /\ gotos \in 0..MaxEpoch
    /\ goal \in NavRecord
    /\ docDials \subseteq NavRecord
    /\ results \in Seq(NavRecord)
    /\ url \in Shown
    /\ failed \in BOOLEAN

DocShape ==
    /\ loaded \in BOOLEAN
    /\ missed \in BOOLEAN
    /\ renderer \in {"none", "up", "dead"}
    /\ shownDoc \in DocRecord
    /\ tabEvents \in Seq(EventRecord)

CallShape ==
    /\ call \in [Calls -> {"idle", "kept", "gone", "true", "false", "error"}]
    /\ waiting \subseteq WaiterRecord

CoordShape == NavShape /\ DocShape /\ CallShape

(* Epochs number the navigations: the active one has the newest, a dial or  *)
(* its result has the epoch of the navigation it was launched for.          *)
EpochInv ==
    /\ epoch = gotos
    /\ nav # NoNav => nav.epoch = gotos /\ nav.no = gotos
    /\ \A d \in docDials : d.epoch = d.no
    /\ \A i \in 1..Len(results) : results[i].epoch = results[i].no
    /\ NewestCommits

(* A caller that is kept has a waiter; no renderer, no events. *)
WaiterInv ==
    /\ \A c \in Calls : call[c] = "kept" => c \in Of(waiting)
    /\ renderer = "none" => tabEvents = <<>> /\ known = {}

(* A complete document has sent its Load behind every Navigated event. *)
OrderInv ==
    shownDoc.ready =>
        \A i \in 1..Len(tabEvents) : tabEvents[i].kind = "navigated" =>
            \E j \in 1..Len(tabEvents) : i < j /\ tabEvents[j].kind = "load"

(* The tab says loaded of a complete document only, unless it has yet to    *)
(* hear that the document was replaced.                                     *)
LoadedInv ==
    loaded /\ renderer = "up" /\ ~ Unseen("navigated") => shownDoc.ready

(* A document that completes under a commit still has its Load ahead, and   *)
(* so has any other that the tab has not heard of.                          *)
AheadInv ==
    /\ at \in {"mounted", "mountedData"} /\ renderer = "up" /\ shownDoc.ready => Unseen("load")
    /\ /\ at \in {"select", "resolve"} /\ nav = NoNav /\ renderer = "up"
       /\ shownDoc.ready /\ ~ Unseen("load") /\ ~ Unseen("navigated") /\ ~ missed
       => loaded \/ failed

CoordInv ==
    CoordShape /\ EpochInv /\ WaiterInv /\ OrderInv /\ LoadedInv /\ AheadInv

-----------------------------------------------------------------------------
(* The queue of events, as one is taken and as one is sent. *)
LEMMA EventTaken ==
  ASSUME tabEvents \in Seq(EventRecord), tabEvents # <<>>, tabEvents' = Tail(tabEvents)
  PROVE  /\ Head(tabEvents) \in EventRecord
         /\ tabEvents' \in Seq(EventRecord)
         /\ \A k : Unseen(k)' => Unseen(k)
         /\ \A k : Unseen(k) /\ Head(tabEvents).kind # k => Unseen(k)'
<1>1. Len(tabEvents) \in Nat /\ Len(tabEvents) >= 1 /\ Len(tabEvents') = Len(tabEvents) - 1
    OBVIOUS
<1>2. \A i \in 1..Len(tabEvents') : tabEvents'[i] = tabEvents[i + 1]
    BY <1>1
<1>3. ASSUME NEW k, Unseen(k)' PROVE Unseen(k)
  <2>1. PICK i \in 1..Len(tabEvents') : tabEvents'[i].kind = k
      BY <1>3 DEF Unseen
  <2>2. i + 1 \in 1..Len(tabEvents) /\ tabEvents[i + 1].kind = k
      BY <1>1, <1>2, <2>1
  <2> QED BY <2>2 DEF Unseen
<1>4. ASSUME NEW k, Unseen(k), Head(tabEvents).kind # k PROVE Unseen(k)'
  <2>1. PICK i \in 1..Len(tabEvents) : tabEvents[i].kind = k
      BY <1>4 DEF Unseen
  <2>2. i # 1
      BY <1>1, <1>4, <2>1
  <2>3. i - 1 \in 1..Len(tabEvents') /\ tabEvents'[i - 1].kind = k
      BY <1>1, <1>2, <2>1, <2>2
  <2> QED BY <2>3 DEF Unseen
<1> QED BY <1>3, <1>4

LEMMA EventSent ==
  ASSUME tabEvents \in Seq(EventRecord), NEW e \in EventRecord, tabEvents' = Append(tabEvents, e)
  PROVE  /\ tabEvents' \in Seq(EventRecord)
         /\ \A k : Unseen(k)' <=> Unseen(k) \/ e.kind = k
<1>1. /\ Len(tabEvents) \in Nat /\ Len(tabEvents') = Len(tabEvents) + 1
      /\ tabEvents'[Len(tabEvents) + 1] = e
      /\ \A i \in 1..Len(tabEvents) : tabEvents'[i] = tabEvents[i]
    OBVIOUS
<1>2. ASSUME NEW k PROVE Unseen(k)' <=> Unseen(k) \/ e.kind = k
    BY <1>1 DEF Unseen
<1> QED BY <1>2

LEMMA OrderTaken ==
  ASSUME tabEvents \in Seq(EventRecord), tabEvents # <<>>, tabEvents' = Tail(tabEvents),
         OrderInv, shownDoc'.ready => shownDoc.ready
  PROVE  /\ OrderInv'
         /\ Head(tabEvents).kind = "navigated" /\ shownDoc.ready => Unseen("load")'
<1>1. /\ Len(tabEvents) \in Nat /\ Len(tabEvents) >= 1 /\ Len(tabEvents') = Len(tabEvents) - 1
      /\ Head(tabEvents) = tabEvents[1]
    OBVIOUS
<1>2. \A i \in 1..Len(tabEvents') : tabEvents'[i] = tabEvents[i + 1]
    BY <1>1
<1>3. \A i \in 2..Len(tabEvents) : i - 1 \in 1..Len(tabEvents') /\ tabEvents'[i - 1] = tabEvents[i]
    BY <1>1, <1>2
<1>4. ASSUME shownDoc'.ready, NEW i \in 1..Len(tabEvents'), tabEvents'[i].kind = "navigated"
      PROVE  \E j \in 1..Len(tabEvents') : i < j /\ tabEvents'[j].kind = "load"
  <2>1. i + 1 \in 1..Len(tabEvents) /\ tabEvents[i + 1].kind = "navigated"
      BY <1>1, <1>2, <1>4
  <2>2. PICK j \in 1..Len(tabEvents) : i + 1 < j /\ tabEvents[j].kind = "load"
      BY <1>4, <2>1 DEF OrderInv
  <2>3. j \in 2..Len(tabEvents) /\ i < j - 1
      BY <1>1, <1>4, <2>2
  <2> QED BY <1>3, <2>2, <2>3
<1>5. ASSUME Head(tabEvents).kind = "navigated", shownDoc.ready PROVE Unseen("load")'
  <2>1. 1 \in 1..Len(tabEvents)
      BY <1>1
  <2>2. PICK j \in 1..Len(tabEvents) : 1 < j /\ tabEvents[j].kind = "load"
      BY <1>1, <1>5, <2>1 DEF OrderInv
  <2>3. j \in 2..Len(tabEvents)
      BY <1>1, <2>2
  <2> QED BY <1>3, <2>2, <2>3 DEF Unseen
<1> QED BY <1>4, <1>5 DEF OrderInv

LEMMA NothingUnseen ==
  ASSUME tabEvents = <<>>, NEW k
  PROVE  ~ Unseen(k)
BY DEF Unseen

LEMMA SentRecords ==
  /\ \A u \in Shown, k \in Kinds : E(k, u) \in EventRecord /\ E(k, u).kind = k
  /\ \A c \in Calls : [E("settled", Blank) EXCEPT !.by = c] \in EventRecord
  /\ \A c \in Calls : [E("settled", Blank) EXCEPT !.by = c].kind = "settled"
BY DEF E, EventRecord, Kinds, Shown

(* The records the steps build. *)
LEMMA NavTyped ==
  /\ NoNav \in NavRecord
  /\ \A e, n \in Nat, u \in Shown : [epoch |-> e, no |-> n, url |-> u] \in NavRecord
  /\ \A d \in NavRecord, u \in Shown : [d EXCEPT !.url = u] \in NavRecord
  /\ \A d \in NavRecord : d.url \in Shown
  /\ Urls \subseteq Shown /\ Blank \in Shown
BY DEF NavRecord, NoNav, Shown

LEMMA DocTyped ==
  /\ \A u \in Shown : [url |-> u, ready |-> FALSE] \in DocRecord
  /\ \A d \in DocRecord : [d EXCEPT !.ready = TRUE] \in DocRecord /\ d.ready \in BOOLEAN /\ d.url \in Shown
  /\ \A d \in DocRecord, u \in Shown : [d EXCEPT !.url = u] \in DocRecord
  /\ <<>> \in Seq(EventRecord)
<1>1. <<>> \in Seq(EventRecord)
    OBVIOUS
<1> QED BY <1>1 DEF DocRecord

LEMMA EventTyped ==
  \A e \in EventRecord : e.kind \in Kinds /\ e.url \in Shown
BY DEF EventRecord

LEMMA WaiterTyped ==
  /\ \A c \in Calls, k \in {"load", "js"} : Waiter(c, k) \in WaiterRecord /\ Waiter(c, k).call = c
  /\ \A w \in WaiterRecord : /\ [w EXCEPT !.late = TRUE] \in WaiterRecord
                             /\ [w EXCEPT !.late = TRUE].call = w.call
                             /\ w.call \in Calls
BY DEF Waiter, WaiterRecord

(* Every step keeps the types of the navigation, ... *)
LEMMA NavShapeStep ==
  ASSUME CoordInv, [CoordNext]_coordVars
  PROVE  NavShape'
<1>1. ASSUME NEW u \in Urls, Goto(u) PROVE NavShape'
  <2>1. epoch' \in Nat /\ gotos' \in 0..MaxEpoch /\ gotos' \in Nat
      BY <1>1, CoordinatorAssumption
         DEF CoordinatorAssumption, CoordInv, CoordShape, NavShape, Goto, NextEpoch
  <2>2. nav' \in NavRecord
      BY <1>1, <2>1, NavTyped DEF Goto
  <2>3. docDials' \subseteq NavRecord
      BY <1>1, <2>2 DEF CoordInv, CoordShape, NavShape, Goto
  <2> QED BY <1>1, <2>1, <2>2, <2>3 DEF CoordInv, CoordShape, NavShape, Stages, Goto
<1>2. ASSUME NEW d \in docDials, NEW o \in (Urls \ DataUrls) \cup {Blank}, DialDone(d, o) PROVE NavShape'
    BY <1>2, NavTyped, CoordinatorAssumption
       DEF CoordinatorAssumption, CoordInv, CoordShape, NavShape, Stages, DialDone,
           navVars, tabRendererVars
<1>3. ASSUME NEW d \in docDials, DialAborted(d) PROVE NavShape'
    BY <1>3, NavTyped, CoordinatorAssumption
       DEF CoordinatorAssumption, CoordInv, CoordShape, NavShape, Stages, DialAborted,
           navVars, tabRendererVars
<1>4. CASE HandleNavigation
  <2>1. Head(results) \in NavRecord /\ Tail(results) \in Seq(NavRecord)
      BY <1>4 DEF CoordInv, CoordShape, NavShape, HandleNavigation
  <2>2. nav' \in NavRecord /\ goal' \in NavRecord
      BY <1>4, <2>1, NavTyped DEF CoordInv, CoordShape, NavShape, HandleNavigation
  <2>3. at' \in Stages
      BY <1>4 DEF Stages, HandleNavigation
  <2>4. failed' \in BOOLEAN
      BY <1>4 DEF CoordInv, CoordShape, NavShape, HandleNavigation
  <2>5. results' \in Seq(NavRecord) /\ UNCHANGED <<epoch, gotos, docDials, url>>
      BY <1>4, <2>1 DEF HandleNavigation
  <2> QED BY <2>2, <2>3, <2>4, <2>5 DEF CoordInv, CoordShape, NavShape
<1>5. CASE CommitMounts
    BY <1>5, NavTyped, CoordinatorAssumption
       DEF CoordinatorAssumption, CoordInv, CoordShape, NavShape, Stages, CommitMounts,
           Mount, navVars, tabRendererVars
<1>6. CASE CommitDone
  <2>1. at' \in Stages
      BY <1>6 DEF Stages, CommitDone, Over
  <2>2. failed' \in BOOLEAN
      BY <1>6 DEF CommitDone
  <2>3. url' \in Shown /\ goal' \in NavRecord
      BY <1>6, NavTyped DEF CoordInv, CoordShape, NavShape, CommitDone, NoGoal
  <2>4. UNCHANGED navVars
      BY <1>6 DEF CommitDone
  <2> QED BY <2>1, <2>2, <2>3, <2>4 DEF CoordInv, CoordShape, NavShape, navVars
<1>7. CASE CommitFails
  <2>1. at' \in Stages /\ goal' \in NavRecord /\ failed' \in BOOLEAN
      BY <1>7, NavTyped DEF Stages, CommitFails, Over, NoGoal
  <2>2. UNCHANGED <<navVars, url>>
      BY <1>7 DEF CommitFails
  <2> QED BY <2>1, <2>2 DEF CoordInv, CoordShape, NavShape, navVars
<1>8. CASE MountHtml
    BY <1>8, NavTyped, CoordinatorAssumption
       DEF CoordinatorAssumption, CoordInv, CoordShape, NavShape, Stages, MountHtml,
           Mount, MountFails, DropTabRenderer, navVars, tabRendererVars
<1>9. CASE LoadEvent
    BY <1>9, NavTyped, CoordinatorAssumption
       DEF CoordinatorAssumption, CoordInv, CoordShape, NavShape, Stages, LoadEvent,
           Event, NoGoal, navVars, tabRendererVars
<1>10. CASE LoadAnswer
    BY <1>10, NavTyped, CoordinatorAssumption
       DEF CoordinatorAssumption, CoordInv, CoordShape, NavShape, Stages, LoadAnswer,
           LoadTrue, NoGoal, DropTabRenderer, navVars, tabRendererVars
<1>11. CASE Navigated
  <2>1. Head(tabEvents) \in EventRecord
      BY <1>11 DEF CoordInv, CoordShape, DocShape, Navigated, Event
  <2>2. url' \in Shown
      BY <1>11, <2>1, EventTyped DEF Navigated
  <2> QED BY <1>11, <2>2 DEF CoordInv, CoordShape, NavShape, Stages, Navigated, navVars
<1>12. CASE HistoryUpdated
  <2>1. Head(tabEvents) \in EventRecord
      BY <1>12 DEF CoordInv, CoordShape, DocShape, HistoryUpdated, Event
  <2>2. url' \in Shown
      BY <1>12, <2>1, EventTyped DEF HistoryUpdated
  <2> QED BY <1>12, <2>2 DEF CoordInv, CoordShape, NavShape, Stages, HistoryUpdated, navVars
<1>13. CASE WaiterSettled
    BY <1>13, NavTyped, CoordinatorAssumption
       DEF CoordinatorAssumption, CoordInv, CoordShape, NavShape, Stages, WaiterSettled,
           Event, navVars, tabRendererVars
<1>14. CASE RendererGone
    BY <1>14, NavTyped, CoordinatorAssumption
       DEF CoordinatorAssumption, CoordInv, CoordShape, NavShape, Stages, RendererGone,
           navVars, tabRendererVars
<1>15. ASSUME NEW c \in Calls, WaitLoad(c) PROVE NavShape'
    BY <1>15, NavTyped, CoordinatorAssumption
       DEF CoordinatorAssumption, CoordInv, CoordShape, NavShape, Stages, WaitLoad,
           Waiter, navVars, tabRendererVars
<1>16. ASSUME NEW c \in Calls, WaitJs(c) PROVE NavShape'
    BY <1>16, NavTyped, CoordinatorAssumption
       DEF CoordinatorAssumption, CoordInv, CoordShape, NavShape, Stages, WaitJs,
           Waiter, RequestOk, RequestFails, MountFails, DropTabRenderer, navVars,
           tabRendererVars
<1>17. CASE Execute
    BY <1>17, NavTyped, CoordinatorAssumption
       DEF CoordinatorAssumption, CoordInv, CoordShape, NavShape, Stages, Execute,
           Request, RequestOk, RequestFails, MountFails, DropTabRenderer, navVars,
           tabRendererVars
<1>18. ASSUME NEW c \in Calls, DropCaller(c) PROVE NavShape'
    BY <1>18, NavTyped, CoordinatorAssumption
       DEF CoordinatorAssumption, CoordInv, CoordShape, NavShape, Stages, DropCaller,
           navVars, tabRendererVars
<1>19. ASSUME NEW w \in waiting, WaitDeadline(w) PROVE NavShape'
    BY <1>19, NavTyped, CoordinatorAssumption
       DEF CoordinatorAssumption, CoordInv, CoordShape, NavShape, Stages, WaitDeadline,
           navVars, tabRendererVars
<1>20. CASE Resolve
    BY <1>20, NavTyped, CoordinatorAssumption
       DEF CoordinatorAssumption, CoordInv, CoordShape, NavShape, Stages, Resolve,
           Request, RequestOk, RequestFails, MountFails, DropTabRenderer, navVars,
           tabRendererVars
<1>21. CASE WakeUp
    BY <1>21, NavTyped, CoordinatorAssumption
       DEF CoordinatorAssumption, CoordInv, CoordShape, NavShape, Stages, WakeUp,
           navVars, tabRendererVars
<1>22. CASE Shutdown
    BY <1>22, NavTyped, CoordinatorAssumption
       DEF CoordinatorAssumption, CoordInv, CoordShape, NavShape, Stages, Shutdown,
           DropTabRenderer, navVars, tabRendererVars
<1>23. CASE Completes
    BY <1>23, NavTyped, CoordinatorAssumption
       DEF CoordinatorAssumption, CoordInv, CoordShape, NavShape, Stages, Completes,
           SendCommand, E, navVars, tabRendererVars
<1>24. ASSUME NEW u \in Urls \ DataUrls, NavigatesItself(u) PROVE NavShape'
    BY <1>24, NavTyped, CoordinatorAssumption
       DEF CoordinatorAssumption, CoordInv, CoordShape, NavShape, Stages,
           NavigatesItself, SendCommand, E, navVars, tabRendererVars
<1>25. ASSUME NEW u \in Urls \ DataUrls, PushState(u) PROVE NavShape'
    BY <1>25, NavTyped, CoordinatorAssumption
       DEF CoordinatorAssumption, CoordInv, CoordShape, NavShape, Stages, PushState,
           SendCommand, E, navVars, tabRendererVars
<1>26. ASSUME NEW c \in Calls, Settles(c) PROVE NavShape'
    BY <1>26, NavTyped, CoordinatorAssumption
       DEF CoordinatorAssumption, CoordInv, CoordShape, NavShape, Stages, Settles,
           SendCommand, E, navVars, tabRendererVars
<1>27. CASE Dies
    BY <1>27, NavTyped, CoordinatorAssumption
       DEF CoordinatorAssumption, CoordInv, CoordShape, NavShape, Stages, Dies, navVars,
           tabRendererVars
<1>28. CASE UNCHANGED coordVars
    BY <1>28
       DEF CoordinatorAssumption, CoordInv, CoordShape, NavShape, Stages, coordVars,
           navVars, tabRendererVars
<1> QED
    BY <1>1, <1>2, <1>3, <1>4, <1>5, <1>6, <1>7, <1>8, <1>9, <1>10, <1>11, <1>12, <1>13,
       <1>14, <1>15, <1>16, <1>17, <1>18, <1>19, <1>20, <1>21, <1>22, <1>23, <1>24,
       <1>25, <1>26, <1>27, <1>28
       DEF CoordNext, Wakes, Continues, Commands, Callers, Network, RendererStep

(* ... of the document and its events, ... *)
LEMMA DocShapeStep ==
  ASSUME CoordInv, [CoordNext]_coordVars
  PROVE  DocShape'
<1>1. ASSUME NEW u \in Urls, Goto(u) PROVE DocShape'
    BY <1>1, NavTyped, DocTyped
       DEF CoordInv, CoordShape, DocShape, NavShape, Goto, NextEpoch, navVars,
           tabRendererVars
<1>2. ASSUME NEW d \in docDials, NEW o \in (Urls \ DataUrls) \cup {Blank}, DialDone(d, o) PROVE DocShape'
    BY <1>2, NavTyped, DocTyped
       DEF CoordInv, CoordShape, DocShape, NavShape, DialDone, navVars, tabRendererVars
<1>3. ASSUME NEW d \in docDials, DialAborted(d) PROVE DocShape'
    BY <1>3, NavTyped, DocTyped
       DEF CoordInv, CoordShape, DocShape, NavShape, DialAborted, navVars,
           tabRendererVars
<1>4. CASE HandleNavigation
    BY <1>4, NavTyped, DocTyped
       DEF CoordInv, CoordShape, DocShape, NavShape, HandleNavigation, Active, navVars,
           tabRendererVars
<1>5. CASE CommitMounts
  <2>1. tabEvents' \in Seq(EventRecord)
      BY <1>5, DocTyped DEF CoordInv, CoordShape, DocShape, CommitMounts, Mount, tabRendererVars
  <2>2. shownDoc' \in DocRecord
      BY <1>5, NavTyped, DocTyped DEF CoordInv, CoordShape, DocShape, NavShape, CommitMounts, Mount, tabRendererVars
  <2>3. loaded' \in BOOLEAN /\ missed' \in BOOLEAN
      BY <1>5 DEF CoordInv, CoordShape, DocShape, CommitMounts, Mount
  <2>4. renderer' \in {"none", "up", "dead"}
      BY <1>5 DEF CoordInv, CoordShape, DocShape, CommitMounts, Mount, tabRendererVars
  <2> QED BY <2>1, <2>2, <2>3, <2>4 DEF DocShape
<1>6. CASE CommitDone
  <2>1. tabEvents' \in Seq(EventRecord)
      BY <1>6, DocTyped DEF CoordInv, CoordShape, DocShape, CommitDone, Over, DropTabRenderer, tabRendererVars
  <2>2. shownDoc' \in DocRecord
      BY <1>6, NavTyped, DocTyped DEF CoordInv, CoordShape, DocShape, NavShape, CommitDone, Over, DropTabRenderer, tabRendererVars
  <2>3. loaded' \in BOOLEAN /\ missed' \in BOOLEAN
      BY <1>6 DEF CoordInv, CoordShape, DocShape, CommitDone, Over, DropTabRenderer
  <2>4. renderer' \in {"none", "up", "dead"}
      BY <1>6 DEF CoordInv, CoordShape, DocShape, CommitDone, Over, DropTabRenderer, tabRendererVars
  <2> QED BY <2>1, <2>2, <2>3, <2>4 DEF DocShape
<1>7. CASE CommitFails
  <2>1. tabEvents' \in Seq(EventRecord)
      BY <1>7, DocTyped DEF CoordInv, CoordShape, DocShape, CommitFails, Over, MountFails, DropTabRenderer, tabRendererVars
  <2>2. shownDoc' \in DocRecord
      BY <1>7, NavTyped, DocTyped DEF CoordInv, CoordShape, DocShape, NavShape, CommitFails, Over, MountFails, DropTabRenderer, tabRendererVars
  <2>3. loaded' \in BOOLEAN /\ missed' \in BOOLEAN
      BY <1>7 DEF CoordInv, CoordShape, DocShape, CommitFails, Over, MountFails, DropTabRenderer
  <2>4. renderer' \in {"none", "up", "dead"}
      BY <1>7 DEF CoordInv, CoordShape, DocShape, CommitFails, Over, MountFails, DropTabRenderer, tabRendererVars
  <2> QED BY <2>1, <2>2, <2>3, <2>4 DEF DocShape
<1>8. CASE MountHtml
  <2>1. tabEvents' \in Seq(EventRecord)
      BY <1>8, DocTyped DEF CoordInv, CoordShape, DocShape, MountHtml, Mount, MountFails, DropTabRenderer, tabRendererVars
  <2>2. shownDoc' \in DocRecord
      BY <1>8, NavTyped, DocTyped DEF CoordInv, CoordShape, DocShape, NavShape, MountHtml, Mount, MountFails, DropTabRenderer, tabRendererVars
  <2>3. loaded' \in BOOLEAN /\ missed' \in BOOLEAN
      BY <1>8 DEF CoordInv, CoordShape, DocShape, MountHtml, Mount, MountFails, DropTabRenderer
  <2>4. renderer' \in {"none", "up", "dead"}
      BY <1>8 DEF CoordInv, CoordShape, DocShape, MountHtml, Mount, MountFails, DropTabRenderer, tabRendererVars
  <2> QED BY <2>1, <2>2, <2>3, <2>4 DEF DocShape
<1>9. CASE LoadEvent
    BY <1>9, NavTyped, DocTyped
       DEF CoordInv, CoordShape, DocShape, NavShape, LoadEvent, Event, NoGoal, navVars,
           tabRendererVars
<1>10. CASE LoadAnswer
  <2>1. tabEvents' \in Seq(EventRecord)
      BY <1>10, DocTyped DEF CoordInv, CoordShape, DocShape, LoadAnswer, LoadTrue, NoGoal, DropTabRenderer, tabRendererVars
  <2>2. shownDoc' \in DocRecord
      BY <1>10, NavTyped, DocTyped DEF CoordInv, CoordShape, DocShape, NavShape, LoadAnswer, LoadTrue, NoGoal, DropTabRenderer, tabRendererVars
  <2>3. loaded' \in BOOLEAN /\ missed' \in BOOLEAN
      BY <1>10 DEF CoordInv, CoordShape, DocShape, LoadAnswer, LoadTrue, NoGoal, DropTabRenderer
  <2>4. renderer' \in {"none", "up", "dead"}
      BY <1>10 DEF CoordInv, CoordShape, DocShape, LoadAnswer, LoadTrue, NoGoal, DropTabRenderer, tabRendererVars
  <2> QED BY <2>1, <2>2, <2>3, <2>4 DEF DocShape
<1>11. CASE Navigated
  <2>1. Tail(tabEvents) \in Seq(EventRecord)
      BY <1>11 DEF CoordInv, CoordShape, DocShape, Navigated, Event
  <2>2. tabEvents' \in Seq(EventRecord)
      BY <1>11, <2>1, DocTyped DEF Navigated, AnswerFrameWaiters, DropTabRenderer
  <2>3. renderer' \in {"none", "up", "dead"}
      BY <1>11 DEF CoordInv, CoordShape, DocShape, Navigated, AnswerFrameWaiters, DropTabRenderer
  <2> QED BY <1>11, <2>2, <2>3 DEF CoordInv, CoordShape, DocShape, Navigated
<1>12. CASE HistoryUpdated
    BY <1>12, NavTyped, DocTyped
       DEF CoordInv, CoordShape, DocShape, NavShape, HistoryUpdated, Event, navVars,
           tabRendererVars
<1>13. CASE WaiterSettled
    BY <1>13, NavTyped, DocTyped
       DEF CoordInv, CoordShape, DocShape, NavShape, WaiterSettled, Event, navVars,
           tabRendererVars
<1>14. CASE RendererGone
    BY <1>14, NavTyped, DocTyped
       DEF CoordInv, CoordShape, DocShape, NavShape, RendererGone, navVars,
           tabRendererVars
<1>15. ASSUME NEW c \in Calls, WaitLoad(c) PROVE DocShape'
    BY <1>15, NavTyped, DocTyped
       DEF CoordInv, CoordShape, DocShape, NavShape, WaitLoad, Waiter, navVars,
           tabRendererVars
<1>16. ASSUME NEW c \in Calls, WaitJs(c) PROVE DocShape'
  <2>1. tabEvents' \in Seq(EventRecord)
      BY <1>16, DocTyped DEF CoordInv, CoordShape, DocShape, WaitJs, Waiter, RequestOk, RequestFails, MountFails, DropTabRenderer, tabRendererVars
  <2>2. shownDoc' \in DocRecord
      BY <1>16, NavTyped, DocTyped DEF CoordInv, CoordShape, DocShape, NavShape, WaitJs, Waiter, RequestOk, RequestFails, MountFails, DropTabRenderer, tabRendererVars
  <2>3. loaded' \in BOOLEAN /\ missed' \in BOOLEAN
      BY <1>16 DEF CoordInv, CoordShape, DocShape, WaitJs, Waiter, RequestOk, RequestFails, MountFails, DropTabRenderer
  <2>4. renderer' \in {"none", "up", "dead"}
      BY <1>16 DEF CoordInv, CoordShape, DocShape, WaitJs, Waiter, RequestOk, RequestFails, MountFails, DropTabRenderer, tabRendererVars
  <2> QED BY <2>1, <2>2, <2>3, <2>4 DEF DocShape
<1>17. CASE Execute
  <2>1. tabEvents' \in Seq(EventRecord)
      BY <1>17, DocTyped DEF CoordInv, CoordShape, DocShape, Execute, Request, RequestOk, RequestFails, MountFails, DropTabRenderer, tabRendererVars
  <2>2. shownDoc' \in DocRecord
      BY <1>17, NavTyped, DocTyped DEF CoordInv, CoordShape, DocShape, NavShape, Execute, Request, RequestOk, RequestFails, MountFails, DropTabRenderer, tabRendererVars
  <2>3. loaded' \in BOOLEAN /\ missed' \in BOOLEAN
      BY <1>17 DEF CoordInv, CoordShape, DocShape, Execute, Request, RequestOk, RequestFails, MountFails, DropTabRenderer
  <2>4. renderer' \in {"none", "up", "dead"}
      BY <1>17 DEF CoordInv, CoordShape, DocShape, Execute, Request, RequestOk, RequestFails, MountFails, DropTabRenderer, tabRendererVars
  <2> QED BY <2>1, <2>2, <2>3, <2>4 DEF DocShape
<1>18. ASSUME NEW c \in Calls, DropCaller(c) PROVE DocShape'
    BY <1>18, NavTyped, DocTyped
       DEF CoordInv, CoordShape, DocShape, NavShape, DropCaller, navVars,
           tabRendererVars
<1>19. ASSUME NEW w \in waiting, WaitDeadline(w) PROVE DocShape'
    BY <1>19, NavTyped, DocTyped
       DEF CoordInv, CoordShape, DocShape, NavShape, WaitDeadline, navVars,
           tabRendererVars
<1>20. CASE Resolve
  <2>1. tabEvents' \in Seq(EventRecord)
      BY <1>20, DocTyped DEF CoordInv, CoordShape, DocShape, Resolve, Request, RequestOk, RequestFails, MountFails, DropTabRenderer, tabRendererVars
  <2>2. shownDoc' \in DocRecord
      BY <1>20, NavTyped, DocTyped DEF CoordInv, CoordShape, DocShape, NavShape, Resolve, Request, RequestOk, RequestFails, MountFails, DropTabRenderer, tabRendererVars
  <2>3. loaded' \in BOOLEAN /\ missed' \in BOOLEAN
      BY <1>20 DEF CoordInv, CoordShape, DocShape, Resolve, Request, RequestOk, RequestFails, MountFails, DropTabRenderer
  <2>4. renderer' \in {"none", "up", "dead"}
      BY <1>20 DEF CoordInv, CoordShape, DocShape, Resolve, Request, RequestOk, RequestFails, MountFails, DropTabRenderer, tabRendererVars
  <2> QED BY <2>1, <2>2, <2>3, <2>4 DEF DocShape
<1>21. CASE WakeUp
    BY <1>21, NavTyped, DocTyped
       DEF CoordInv, CoordShape, DocShape, NavShape, WakeUp, navVars, tabRendererVars
<1>22. CASE Shutdown
    BY <1>22, NavTyped, DocTyped
       DEF CoordInv, CoordShape, DocShape, NavShape, Shutdown, DropTabRenderer, navVars,
           tabRendererVars
<1>23. CASE Completes
  <2>1. E("load", shownDoc.url) \in EventRecord
      BY  SentRecords, NavTyped, DocTyped DEF CoordInv, CoordShape, DocShape, Kinds, Shown
  <2>2. tabEvents' \in Seq(EventRecord)
      BY <1>23, <2>1, EventSent DEF CoordInv, CoordShape, DocShape, Completes, SendCommand
  <2> QED BY <1>23, <2>2, NavTyped, DocTyped DEF CoordInv, CoordShape, DocShape, Completes, navVars
<1>24. ASSUME NEW u \in Urls \ DataUrls, NavigatesItself(u) PROVE DocShape'
  <2>1. E("navigated", u) \in EventRecord
      BY  SentRecords, NavTyped, DocTyped DEF CoordInv, CoordShape, DocShape, Kinds, Shown
  <2>2. tabEvents' \in Seq(EventRecord)
      BY <1>24, <2>1, EventSent DEF CoordInv, CoordShape, DocShape, NavigatesItself, SendCommand
  <2> QED BY <1>24, <2>2, NavTyped, DocTyped DEF CoordInv, CoordShape, DocShape, NavigatesItself, navVars
<1>25. ASSUME NEW u \in Urls \ DataUrls, PushState(u) PROVE DocShape'
  <2>1. E("update", u) \in EventRecord
      BY  SentRecords, NavTyped, DocTyped DEF CoordInv, CoordShape, DocShape, Kinds, Shown
  <2>2. tabEvents' \in Seq(EventRecord)
      BY <1>25, <2>1, EventSent DEF CoordInv, CoordShape, DocShape, PushState, SendCommand
  <2> QED BY <1>25, <2>2, NavTyped, DocTyped DEF CoordInv, CoordShape, DocShape, PushState, navVars
<1>26. ASSUME NEW c \in Calls, Settles(c) PROVE DocShape'
  <2>1. [E("settled", Blank) EXCEPT !.by = c] \in EventRecord
      BY <1>26, SentRecords, NavTyped, DocTyped DEF CoordInv, CoordShape, DocShape, Kinds, Shown
  <2>2. tabEvents' \in Seq(EventRecord)
      BY <1>26, <2>1, EventSent DEF CoordInv, CoordShape, DocShape, Settles, SendCommand
  <2> QED BY <1>26, <2>2, NavTyped, DocTyped DEF CoordInv, CoordShape, DocShape, Settles, navVars
<1>27. CASE Dies
    BY <1>27, NavTyped, DocTyped
       DEF CoordInv, CoordShape, DocShape, NavShape, Dies, navVars, tabRendererVars
<1>28. CASE UNCHANGED coordVars
    BY <1>28
       DEF CoordInv, CoordShape, DocShape, NavShape, coordVars, navVars, tabRendererVars
<1> QED
    BY <1>1, <1>2, <1>3, <1>4, <1>5, <1>6, <1>7, <1>8, <1>9, <1>10, <1>11, <1>12, <1>13,
       <1>14, <1>15, <1>16, <1>17, <1>18, <1>19, <1>20, <1>21, <1>22, <1>23, <1>24,
       <1>25, <1>26, <1>27, <1>28
       DEF CoordNext, Wakes, Continues, Commands, Callers, Network, RendererStep

(* ... and of the callers and their waiters. *)
LEMMA CallShapeStep ==
  ASSUME CoordInv, [CoordNext]_coordVars
  PROVE  CallShape'
<1>1. ASSUME NEW u \in Urls, Goto(u) PROVE CallShape'
    BY <1>1, WaiterTyped
       DEF CoordInv, CoordShape, CallShape, Goto, NextEpoch, navVars, tabRendererVars
<1>2. ASSUME NEW d \in docDials, NEW o \in (Urls \ DataUrls) \cup {Blank}, DialDone(d, o) PROVE CallShape'
    BY <1>2, WaiterTyped
       DEF CoordInv, CoordShape, CallShape, DialDone, navVars, tabRendererVars
<1>3. ASSUME NEW d \in docDials, DialAborted(d) PROVE CallShape'
    BY <1>3, WaiterTyped
       DEF CoordInv, CoordShape, CallShape, DialAborted, navVars, tabRendererVars
<1>4. CASE HandleNavigation
    BY <1>4, WaiterTyped
       DEF CoordInv, CoordShape, CallShape, HandleNavigation, Active, navVars,
           tabRendererVars
<1>5. CASE CommitMounts
    BY <1>5, WaiterTyped
       DEF CoordInv, CoordShape, CallShape, CommitMounts, Mount, navVars,
           tabRendererVars
<1>6. CASE CommitDone
    BY <1>6, WaiterTyped
       DEF CoordInv, CoordShape, CallShape, CommitDone, Over, DropTabRenderer, navVars,
           tabRendererVars
<1>7. CASE CommitFails
    BY <1>7, WaiterTyped
       DEF CoordInv, CoordShape, CallShape, CommitFails, Over, MountFails,
           DropTabRenderer, navVars, tabRendererVars
<1>8. CASE MountHtml
    BY <1>8, WaiterTyped
       DEF CoordInv, CoordShape, CallShape, MountHtml, Mount, MountFails,
           DropTabRenderer, navVars, tabRendererVars
<1>9. CASE LoadEvent
    BY <1>9, WaiterTyped
       DEF CoordInv, CoordShape, CallShape, LoadEvent, Event, NoGoal, navVars,
           tabRendererVars
<1>10. CASE LoadAnswer
    BY <1>10, WaiterTyped
       DEF CoordInv, CoordShape, CallShape, LoadAnswer, LoadTrue, NoGoal,
           DropTabRenderer, navVars, tabRendererVars
<1>11. CASE Navigated
    BY <1>11, WaiterTyped
       DEF CoordInv, CoordShape, CallShape, Navigated, Event, AnswerFrameWaiters,
           DropTabRenderer, navVars, tabRendererVars
<1>12. CASE HistoryUpdated
    BY <1>12, WaiterTyped
       DEF CoordInv, CoordShape, CallShape, HistoryUpdated, Event, navVars,
           tabRendererVars
<1>13. CASE WaiterSettled
    BY <1>13, WaiterTyped
       DEF CoordInv, CoordShape, CallShape, WaiterSettled, Event, navVars,
           tabRendererVars
<1>14. CASE RendererGone
    BY <1>14, WaiterTyped
       DEF CoordInv, CoordShape, CallShape, RendererGone, navVars, tabRendererVars
<1>15. ASSUME NEW c \in Calls, WaitLoad(c) PROVE CallShape'
    BY <1>15, WaiterTyped
       DEF CoordInv, CoordShape, CallShape, WaitLoad, Waiter, navVars, tabRendererVars
<1>16. ASSUME NEW c \in Calls, WaitJs(c) PROVE CallShape'
    BY <1>16, WaiterTyped
       DEF CoordInv, CoordShape, CallShape, WaitJs, Waiter, RequestOk, RequestFails,
           MountFails, DropTabRenderer, navVars, tabRendererVars
<1>17. CASE Execute
    BY <1>17, WaiterTyped
       DEF CoordInv, CoordShape, CallShape, Execute, Request, RequestOk, RequestFails,
           MountFails, DropTabRenderer, navVars, tabRendererVars
<1>18. ASSUME NEW c \in Calls, DropCaller(c) PROVE CallShape'
    BY <1>18, WaiterTyped
       DEF CoordInv, CoordShape, CallShape, DropCaller, navVars, tabRendererVars
<1>19. ASSUME NEW w \in waiting, WaitDeadline(w) PROVE CallShape'
    BY <1>19, WaiterTyped
       DEF CoordInv, CoordShape, CallShape, WaitDeadline, navVars, tabRendererVars
<1>20. CASE Resolve
  <2>1. \A w : Answer(w) \in {"gone", "true", "false", "kept"}
      BY DEF Answer
  <2> QED BY <1>20, <2>1 DEF CoordInv, CoordShape, CallShape, Resolve
<1>21. CASE WakeUp
    BY <1>21, WaiterTyped
       DEF CoordInv, CoordShape, CallShape, WakeUp, navVars, tabRendererVars
<1>22. CASE Shutdown
    BY <1>22, WaiterTyped
       DEF CoordInv, CoordShape, CallShape, Shutdown, DropTabRenderer, navVars,
           tabRendererVars
<1>23. CASE Completes
    BY <1>23, WaiterTyped
       DEF CoordInv, CoordShape, CallShape, Completes, SendCommand, E, navVars,
           tabRendererVars
<1>24. ASSUME NEW u \in Urls \ DataUrls, NavigatesItself(u) PROVE CallShape'
    BY <1>24, WaiterTyped
       DEF CoordInv, CoordShape, CallShape, NavigatesItself, SendCommand, E, navVars,
           tabRendererVars
<1>25. ASSUME NEW u \in Urls \ DataUrls, PushState(u) PROVE CallShape'
    BY <1>25, WaiterTyped
       DEF CoordInv, CoordShape, CallShape, PushState, SendCommand, E, navVars,
           tabRendererVars
<1>26. ASSUME NEW c \in Calls, Settles(c) PROVE CallShape'
    BY <1>26, WaiterTyped
       DEF CoordInv, CoordShape, CallShape, Settles, SendCommand, E, navVars,
           tabRendererVars
<1>27. CASE Dies
    BY <1>27, WaiterTyped
       DEF CoordInv, CoordShape, CallShape, Dies, navVars, tabRendererVars
<1>28. CASE UNCHANGED coordVars
    BY <1>28 DEF CoordInv, CoordShape, CallShape, coordVars, navVars, tabRendererVars
<1> QED
    BY <1>1, <1>2, <1>3, <1>4, <1>5, <1>6, <1>7, <1>8, <1>9, <1>10, <1>11, <1>12, <1>13,
       <1>14, <1>15, <1>16, <1>17, <1>18, <1>19, <1>20, <1>21, <1>22, <1>23, <1>24,
       <1>25, <1>26, <1>27, <1>28
       DEF CoordNext, Wakes, Continues, Commands, Callers, Network, RendererStep

(* Only Goto numbers, and it numbers the navigation and its dial alike. *)
LEMMA EpochStep ==
  ASSUME CoordInv, [CoordNext]_coordVars
  PROVE  EpochInv'
<1>1. ASSUME NEW u \in Urls, Goto(u) PROVE EpochInv'
    BY <1>1
       DEF CoordInv, CoordShape, NavShape, EpochInv, NewestCommits, NoNav, Goto,
           NextEpoch, navVars, tabRendererVars
<1>2. ASSUME NEW d \in docDials, NEW o \in (Urls \ DataUrls) \cup {Blank}, DialDone(d, o) PROVE EpochInv'
    BY <1>2
       DEF CoordInv, CoordShape, NavShape, EpochInv, NewestCommits, NoNav, DialDone,
           navVars, tabRendererVars
<1>3. ASSUME NEW d \in docDials, DialAborted(d) PROVE EpochInv'
    BY <1>3
       DEF CoordInv, CoordShape, NavShape, EpochInv, NewestCommits, NoNav, DialAborted,
           navVars, tabRendererVars
<1>4. CASE HandleNavigation
    BY <1>4
       DEF CoordInv, CoordShape, NavShape, EpochInv, NewestCommits, NoNav,
           HandleNavigation, Active, navVars, tabRendererVars
<1>5. CASE CommitMounts
    BY <1>5
       DEF CoordInv, CoordShape, NavShape, EpochInv, NewestCommits, NoNav, CommitMounts,
           Mount, navVars, tabRendererVars
<1>6. CASE CommitDone
    BY <1>6
       DEF CoordInv, CoordShape, NavShape, EpochInv, NewestCommits, NoNav, CommitDone,
           Over, DropTabRenderer, navVars, tabRendererVars
<1>7. CASE CommitFails
    BY <1>7
       DEF CoordInv, CoordShape, NavShape, EpochInv, NewestCommits, NoNav, CommitFails,
           Over, MountFails, DropTabRenderer, navVars, tabRendererVars
<1>8. CASE MountHtml
    BY <1>8
       DEF CoordInv, CoordShape, NavShape, EpochInv, NewestCommits, NoNav, MountHtml,
           Mount, MountFails, DropTabRenderer, navVars, tabRendererVars
<1>9. CASE LoadEvent
    BY <1>9
       DEF CoordInv, CoordShape, NavShape, EpochInv, NewestCommits, NoNav, LoadEvent,
           Event, NoGoal, navVars, tabRendererVars
<1>10. CASE LoadAnswer
    BY <1>10
       DEF CoordInv, CoordShape, NavShape, EpochInv, NewestCommits, NoNav, LoadAnswer,
           LoadTrue, NoGoal, DropTabRenderer, navVars, tabRendererVars
<1>11. CASE Navigated
    BY <1>11
       DEF CoordInv, CoordShape, NavShape, EpochInv, NewestCommits, NoNav, Navigated,
           Event, AnswerFrameWaiters, DropTabRenderer, navVars, tabRendererVars
<1>12. CASE HistoryUpdated
    BY <1>12
       DEF CoordInv, CoordShape, NavShape, EpochInv, NewestCommits, NoNav,
           HistoryUpdated, Event, navVars, tabRendererVars
<1>13. CASE WaiterSettled
    BY <1>13
       DEF CoordInv, CoordShape, NavShape, EpochInv, NewestCommits, NoNav,
           WaiterSettled, Event, navVars, tabRendererVars
<1>14. CASE RendererGone
    BY <1>14
       DEF CoordInv, CoordShape, NavShape, EpochInv, NewestCommits, NoNav, RendererGone,
           navVars, tabRendererVars
<1>15. ASSUME NEW c \in Calls, WaitLoad(c) PROVE EpochInv'
    BY <1>15
       DEF CoordInv, CoordShape, NavShape, EpochInv, NewestCommits, NoNav, WaitLoad,
           Waiter, navVars, tabRendererVars
<1>16. ASSUME NEW c \in Calls, WaitJs(c) PROVE EpochInv'
    BY <1>16
       DEF CoordInv, CoordShape, NavShape, EpochInv, NewestCommits, NoNav, WaitJs,
           Waiter, RequestOk, RequestFails, MountFails, DropTabRenderer, navVars,
           tabRendererVars
<1>17. CASE Execute
    BY <1>17
       DEF CoordInv, CoordShape, NavShape, EpochInv, NewestCommits, NoNav, Execute,
           Request, RequestOk, RequestFails, MountFails, DropTabRenderer, navVars,
           tabRendererVars
<1>18. ASSUME NEW c \in Calls, DropCaller(c) PROVE EpochInv'
    BY <1>18
       DEF CoordInv, CoordShape, NavShape, EpochInv, NewestCommits, NoNav, DropCaller,
           navVars, tabRendererVars
<1>19. ASSUME NEW w \in waiting, WaitDeadline(w) PROVE EpochInv'
    BY <1>19
       DEF CoordInv, CoordShape, NavShape, EpochInv, NewestCommits, NoNav, WaitDeadline,
           navVars, tabRendererVars
<1>20. CASE Resolve
    BY <1>20
       DEF CoordInv, CoordShape, NavShape, EpochInv, NewestCommits, NoNav, Resolve,
           Request, RequestOk, RequestFails, MountFails, DropTabRenderer, navVars,
           tabRendererVars
<1>21. CASE WakeUp
    BY <1>21
       DEF CoordInv, CoordShape, NavShape, EpochInv, NewestCommits, NoNav, WakeUp,
           navVars, tabRendererVars
<1>22. CASE Shutdown
    BY <1>22
       DEF CoordInv, CoordShape, NavShape, EpochInv, NewestCommits, NoNav, Shutdown,
           DropTabRenderer, navVars, tabRendererVars
<1>23. CASE Completes
    BY <1>23
       DEF CoordInv, CoordShape, NavShape, EpochInv, NewestCommits, NoNav, Completes,
           SendCommand, E, navVars, tabRendererVars
<1>24. ASSUME NEW u \in Urls \ DataUrls, NavigatesItself(u) PROVE EpochInv'
    BY <1>24
       DEF CoordInv, CoordShape, NavShape, EpochInv, NewestCommits, NoNav,
           NavigatesItself, SendCommand, E, navVars, tabRendererVars
<1>25. ASSUME NEW u \in Urls \ DataUrls, PushState(u) PROVE EpochInv'
    BY <1>25
       DEF CoordInv, CoordShape, NavShape, EpochInv, NewestCommits, NoNav, PushState,
           SendCommand, E, navVars, tabRendererVars
<1>26. ASSUME NEW c \in Calls, Settles(c) PROVE EpochInv'
    BY <1>26
       DEF CoordInv, CoordShape, NavShape, EpochInv, NewestCommits, NoNav, Settles,
           SendCommand, E, navVars, tabRendererVars
<1>27. CASE Dies
    BY <1>27
       DEF CoordInv, CoordShape, NavShape, EpochInv, NewestCommits, NoNav, Dies,
           navVars, tabRendererVars
<1>28. CASE UNCHANGED coordVars
    BY <1>28
       DEF CoordInv, CoordShape, NavShape, EpochInv, NewestCommits, NoNav, coordVars,
           navVars, tabRendererVars
<1> QED
    BY <1>1, <1>2, <1>3, <1>4, <1>5, <1>6, <1>7, <1>8, <1>9, <1>10, <1>11, <1>12, <1>13,
       <1>14, <1>15, <1>16, <1>17, <1>18, <1>19, <1>20, <1>21, <1>22, <1>23, <1>24,
       <1>25, <1>26, <1>27, <1>28
       DEF CoordNext, Wakes, Continues, Commands, Callers, Network, RendererStep

(* Who is no longer kept has been answered. *)
LEMMA WaiterStep ==
  ASSUME CoordInv, [CoordNext]_coordVars
  PROVE  WaiterInv'
<1>1. ASSUME NEW u \in Urls, Goto(u) PROVE WaiterInv'
    BY <1>1
       DEF CoordInv, CoordShape, DocShape, CallShape, WaiterInv, Of, Goto, NextEpoch,
           navVars, tabRendererVars
<1>2. ASSUME NEW d \in docDials, NEW o \in (Urls \ DataUrls) \cup {Blank}, DialDone(d, o) PROVE WaiterInv'
    BY <1>2
       DEF CoordInv, CoordShape, DocShape, CallShape, WaiterInv, Of, DialDone, navVars,
           tabRendererVars
<1>3. ASSUME NEW d \in docDials, DialAborted(d) PROVE WaiterInv'
    BY <1>3
       DEF CoordInv, CoordShape, DocShape, CallShape, WaiterInv, Of, DialAborted,
           navVars, tabRendererVars
<1>4. CASE HandleNavigation
    BY <1>4
       DEF CoordInv, CoordShape, DocShape, CallShape, WaiterInv, Of, HandleNavigation,
           Active, navVars, tabRendererVars
<1>5. CASE CommitMounts
    BY <1>5
       DEF CoordInv, CoordShape, DocShape, CallShape, WaiterInv, Of, CommitMounts,
           Mount, navVars, tabRendererVars
<1>6. CASE CommitDone
    BY <1>6
       DEF CoordInv, CoordShape, DocShape, CallShape, WaiterInv, Of, CommitDone, Over,
           DropTabRenderer, navVars, tabRendererVars
<1>7. CASE CommitFails
    BY <1>7
       DEF CoordInv, CoordShape, DocShape, CallShape, WaiterInv, Of, CommitFails, Over,
           MountFails, DropTabRenderer, navVars, tabRendererVars
<1>8. CASE MountHtml
    BY <1>8
       DEF CoordInv, CoordShape, DocShape, CallShape, WaiterInv, Of, MountHtml, Mount,
           MountFails, DropTabRenderer, navVars, tabRendererVars
<1>9. CASE LoadEvent
    BY <1>9
       DEF CoordInv, CoordShape, DocShape, CallShape, WaiterInv, Of, LoadEvent, Event,
           NoGoal, navVars, tabRendererVars
<1>10. CASE LoadAnswer
    BY <1>10
       DEF CoordInv, CoordShape, DocShape, CallShape, WaiterInv, Of, LoadAnswer,
           LoadTrue, NoGoal, DropTabRenderer, navVars, tabRendererVars
<1>11. CASE Navigated
    BY <1>11
       DEF CoordInv, CoordShape, DocShape, CallShape, WaiterInv, Of, Navigated, Event,
           AnswerFrameWaiters, DropTabRenderer, navVars, tabRendererVars
<1>12. CASE HistoryUpdated
    BY <1>12
       DEF CoordInv, CoordShape, DocShape, CallShape, WaiterInv, Of, HistoryUpdated,
           Event, navVars, tabRendererVars
<1>13. CASE WaiterSettled
    BY <1>13
       DEF CoordInv, CoordShape, DocShape, CallShape, WaiterInv, Of, WaiterSettled,
           Event, navVars, tabRendererVars
<1>14. CASE RendererGone
    BY <1>14
       DEF CoordInv, CoordShape, DocShape, CallShape, WaiterInv, Of, RendererGone,
           navVars, tabRendererVars
<1>15. ASSUME NEW c \in Calls, WaitLoad(c) PROVE WaiterInv'
  <2>1. \A d \in Of(waiting) : d \in Of(waiting')
      BY <1>15 DEF Of, WaitLoad
  <2>2. call'[c] = "kept" => c \in Of(waiting')
      BY <1>15, WaiterTyped DEF CoordInv, CoordShape, CallShape, Of, WaitLoad
  <2> QED BY <1>15, <2>1, <2>2
          DEF CoordInv, CoordShape, CallShape, WaiterInv, WaitLoad, tabRendererVars
<1>16. ASSUME NEW c \in Calls, WaitJs(c) PROVE WaiterInv'
  <2>1. \A d \in Of(waiting) : d \in Of(waiting')
      BY <1>16 DEF Of, WaitJs
  <2>2. call'[c] = "kept" => c \in Of(waiting')
      BY <1>16, WaiterTyped DEF CoordInv, CoordShape, CallShape, Of, WaitJs
  <2>3. renderer' = "none" => tabEvents' = <<>> /\ known' = {}
      BY <1>16 DEF CoordInv, WaiterInv, WaitJs, RequestOk, RequestFails, MountFails, DropTabRenderer
  <2>4. \A d \in Calls : call'[d] = "kept" => d \in Of(waiting')
      BY <1>16, <2>1, <2>2 DEF CoordInv, CoordShape, CallShape, WaiterInv, WaitJs
  <2> QED BY <2>3, <2>4 DEF WaiterInv
<1>17. CASE Execute
    BY <1>17
       DEF CoordInv, CoordShape, DocShape, CallShape, WaiterInv, Of, Execute, Request,
           RequestOk, RequestFails, MountFails, DropTabRenderer, navVars,
           tabRendererVars
<1>18. ASSUME NEW c \in Calls, DropCaller(c) PROVE WaiterInv'
    BY <1>18
       DEF CoordInv, CoordShape, DocShape, CallShape, WaiterInv, Of, DropCaller,
           navVars, tabRendererVars
<1>19. ASSUME NEW w \in waiting, WaitDeadline(w) PROVE WaiterInv'
  <2>1. ASSUME NEW d \in Of(waiting) PROVE d \in Of(waiting')
    <3>1. PICK v \in waiting : v.call = d
        BY DEF Of
    <3>2. [w EXCEPT !.late = TRUE].call = w.call
        BY <1>19, WaiterTyped DEF CoordInv, CoordShape, CallShape
    <3>3. \E x \in waiting' : x.call = d
        BY <1>19, <3>1, <3>2 DEF WaitDeadline
    <3> QED BY <3>3 DEF Of
  <2> QED BY <1>19, <2>1 DEF CoordInv, WaiterInv, WaitDeadline, tabRendererVars
<1>20. CASE Resolve
    BY <1>20
       DEF CoordInv, CoordShape, DocShape, CallShape, WaiterInv, Of, Resolve, Request,
           RequestOk, RequestFails, MountFails, DropTabRenderer, navVars,
           tabRendererVars
<1>21. CASE WakeUp
    BY <1>21
       DEF CoordInv, CoordShape, DocShape, CallShape, WaiterInv, Of, WakeUp, navVars,
           tabRendererVars
<1>22. CASE Shutdown
    BY <1>22
       DEF CoordInv, CoordShape, DocShape, CallShape, WaiterInv, Of, Shutdown,
           DropTabRenderer, navVars, tabRendererVars
<1>23. CASE Completes
    BY <1>23
       DEF CoordInv, CoordShape, DocShape, CallShape, WaiterInv, Of, Completes,
           SendCommand, E, navVars, tabRendererVars
<1>24. ASSUME NEW u \in Urls \ DataUrls, NavigatesItself(u) PROVE WaiterInv'
    BY <1>24
       DEF CoordInv, CoordShape, DocShape, CallShape, WaiterInv, Of, NavigatesItself,
           SendCommand, E, navVars, tabRendererVars
<1>25. ASSUME NEW u \in Urls \ DataUrls, PushState(u) PROVE WaiterInv'
    BY <1>25
       DEF CoordInv, CoordShape, DocShape, CallShape, WaiterInv, Of, PushState,
           SendCommand, E, navVars, tabRendererVars
<1>26. ASSUME NEW c \in Calls, Settles(c) PROVE WaiterInv'
    BY <1>26
       DEF CoordInv, CoordShape, DocShape, CallShape, WaiterInv, Of, Settles,
           SendCommand, E, navVars, tabRendererVars
<1>27. CASE Dies
    BY <1>27
       DEF CoordInv, CoordShape, DocShape, CallShape, WaiterInv, Of, Dies, navVars,
           tabRendererVars
<1>28. CASE UNCHANGED coordVars
    BY <1>28
       DEF CoordInv, CoordShape, DocShape, CallShape, WaiterInv, Of, coordVars, navVars,
           tabRendererVars
<1> QED
    BY <1>1, <1>2, <1>3, <1>4, <1>5, <1>6, <1>7, <1>8, <1>9, <1>10, <1>11, <1>12, <1>13,
       <1>14, <1>15, <1>16, <1>17, <1>18, <1>19, <1>20, <1>21, <1>22, <1>23, <1>24,
       <1>25, <1>26, <1>27, <1>28
       DEF CoordNext, Wakes, Continues, Commands, Callers, Network, RendererStep

(* A document becomes incomplete before it announces itself, and its Load follows. *)
LEMMA OrderStep ==
  ASSUME CoordInv, [CoordNext]_coordVars
  PROVE  OrderInv'
<1>1. ASSUME NEW u \in Urls, Goto(u) PROVE OrderInv'
    BY <1>1
       DEF CoordInv, CoordShape, DocShape, OrderInv, DocRecord, Goto, NextEpoch,
           navVars, tabRendererVars
<1>2. ASSUME NEW d \in docDials, NEW o \in (Urls \ DataUrls) \cup {Blank}, DialDone(d, o) PROVE OrderInv'
    BY <1>2
       DEF CoordInv, CoordShape, DocShape, OrderInv, DocRecord, DialDone, navVars,
           tabRendererVars
<1>3. ASSUME NEW d \in docDials, DialAborted(d) PROVE OrderInv'
    BY <1>3
       DEF CoordInv, CoordShape, DocShape, OrderInv, DocRecord, DialAborted, navVars,
           tabRendererVars
<1>4. CASE HandleNavigation
    BY <1>4
       DEF CoordInv, CoordShape, DocShape, OrderInv, DocRecord, HandleNavigation,
           Active, navVars, tabRendererVars
<1>5. CASE CommitMounts
    BY <1>5
       DEF CoordInv, CoordShape, DocShape, OrderInv, DocRecord, CommitMounts, Mount,
           navVars, tabRendererVars
<1>6. CASE CommitDone
    BY <1>6
       DEF CoordInv, CoordShape, DocShape, OrderInv, DocRecord, CommitDone, Over,
           DropTabRenderer, navVars, tabRendererVars
<1>7. CASE CommitFails
    BY <1>7
       DEF CoordInv, CoordShape, DocShape, OrderInv, DocRecord, CommitFails, Over,
           MountFails, DropTabRenderer, navVars, tabRendererVars
<1>8. CASE MountHtml
    BY <1>8
       DEF CoordInv, CoordShape, DocShape, OrderInv, DocRecord, MountHtml, Mount,
           MountFails, DropTabRenderer, navVars, tabRendererVars
<1>9. CASE LoadEvent
  <2>1. tabEvents # <<>> /\ tabEvents' = Tail(tabEvents) /\ shownDoc' = shownDoc
      BY <1>9 DEF LoadEvent, Event
  <2> QED BY <2>1, OrderTaken DEF CoordInv, CoordShape, DocShape
<1>10. CASE LoadAnswer
    BY <1>10
       DEF CoordInv, CoordShape, DocShape, OrderInv, DocRecord, LoadAnswer, LoadTrue,
           NoGoal, DropTabRenderer, navVars, tabRendererVars
<1>11. CASE Navigated
  <2>1. tabEvents # <<>> /\ shownDoc' = shownDoc
      BY <1>11 DEF Navigated, Event
  <2>2. CASE tabEvents' = Tail(tabEvents)
      BY <2>1, <2>2, OrderTaken DEF CoordInv, CoordShape, DocShape
  <2>3. CASE tabEvents' = <<>>
      BY <2>3 DEF OrderInv
  <2> QED BY <1>11, <2>2, <2>3 DEF Navigated, AnswerFrameWaiters, DropTabRenderer
<1>12. CASE HistoryUpdated
  <2>1. tabEvents # <<>> /\ tabEvents' = Tail(tabEvents) /\ shownDoc' = shownDoc
      BY <1>12 DEF HistoryUpdated, Event
  <2> QED BY <2>1, OrderTaken DEF CoordInv, CoordShape, DocShape
<1>13. CASE WaiterSettled
  <2>1. tabEvents # <<>> /\ tabEvents' = Tail(tabEvents) /\ shownDoc' = shownDoc
      BY <1>13 DEF WaiterSettled, Event
  <2> QED BY <2>1, OrderTaken DEF CoordInv, CoordShape, DocShape
<1>14. CASE RendererGone
    BY <1>14
       DEF CoordInv, CoordShape, DocShape, OrderInv, DocRecord, RendererGone, navVars,
           tabRendererVars
<1>15. ASSUME NEW c \in Calls, WaitLoad(c) PROVE OrderInv'
    BY <1>15
       DEF CoordInv, CoordShape, DocShape, OrderInv, DocRecord, WaitLoad, Waiter,
           navVars, tabRendererVars
<1>16. ASSUME NEW c \in Calls, WaitJs(c) PROVE OrderInv'
    BY <1>16
       DEF CoordInv, CoordShape, DocShape, OrderInv, DocRecord, WaitJs, Waiter,
           RequestOk, RequestFails, MountFails, DropTabRenderer, navVars,
           tabRendererVars
<1>17. CASE Execute
    BY <1>17
       DEF CoordInv, CoordShape, DocShape, OrderInv, DocRecord, Execute, Request,
           RequestOk, RequestFails, MountFails, DropTabRenderer, navVars,
           tabRendererVars
<1>18. ASSUME NEW c \in Calls, DropCaller(c) PROVE OrderInv'
    BY <1>18
       DEF CoordInv, CoordShape, DocShape, OrderInv, DocRecord, DropCaller, navVars,
           tabRendererVars
<1>19. ASSUME NEW w \in waiting, WaitDeadline(w) PROVE OrderInv'
    BY <1>19
       DEF CoordInv, CoordShape, DocShape, OrderInv, DocRecord, WaitDeadline, navVars,
           tabRendererVars
<1>20. CASE Resolve
    BY <1>20
       DEF CoordInv, CoordShape, DocShape, OrderInv, DocRecord, Resolve, Request,
           RequestOk, RequestFails, MountFails, DropTabRenderer, navVars,
           tabRendererVars
<1>21. CASE WakeUp
    BY <1>21
       DEF CoordInv, CoordShape, DocShape, OrderInv, DocRecord, WakeUp, navVars,
           tabRendererVars
<1>22. CASE Shutdown
    BY <1>22
       DEF CoordInv, CoordShape, DocShape, OrderInv, DocRecord, Shutdown,
           DropTabRenderer, navVars, tabRendererVars
<1>23. CASE Completes
    BY <1>23
       DEF CoordInv, CoordShape, DocShape, OrderInv, DocRecord, Completes, SendCommand,
           E, navVars, tabRendererVars
<1>24. ASSUME NEW u \in Urls \ DataUrls, NavigatesItself(u) PROVE OrderInv'
    BY <1>24
       DEF CoordInv, CoordShape, DocShape, OrderInv, DocRecord, NavigatesItself,
           SendCommand, E, navVars, tabRendererVars
<1>25. ASSUME NEW u \in Urls \ DataUrls, PushState(u) PROVE OrderInv'
    BY <1>25
       DEF CoordInv, CoordShape, DocShape, OrderInv, DocRecord, PushState, SendCommand,
           E, navVars, tabRendererVars
<1>26. ASSUME NEW c \in Calls, Settles(c) PROVE OrderInv'
  <2>1. PICK e : e = [E("settled", Blank) EXCEPT !.by = c]
    OBVIOUS
  <2>2. e.kind = "settled"
    BY <2>1 DEF E
  <2>3. tabEvents' = Append(tabEvents, e) /\ shownDoc' = shownDoc
    BY <1>26, <2>1 DEF Settles, SendCommand
  <2>4. tabEvents \in Seq(EventRecord)
    BY DEF CoordInv, CoordShape, DocShape
  <2> QED BY <2>2, <2>3, <2>4 DEF CoordInv, OrderInv
<1>27. CASE Dies
    BY <1>27
       DEF CoordInv, CoordShape, DocShape, OrderInv, DocRecord, Dies, navVars,
           tabRendererVars
<1>28. CASE UNCHANGED coordVars
    BY <1>28
       DEF CoordInv, CoordShape, DocShape, OrderInv, DocRecord, coordVars, navVars,
           tabRendererVars
<1> QED
    BY <1>1, <1>2, <1>3, <1>4, <1>5, <1>6, <1>7, <1>8, <1>9, <1>10, <1>11, <1>12, <1>13,
       <1>14, <1>15, <1>16, <1>17, <1>18, <1>19, <1>20, <1>21, <1>22, <1>23, <1>24,
       <1>25, <1>26, <1>27, <1>28
       DEF CoordNext, Wakes, Continues, Commands, Callers, Network, RendererStep

(* What clears the document clears the flag. *)
LEMMA LoadedStep ==
  ASSUME CoordInv, [CoordNext]_coordVars
  PROVE  LoadedInv'
<1>1. ASSUME NEW u \in Urls, Goto(u) PROVE LoadedInv'
    BY <1>1, NothingUnseen
       DEF CoordInv, CoordShape, DocShape, LoadedInv, WaiterInv, DocRecord, Unseen,
           Goto, NextEpoch, navVars, tabRendererVars
<1>2. ASSUME NEW d \in docDials, NEW o \in (Urls \ DataUrls) \cup {Blank}, DialDone(d, o) PROVE LoadedInv'
    BY <1>2, NothingUnseen
       DEF CoordInv, CoordShape, DocShape, LoadedInv, WaiterInv, DocRecord, Unseen,
           DialDone, navVars, tabRendererVars
<1>3. ASSUME NEW d \in docDials, DialAborted(d) PROVE LoadedInv'
    BY <1>3, NothingUnseen
       DEF CoordInv, CoordShape, DocShape, LoadedInv, WaiterInv, DocRecord, Unseen,
           DialAborted, navVars, tabRendererVars
<1>4. CASE HandleNavigation
    BY <1>4, NothingUnseen
       DEF CoordInv, CoordShape, DocShape, LoadedInv, WaiterInv, DocRecord, Unseen,
           HandleNavigation, Active, navVars, tabRendererVars
<1>5. CASE CommitMounts
    BY <1>5, NothingUnseen
       DEF CoordInv, CoordShape, DocShape, LoadedInv, WaiterInv, DocRecord, Unseen,
           CommitMounts, Mount, navVars, tabRendererVars
<1>6. CASE CommitDone
    BY <1>6, NothingUnseen
       DEF CoordInv, CoordShape, DocShape, LoadedInv, WaiterInv, DocRecord, Unseen,
           CommitDone, Over, DropTabRenderer, navVars, tabRendererVars
<1>7. CASE CommitFails
    BY <1>7, NothingUnseen
       DEF CoordInv, CoordShape, DocShape, LoadedInv, WaiterInv, DocRecord, Unseen,
           CommitFails, Over, MountFails, DropTabRenderer, navVars, tabRendererVars
<1>8. CASE MountHtml
    BY <1>8, NothingUnseen
       DEF CoordInv, CoordShape, DocShape, LoadedInv, WaiterInv, DocRecord, Unseen,
           MountHtml, Mount, MountFails, DropTabRenderer, navVars, tabRendererVars
<1>9. CASE LoadEvent
  <2>1. /\ tabEvents # <<>> /\ tabEvents' = Tail(tabEvents) /\ Head(tabEvents).kind = "load"
        /\ UNCHANGED <<shownDoc, renderer, loaded>>
      BY <1>9 DEF LoadEvent, Event
  <2>2. Unseen("navigated") => Unseen("navigated")'
      BY <2>1, EventTaken DEF CoordInv, CoordShape, DocShape
  <2> QED BY <2>1, <2>2 DEF CoordInv, LoadedInv
<1>10. CASE LoadAnswer
    BY <1>10, NothingUnseen
       DEF CoordInv, CoordShape, DocShape, LoadedInv, WaiterInv, DocRecord, Unseen,
           LoadAnswer, LoadTrue, NoGoal, DropTabRenderer, navVars, tabRendererVars
<1>11. CASE Navigated
    BY <1>11, NothingUnseen
       DEF CoordInv, CoordShape, DocShape, LoadedInv, WaiterInv, DocRecord, Unseen,
           Navigated, Event, AnswerFrameWaiters, DropTabRenderer, navVars,
           tabRendererVars
<1>12. CASE HistoryUpdated
  <2>1. /\ tabEvents # <<>> /\ tabEvents' = Tail(tabEvents) /\ Head(tabEvents).kind = "update"
        /\ UNCHANGED <<shownDoc, renderer, loaded>>
      BY <1>12 DEF HistoryUpdated, Event
  <2>2. Unseen("navigated") => Unseen("navigated")'
      BY <2>1, EventTaken DEF CoordInv, CoordShape, DocShape
  <2> QED BY <2>1, <2>2 DEF CoordInv, LoadedInv
<1>13. CASE WaiterSettled
  <2>1. /\ tabEvents # <<>> /\ tabEvents' = Tail(tabEvents) /\ Head(tabEvents).kind = "settled"
        /\ UNCHANGED <<shownDoc, renderer, loaded>>
      BY <1>13 DEF WaiterSettled, Event
  <2>2. Unseen("navigated") => Unseen("navigated")'
      BY <2>1, EventTaken DEF CoordInv, CoordShape, DocShape
  <2> QED BY <2>1, <2>2 DEF CoordInv, LoadedInv
<1>14. CASE RendererGone
    BY <1>14, NothingUnseen
       DEF CoordInv, CoordShape, DocShape, LoadedInv, WaiterInv, DocRecord, Unseen,
           RendererGone, navVars, tabRendererVars
<1>15. ASSUME NEW c \in Calls, WaitLoad(c) PROVE LoadedInv'
    BY <1>15, NothingUnseen
       DEF CoordInv, CoordShape, DocShape, LoadedInv, WaiterInv, DocRecord, Unseen,
           WaitLoad, Waiter, navVars, tabRendererVars
<1>16. ASSUME NEW c \in Calls, WaitJs(c) PROVE LoadedInv'
    BY <1>16, NothingUnseen
       DEF CoordInv, CoordShape, DocShape, LoadedInv, WaiterInv, DocRecord, Unseen,
           WaitJs, Waiter, RequestOk, RequestFails, MountFails, DropTabRenderer,
           navVars, tabRendererVars
<1>17. CASE Execute
    BY <1>17, NothingUnseen
       DEF CoordInv, CoordShape, DocShape, LoadedInv, WaiterInv, DocRecord, Unseen,
           Execute, Request, RequestOk, RequestFails, MountFails, DropTabRenderer,
           navVars, tabRendererVars
<1>18. ASSUME NEW c \in Calls, DropCaller(c) PROVE LoadedInv'
    BY <1>18, NothingUnseen
       DEF CoordInv, CoordShape, DocShape, LoadedInv, WaiterInv, DocRecord, Unseen,
           DropCaller, navVars, tabRendererVars
<1>19. ASSUME NEW w \in waiting, WaitDeadline(w) PROVE LoadedInv'
    BY <1>19, NothingUnseen
       DEF CoordInv, CoordShape, DocShape, LoadedInv, WaiterInv, DocRecord, Unseen,
           WaitDeadline, navVars, tabRendererVars
<1>20. CASE Resolve
    BY <1>20, NothingUnseen
       DEF CoordInv, CoordShape, DocShape, LoadedInv, WaiterInv, DocRecord, Unseen,
           Resolve, Request, RequestOk, RequestFails, MountFails, DropTabRenderer,
           navVars, tabRendererVars
<1>21. CASE WakeUp
    BY <1>21, NothingUnseen
       DEF CoordInv, CoordShape, DocShape, LoadedInv, WaiterInv, DocRecord, Unseen,
           WakeUp, navVars, tabRendererVars
<1>22. CASE Shutdown
    BY <1>22, NothingUnseen
       DEF CoordInv, CoordShape, DocShape, LoadedInv, WaiterInv, DocRecord, Unseen,
           Shutdown, DropTabRenderer, navVars, tabRendererVars
<1>23. CASE Completes
    BY <1>23, NothingUnseen
       DEF CoordInv, CoordShape, DocShape, LoadedInv, WaiterInv, DocRecord, Unseen,
           Completes, SendCommand, E, navVars, tabRendererVars
<1>24. ASSUME NEW u \in Urls \ DataUrls, NavigatesItself(u) PROVE LoadedInv'
    BY <1>24, NothingUnseen
       DEF CoordInv, CoordShape, DocShape, LoadedInv, WaiterInv, DocRecord, Unseen,
           NavigatesItself, SendCommand, E, navVars, tabRendererVars
<1>25. ASSUME NEW u \in Urls \ DataUrls, PushState(u) PROVE LoadedInv'
    BY <1>25, NothingUnseen
       DEF CoordInv, CoordShape, DocShape, LoadedInv, WaiterInv, DocRecord, Unseen,
           PushState, SendCommand, E, navVars, tabRendererVars
<1>26. ASSUME NEW c \in Calls, Settles(c) PROVE LoadedInv'
    BY <1>26, NothingUnseen
       DEF CoordInv, CoordShape, DocShape, LoadedInv, WaiterInv, DocRecord, Unseen,
           Settles, SendCommand, E, navVars, tabRendererVars
<1>27. CASE Dies
    BY <1>27, NothingUnseen
       DEF CoordInv, CoordShape, DocShape, LoadedInv, WaiterInv, DocRecord, Unseen,
           Dies, navVars, tabRendererVars
<1>28. CASE UNCHANGED coordVars
    BY <1>28
       DEF CoordInv, CoordShape, DocShape, LoadedInv, WaiterInv, DocRecord, Unseen,
           coordVars, navVars, tabRendererVars
<1> QED
    BY <1>1, <1>2, <1>3, <1>4, <1>5, <1>6, <1>7, <1>8, <1>9, <1>10, <1>11, <1>12, <1>13,
       <1>14, <1>15, <1>16, <1>17, <1>18, <1>19, <1>20, <1>21, <1>22, <1>23, <1>24,
       <1>25, <1>26, <1>27, <1>28
       DEF CoordNext, Wakes, Continues, Commands, Callers, Network, RendererStep

(* Who clears the flag has a Load ahead, or reports the failure. *)
LEMMA AheadStep ==
  ASSUME CoordInv, [CoordNext]_coordVars
  PROVE  AheadInv'
<1>1. ASSUME NEW u \in Urls, Goto(u) PROVE AheadInv'
    BY <1>1, NothingUnseen
       DEF CoordInv, CoordShape, NavShape, DocShape, AheadInv, WaiterInv, DocRecord,
           Unseen, NoNav, Goto, NextEpoch, navVars, tabRendererVars
<1>2. ASSUME NEW d \in docDials, NEW o \in (Urls \ DataUrls) \cup {Blank}, DialDone(d, o) PROVE AheadInv'
    BY <1>2, NothingUnseen
       DEF CoordInv, CoordShape, NavShape, DocShape, AheadInv, WaiterInv, DocRecord,
           Unseen, NoNav, DialDone, navVars, tabRendererVars
<1>3. ASSUME NEW d \in docDials, DialAborted(d) PROVE AheadInv'
    BY <1>3, NothingUnseen
       DEF CoordInv, CoordShape, NavShape, DocShape, AheadInv, WaiterInv, DocRecord,
           Unseen, NoNav, DialAborted, navVars, tabRendererVars
<1>4. CASE HandleNavigation
    BY <1>4, NothingUnseen
       DEF CoordInv, CoordShape, NavShape, DocShape, AheadInv, WaiterInv, DocRecord,
           Unseen, NoNav, HandleNavigation, Active, navVars, tabRendererVars
<1>5. CASE CommitMounts
    BY <1>5, NothingUnseen
       DEF CoordInv, CoordShape, NavShape, DocShape, AheadInv, WaiterInv, DocRecord,
           Unseen, NoNav, CommitMounts, Mount, navVars, tabRendererVars
<1>6. CASE CommitDone
    BY <1>6, NothingUnseen
       DEF CoordInv, CoordShape, NavShape, DocShape, AheadInv, WaiterInv, DocRecord,
           Unseen, NoNav, CommitDone, Over, DropTabRenderer, navVars, tabRendererVars
<1>7. CASE CommitFails
    BY <1>7, NothingUnseen
       DEF CoordInv, CoordShape, NavShape, DocShape, AheadInv, WaiterInv, DocRecord,
           Unseen, NoNav, CommitFails, Over, MountFails, DropTabRenderer, navVars,
           tabRendererVars
<1>8. CASE MountHtml
    BY <1>8, NothingUnseen
       DEF CoordInv, CoordShape, NavShape, DocShape, AheadInv, WaiterInv, DocRecord,
           Unseen, NoNav, MountHtml, Mount, MountFails, DropTabRenderer, navVars,
           tabRendererVars
<1>9. CASE LoadEvent
    BY <1>9, NothingUnseen
       DEF CoordInv, CoordShape, NavShape, DocShape, AheadInv, WaiterInv, DocRecord,
           Unseen, NoNav, LoadEvent, Event, NoGoal, navVars, tabRendererVars
<1>10. CASE LoadAnswer
    BY <1>10, NothingUnseen
       DEF CoordInv, CoordShape, NavShape, DocShape, AheadInv, WaiterInv, DocRecord,
           Unseen, NoNav, LoadAnswer, LoadTrue, NoGoal, DropTabRenderer, navVars,
           tabRendererVars
<1>11. CASE Navigated
  <2>1. tabEvents # <<>> /\ shownDoc' = shownDoc /\ Head(tabEvents).kind = "navigated" /\ at' = "resolve"
      BY <1>11 DEF Navigated, Event
  <2>2. CASE tabEvents' = Tail(tabEvents)
    <3>1. shownDoc.ready => Unseen("load")'
        BY <2>1, <2>2, OrderTaken DEF CoordInv, CoordShape, DocShape
    <3> QED BY <2>1, <3>1 DEF AheadInv
  <2>3. CASE renderer' = "none"
      BY <2>1, <2>3 DEF AheadInv
  <2> QED BY <1>11, <2>2, <2>3 DEF Navigated, AnswerFrameWaiters, DropTabRenderer
<1>12. CASE HistoryUpdated
  <2>1. /\ tabEvents # <<>> /\ tabEvents' = Tail(tabEvents) /\ Head(tabEvents).kind = "update"
        /\ at = "select" /\ at' = "resolve"
        /\ UNCHANGED <<shownDoc, renderer, loaded, failed, nav, missed>>
      BY <1>12 DEF HistoryUpdated, Event, navVars
  <2>2. (Unseen("navigated") => Unseen("navigated")') /\ (Unseen("load") => Unseen("load")')
      BY <2>1, EventTaken DEF CoordInv, CoordShape, DocShape
  <2> QED BY <2>1, <2>2 DEF CoordInv, AheadInv
<1>13. CASE WaiterSettled
  <2>1. /\ tabEvents # <<>> /\ tabEvents' = Tail(tabEvents) /\ Head(tabEvents).kind = "settled"
        /\ at = "select" /\ at' = "resolve"
        /\ UNCHANGED <<shownDoc, renderer, loaded, failed, nav, missed>>
      BY <1>13 DEF WaiterSettled, Event, navVars
  <2>2. (Unseen("navigated") => Unseen("navigated")') /\ (Unseen("load") => Unseen("load")')
      BY <2>1, EventTaken DEF CoordInv, CoordShape, DocShape
  <2> QED BY <2>1, <2>2 DEF CoordInv, AheadInv
<1>14. CASE RendererGone
    BY <1>14, NothingUnseen
       DEF CoordInv, CoordShape, NavShape, DocShape, AheadInv, WaiterInv, DocRecord,
           Unseen, NoNav, RendererGone, navVars, tabRendererVars
<1>15. ASSUME NEW c \in Calls, WaitLoad(c) PROVE AheadInv'
    BY <1>15, NothingUnseen
       DEF CoordInv, CoordShape, NavShape, DocShape, AheadInv, WaiterInv, DocRecord,
           Unseen, NoNav, WaitLoad, Waiter, navVars, tabRendererVars
<1>16. ASSUME NEW c \in Calls, WaitJs(c) PROVE AheadInv'
    BY <1>16, NothingUnseen
       DEF CoordInv, CoordShape, NavShape, DocShape, AheadInv, WaiterInv, DocRecord,
           Unseen, NoNav, WaitJs, Waiter, RequestOk, RequestFails, MountFails,
           DropTabRenderer, navVars, tabRendererVars
<1>17. CASE Execute
    BY <1>17, NothingUnseen
       DEF CoordInv, CoordShape, NavShape, DocShape, AheadInv, WaiterInv, DocRecord,
           Unseen, NoNav, Execute, Request, RequestOk, RequestFails, MountFails,
           DropTabRenderer, navVars, tabRendererVars
<1>18. ASSUME NEW c \in Calls, DropCaller(c) PROVE AheadInv'
    BY <1>18, NothingUnseen
       DEF CoordInv, CoordShape, NavShape, DocShape, AheadInv, WaiterInv, DocRecord,
           Unseen, NoNav, DropCaller, navVars, tabRendererVars
<1>19. ASSUME NEW w \in waiting, WaitDeadline(w) PROVE AheadInv'
    BY <1>19, NothingUnseen
       DEF CoordInv, CoordShape, NavShape, DocShape, AheadInv, WaiterInv, DocRecord,
           Unseen, NoNav, WaitDeadline, navVars, tabRendererVars
<1>20. CASE Resolve
    BY <1>20, NothingUnseen
       DEF CoordInv, CoordShape, NavShape, DocShape, AheadInv, WaiterInv, DocRecord,
           Unseen, NoNav, Resolve, Request, RequestOk, RequestFails, MountFails,
           DropTabRenderer, navVars, tabRendererVars
<1>21. CASE WakeUp
    BY <1>21, NothingUnseen
       DEF CoordInv, CoordShape, NavShape, DocShape, AheadInv, WaiterInv, DocRecord,
           Unseen, NoNav, WakeUp, navVars, tabRendererVars
<1>22. CASE Shutdown
    BY <1>22, NothingUnseen
       DEF CoordInv, CoordShape, NavShape, DocShape, AheadInv, WaiterInv, DocRecord,
           Unseen, NoNav, Shutdown, DropTabRenderer, navVars, tabRendererVars
<1>23. CASE Completes
    BY <1>23, NothingUnseen
       DEF CoordInv, CoordShape, NavShape, DocShape, AheadInv, WaiterInv, DocRecord,
           Unseen, NoNav, Completes, SendCommand, E, navVars, tabRendererVars
<1>24. ASSUME NEW u \in Urls \ DataUrls, NavigatesItself(u) PROVE AheadInv'
    BY <1>24, NothingUnseen
       DEF CoordInv, CoordShape, NavShape, DocShape, AheadInv, WaiterInv, DocRecord,
           Unseen, NoNav, NavigatesItself, SendCommand, E, navVars, tabRendererVars
<1>25. ASSUME NEW u \in Urls \ DataUrls, PushState(u) PROVE AheadInv'
    BY <1>25, NothingUnseen
       DEF CoordInv, CoordShape, NavShape, DocShape, AheadInv, WaiterInv, DocRecord,
           Unseen, NoNav, PushState, SendCommand, E, navVars, tabRendererVars
<1>26. ASSUME NEW c \in Calls, Settles(c) PROVE AheadInv'
    BY <1>26, NothingUnseen
       DEF CoordInv, CoordShape, NavShape, DocShape, AheadInv, WaiterInv, DocRecord,
           Unseen, NoNav, Settles, SendCommand, E, navVars, tabRendererVars
<1>27. CASE Dies
    BY <1>27, NothingUnseen
       DEF CoordInv, CoordShape, NavShape, DocShape, AheadInv, WaiterInv, DocRecord,
           Unseen, NoNav, Dies, navVars, tabRendererVars
<1>28. CASE UNCHANGED coordVars
    BY <1>28
       DEF CoordInv, CoordShape, NavShape, DocShape, AheadInv, WaiterInv, DocRecord,
           Unseen, NoNav, coordVars, navVars, tabRendererVars
<1> QED
    BY <1>1, <1>2, <1>3, <1>4, <1>5, <1>6, <1>7, <1>8, <1>9, <1>10, <1>11, <1>12, <1>13,
       <1>14, <1>15, <1>16, <1>17, <1>18, <1>19, <1>20, <1>21, <1>22, <1>23, <1>24,
       <1>25, <1>26, <1>27, <1>28
       DEF CoordNext, Wakes, Continues, Commands, Callers, Network, RendererStep

-----------------------------------------------------------------------------
(* A tab without a navigation, a renderer or a caller. *)
LEMMA CoordInitial == CoordInit => CoordInv
<1> SUFFICES ASSUME CoordInit PROVE CoordInv
    OBVIOUS
<1>1. NavShape
  <2>1. 0 \in 0..MaxEpoch /\ 0 \in Nat
      BY CoordinatorAssumption DEF CoordinatorAssumption
  <2>2. <<>> \in Seq(NavRecord) /\ "select" \in Stages
      BY DEF Stages
  <2> QED BY <2>1, <2>2, NavTyped DEF CoordInit, NavShape, NoGoal
<1>2. DocShape
    BY NavTyped, DocTyped DEF CoordInit, DocShape
<1>3. CallShape
    BY DEF CoordInit, CallShape
<1>4. EpochInv
    BY DEF CoordInit, EpochInv, NewestCommits
<1>5. WaiterInv
    BY DEF CoordInit, WaiterInv
<1>6. OrderInv /\ LoadedInv /\ AheadInv
    BY DEF CoordInit, OrderInv, LoadedInv, AheadInv
<1> QED BY <1>1, <1>2, <1>3, <1>4, <1>5, <1>6 DEF CoordInv, CoordShape

(* The invariant the theorems below are read off. *)
THEOREM CoordInvariant == CoordSpec => []CoordInv
<1>1. CoordInv /\ [CoordNext]_coordVars => CoordInv'
  <2> SUFFICES ASSUME CoordInv, [CoordNext]_coordVars PROVE CoordInv'
      OBVIOUS
  <2>1. CoordShape'
      BY NavShapeStep, DocShapeStep, CallShapeStep DEF CoordShape
  <2> QED BY <2>1, EpochStep, WaiterStep, OrderStep, LoadedStep, AheadStep DEF CoordInv
<1> QED BY CoordInitial, <1>1, PTL DEF CoordSpec

(* TabCoordinator keeps its types, a waiter for every caller that is kept,  *)
(* and no event of a renderer that was dropped.                             *)
THEOREM CoordTypeCorrect == CoordSpec => []CoordTypeOK
<1>1. CoordInv => CoordTypeOK
  <2> SUFFICES ASSUME CoordInv PROVE CoordTypeOK
      OBVIOUS
  <2>1. nav.url \in Shown /\ goal.url \in Shown
      BY NavTyped DEF CoordInv, CoordShape, NavShape
  <2>2. nav.epoch \in 0..MaxEpoch /\ epoch \in 0..gotos
      BY CoordinatorAssumption
         DEF CoordinatorAssumption, CoordInv, CoordShape, NavShape, EpochInv, NoNav
  <2>3. \A i \in 1..Len(tabEvents) : tabEvents[i].kind \in Kinds
      BY EventTyped DEF CoordInv, CoordShape, DocShape
  <2> QED BY <2>1, <2>2, <2>3
          DEF CoordInv, CoordShape, NavShape, DocShape, CallShape, WaiterInv, WaiterRecord,
              CoordTypeOK
<1> QED BY <1>1, CoordInvariant, PTL

(* handle_navigation: of the dials that complete, in whatever order and     *)
(* however late, only the one of the newest navigation is committed.        *)
THEOREM OnlyNewestCommits == CoordSpec => []NewestCommits
<1>1. CoordInv => NewestCommits
    BY DEF CoordInv, EpochInv
<1> QED BY <1>1, CoordInvariant, PTL

(* The load state: a tab that says it is loaded shows a complete document,  *)
(* whatever the renderer replaces while its events are on their way.        *)
THEOREM LoadedHolds == CoordSpec => []LoadedIsTrue
<1>1. CoordInv => LoadedIsTrue
    BY DEF CoordInv, LoadedInv, LoadedIsTrue, Quiet
<1> QED BY <1>1, CoordInvariant, PTL

(* The Load event: once those of a complete document are handled, and none  *)
(* was filtered out, the tab no longer waits for a load.                    *)
THEOREM NoLoadLost == CoordSpec => []LoadNotLost
<1>1. CoordInv => LoadNotLost
    BY DEF CoordInv, AheadInv, LoadNotLost, Quiet, WaitingForLoad
<1> QED BY <1>1, CoordInvariant, PTL

(* A tab commits the newest navigation only, and what it says of the load   *)
(* is true of the document it shows.                                        *)
THEOREM CoordinatorIsSafe == CoordSpec => []CoordinatorSafe
BY CoordTypeCorrect, OnlyNewestCommits, LoadedHolds, NoLoadLost, PTL DEF CoordinatorSafe

(***************************************************************************)
(* The response streams.                                                    *)
(***************************************************************************)

(***************************************************************************)
(* Frames.  Every frame names its upload, and a release its assignment.     *)
(***************************************************************************)

CallFrame == [t : {"call"}, id : Nat, asg : Asg]
ChunkFrame == [t : {"chunk"}, id : Nat, n : Nat]
EndFrame == [t : {"end"}, id : Nat, ok : BOOLEAN]
ReleaseFrame == [t : {"release"}, id : {0}, asg : Asg]
UploadFrame == CallFrame \cup ChunkFrame \cup EndFrame
DataFrame == UploadFrame \cup ReleaseFrame
CancelFrame == [t : {"cancel"}, id : Nat]
Lanes == [control : Seq(CancelFrame), data : Seq(DataFrame)]

UploadRecord == [asg : Asg, sent : Nat, st : {"open", "ended", "dropped", "answered"}]
BodyRecord == [id : Nat, got : Nat, st : {"none", "open", "complete", "aborted"}]

(* The data frames under way, the older ones first, as one queue; carrying  *)
(* a frame over does not change it.  The cancels are the other queue.       *)
Frames == inLane.data \o outLane.data
Cancels == inLane.control \o outLane.control
Elems(s) == {s[i] : i \in 1..Len(s)}
Pairs(s) == {p \in Elems(s) \X Elems(s) : \E i, j \in 1..Len(s) : i < j /\ s[i] = p[1] /\ s[j] = p[2]}
Queued == Elems(Frames)
Ordered == Pairs(Frames)
Cancelled == Elems(Cancels)
(* Cancels still on the first lane, data frames already on the second.      *)
Behind == Elems(outLane.control)
Across == Elems(inLane.data)

----------------------------------------------------------------------------
(* The invariant. *)

ResponseShape ==
    /\ up \in Seq(UploadRecord) /\ current \in [Asg -> Nat]
    /\ outLane \in Lanes /\ inLane \in Lanes
    /\ engines \subseteq Asg
    /\ DOMAIN streams \subseteq UploadIds /\ streams = [id \in DOMAIN streams |-> streams[id]]
    /\ \A id \in DOMAIN streams : streams[id] \in [asg : {up[id].asg}, n : 0..BodyLimit]
    /\ tomb \in Seq(UploadIds) /\ Len(tomb) <= TombLimit /\ evicted \subseteq UploadIds
    /\ replies \in Seq(Seq({"ok", "error"})) /\ Len(replies) = Len(up)
    /\ docOf \in [Asg -> BodyRecord]

(* The upload of a tab is its newest, and the only one not over.            *)
CurrentInv ==
    /\ \A a \in Asg : current[a] # 0 =>
          current[a] \in UploadIds /\ up[current[a]].asg = a /\ up[current[a]].st \in {"open", "ended"}
    /\ \A id \in UploadIds : up[id].st \in {"open", "ended"} => current[up[id].asg] = id
    /\ \A id \in UploadIds : current[up[id].asg] # 0 => id <= current[up[id].asg]

(* What is under way was sent.                                              *)
FrameInv ==
    \A f \in Queued : f.t # "release" =>
        /\ f.id \in UploadIds /\ up[f.id].asg \in engines
        /\ f.t = "call" => f.asg = up[f.id].asg
        /\ f.t = "chunk" => f.n \in 1..up[f.id].sent
        /\ f.t = "end" => up[f.id].st # "open"

(* A tab that is released has no upload and sends nothing after it.         *)
ReleaseInv ==
    /\ \A f \in Queued : f.t = "release" => f.asg \in engines /\ current[f.asg] = 0
    /\ \A a \in Asg \ engines : current[a] = 0

Sooner(f, g) ==
    \/ f.t = "call" /\ g.t \in {"chunk", "end"}
    \/ f.t = "chunk" /\ g.t = "end"
    \/ f.t = "chunk" /\ g.t = "chunk" /\ f.n < g.n
(* The frames of a tab are in the order of its uploads, and those of an     *)
(* upload are its call, its chunks as they were written and its end.        *)
Before(f, g) ==
    /\ f.t = "release" /\ g.t = "release" => f.asg # g.asg
    /\ f.t = "release" /\ g.t # "release" => up[g.id].asg # f.asg
    /\ f.t # "release" /\ g.t # "release" /\ up[f.id].asg = up[g.id].asg =>
          f.id < g.id \/ (f.id = g.id /\ Sooner(f, g))
SentInOrder == \A p \in Ordered : Before(p[1], p[2])

Chunk(id, m) == [t |-> "chunk", id |-> id, n |-> m]
(* Nothing is lost on the way: what a call that was not handled yet, or a   *)
(* stream, still waits for is under way.                                    *)
WholeCalls ==
    \A f \in Queued : f.t = "call" =>
        /\ f.id \notin DOMAIN streams /\ replies[f.id] = <<>>
        /\ \A m \in 1..up[f.id].sent : Chunk(f.id, m) \in Queued
StreamWhole(id) ==
    /\ replies[id] = <<>> /\ streams[id].n <= up[id].sent
    /\ \A m \in (streams[id].n + 1)..up[id].sent : Chunk(id, m) \in Queued
    /\ \A f \in Queued : f.t = "chunk" /\ f.id = id => f.n > streams[id].n
WholeStreams == \A id \in DOMAIN streams : StreamWhole(id)
WholeInv == WholeCalls /\ WholeStreams

(* The document of a tab is about the newest upload that reached the child, *)
(* it is open exactly as long as the stream, and has what the stream has.   *)
DocumentOwned ==
    \A a \in Asg : /\ docOf[a].id # 0 => docOf[a].id \in UploadIds /\ up[docOf[a].id].asg = a
                   /\ docOf[a].st = "open" => docOf[a].id \in DOMAIN streams
DocumentNewest ==
    /\ \A f \in Queued : f.t # "release" => docOf[up[f.id].asg].id <= f.id
    /\ \A f \in Queued : f.t = "call" => docOf[up[f.id].asg].id # f.id
HasDocument(id) ==
    /\ id <= docOf[up[id].asg].id
    /\ docOf[up[id].asg].id = id => docOf[up[id].asg].st = "open" /\ docOf[up[id].asg].got = streams[id].n
DocumentStreams == \A id \in DOMAIN streams : HasDocument(id)
DocumentInv == DocumentOwned /\ DocumentNewest /\ DocumentStreams

(* Answers: an upload that ended has its answer or its end is under way,    *)
(* and after an Ok there is nothing left of it.                             *)
AnswerDue ==
    \A id \in UploadIds :
        /\ up[id].st = "ended" => replies[id] # <<>> \/ \E f \in Queued : f.t = "end" /\ f.id = id
        /\ up[id].st = "answered" => replies[id] # <<>>
AnswerLast ==
    \A id \in UploadIds : replies[id] # <<>> /\ replies[id][1] = "ok" =>
        up[id].st # "open" /\ \A f \in Queued : f.t # "release" => f.id # id
AnswerInv == AnswerDue /\ AnswerLast /\ OkMeansMounted

(* A dropped upload is cancelled, and remembered until the limit; only      *)
(* uploads that are over or answered have a tombstone.                      *)
TombDropped ==
    \A id \in UploadIds : up[id].st = "dropped" =>
        \/ \E c \in Cancelled : c.id = id
        \/ id \in Elems(tomb) \cup evicted
TombOver ==
    \A id \in Elems(tomb) :
        id \notin DOMAIN streams /\ (up[id].st \in {"dropped", "answered"} \/ replies[id] # <<>>)
TombInv == TombDropped /\ TombOver

(* A cancel overtakes data, so it is there before the next upload of its    *)
(* tab, and finds the document it is about.                                 *)
CancelOwn ==
    \A c \in Cancelled : c.id \in UploadIds /\ up[c.id].st = "dropped" /\ docOf[up[c.id].asg].id <= c.id
CancelFirst ==
    \A c \in Behind, f \in Across : f.t # "release" /\ up[f.id].asg = up[c.id].asg => f.id <= c.id
CancelInv == CancelOwn /\ CancelFirst

ResponseInv ==
    /\ ResponseShape /\ CurrentInv /\ FrameInv /\ ReleaseInv /\ SentInOrder
    /\ WholeInv /\ DocumentInv /\ AnswerInv /\ TombInv /\ CancelInv

----------------------------------------------------------------------------
(* Queues as sets. *)

(* Putting an element at the end.                                           *)
LEMMA PushElems ==
    ASSUME NEW S, NEW s \in Seq(S), NEW e \in S
    PROVE  /\ Append(s, e) \in Seq(S) /\ Elems(Append(s, e)) = Elems(s) \cup {e}
           /\ Pairs(Append(s, e)) \subseteq Pairs(s) \cup (Elems(s) \X {e})
<1> DEFINE t == Append(s, e)
<1>1. Len(s) \in Nat /\ t \in Seq(S) /\ Len(t) = Len(s) + 1 /\ t[Len(s) + 1] = e /\ \A i \in 1..Len(s) : t[i] = s[i]
    OBVIOUS
<1> HIDE DEF t
<1>2. 1..Len(t) = (1..Len(s)) \cup {Len(s) + 1}
    BY <1>1
<1>3. Elems(t) = Elems(s) \cup {e}
    BY <1>1, <1>2 DEF Elems
<1>4. ASSUME NEW p \in Pairs(t) PROVE p \in Pairs(s) \cup (Elems(s) \X {e})
  <2>1. PICK i \in 1..Len(t), j \in 1..Len(t) : i < j /\ t[i] = p[1] /\ t[j] = p[2]
    BY <1>4 DEF Pairs
  <2>2. p = <<p[1], p[2]>>
    BY <1>4 DEF Pairs
  <2>3. i \in 1..Len(s) /\ t[i] = s[i]
    BY <1>1, <1>2, <2>1
  <2>4. CASE j \in 1..Len(s)
    BY <1>1, <2>1, <2>2, <2>3, <2>4 DEF Pairs, Elems
  <2>5. CASE j = Len(s) + 1
    BY <1>1, <2>1, <2>2, <2>3, <2>5 DEF Elems
  <2> QED BY <1>2, <2>4, <2>5
<1> QED BY <1>1, <1>3, <1>4 DEF t

(* Taking the first one.                                                    *)
LEMMA PopElems ==
    ASSUME NEW S, NEW s \in Seq(S), s # <<>>
    PROVE  /\ Tail(s) \in Seq(S) /\ Head(s) \in S /\ Head(s) \in Elems(s)
           /\ Elems(Tail(s)) \cup {Head(s)} = Elems(s) /\ Pairs(Tail(s)) \subseteq Pairs(s)
           /\ \A g \in Elems(Tail(s)) : <<Head(s), g>> \in Pairs(s)
<1> DEFINE t == Tail(s)
           e == Head(s)
<1>1. /\ Len(s) \in Nat \ {0} /\ t \in Seq(S) /\ e \in S /\ Len(t) = Len(s) - 1 /\ e = s[1]
      /\ \A i \in 1..Len(t) : t[i] = s[i + 1]
    OBVIOUS
<1> HIDE DEF t, e
<1>2. \A i \in 1..Len(s) : i = 1 \/ i - 1 \in 1..Len(t)
    BY <1>1
<1>3. \A i \in 1..Len(t) : i + 1 \in 1..Len(s)
    BY <1>1
<1>4. 1 \in 1..Len(s)
    BY <1>1
<1>5. e \in Elems(s)
    BY <1>1, <1>4 DEF Elems
<1>6. Elems(t) \subseteq Elems(s)
    BY <1>1, <1>3 DEF Elems
<1>7. ASSUME NEW x \in Elems(s), x # e PROVE x \in Elems(t)
  <2>1. PICK i \in 1..Len(s) : x = s[i]
    BY DEF Elems
  <2>2. i - 1 \in 1..Len(t) /\ t[i - 1] = s[i]
    <3>1. i - 1 \in 1..Len(t)
      BY <2>1, <1>7, <1>1, <1>2
    <3> QED BY <3>1, <1>1
  <2> QED BY <2>1, <2>2 DEF Elems
<1>8. ASSUME NEW p \in Pairs(t) PROVE p \in Pairs(s)
  <2>1. PICK i \in 1..Len(t), j \in 1..Len(t) : i < j /\ t[i] = p[1] /\ t[j] = p[2]
    BY <1>8 DEF Pairs
  <2>2. i + 1 \in 1..Len(s) /\ j + 1 \in 1..Len(s) /\ i + 1 < j + 1 /\ s[i + 1] = p[1] /\ s[j + 1] = p[2]
    BY <1>1, <1>3, <2>1
  <2>3. p \in Elems(s) \X Elems(s)
    BY <1>8, <1>6 DEF Pairs
  <2> QED BY <2>2, <2>3 DEF Pairs
<1>9. ASSUME NEW g \in Elems(t) PROVE <<e, g>> \in Pairs(s)
  <2>1. PICK i \in 1..Len(t) : g = t[i]
    BY <1>9 DEF Elems
  <2>2. i + 1 \in 1..Len(s) /\ 1 < i + 1 /\ s[i + 1] = g
    BY <1>1, <1>3, <2>1
  <2>3. <<e, g>> \in Elems(s) \X Elems(s)
    BY <1>5, <1>6, <1>9
  <2> QED BY <1>1, <1>4, <2>2, <2>3 DEF Pairs
<1> QED BY <1>1, <1>5, <1>6, <1>7, <1>8, <1>9 DEF t, e

(* The two parts of a queue.                                                *)
LEMMA ConcatElems ==
    ASSUME NEW S, NEW s \in Seq(S), NEW t \in Seq(S)
    PROVE  s \o t \in Seq(S) /\ Elems(s \o t) = Elems(s) \cup Elems(t)
<1> DEFINE u == s \o t
<1>1. /\ Len(s) \in Nat /\ Len(t) \in Nat /\ u \in Seq(S) /\ Len(u) = Len(s) + Len(t)
      /\ \A i \in 1..Len(u) : u[i] = IF i <= Len(s) THEN s[i] ELSE t[i - Len(s)]
    BY ConcatProperties
<1> HIDE DEF u
<1>2. ASSUME NEW x \in Elems(u) PROVE x \in Elems(s) \cup Elems(t)
  <2>1. PICK i \in 1..Len(u) : x = u[i]
    BY <1>2 DEF Elems
  <2>2. CASE i <= Len(s)
    BY <1>1, <2>1, <2>2 DEF Elems
  <2>3. CASE ~(i <= Len(s))
    <3>1. i - Len(s) \in 1..Len(t)
      BY <1>1, <2>1, <2>3
    <3> QED BY <1>1, <2>1, <2>3, <3>1 DEF Elems
  <2> QED BY <2>2, <2>3
<1>3. ASSUME NEW x \in Elems(s) PROVE x \in Elems(u)
  <2>1. PICK i \in 1..Len(s) : x = s[i]
    BY <1>3 DEF Elems
  <2>2. i \in 1..Len(u) /\ u[i] = x
    BY <1>1, <2>1
  <2> QED BY <2>2 DEF Elems
<1>4. ASSUME NEW x \in Elems(t) PROVE x \in Elems(u)
  <2>1. PICK i \in 1..Len(t) : x = t[i]
    BY <1>4 DEF Elems
  <2>2. i + Len(s) \in 1..Len(u) /\ ~(i + Len(s) <= Len(s)) /\ i + Len(s) - Len(s) = i
    BY <1>1, <2>1
  <2>3. u[i + Len(s)] = x
    BY <1>1, <2>1, <2>2
  <2> QED BY <2>2, <2>3 DEF Elems
<1> QED BY <1>1, <1>2, <1>3, <1>4 DEF u

(* A frame is put on the first lane, goes from one to the other, is taken   *)
(* from the second.                                                         *)
LEMMA ConcatPush ==
    ASSUME NEW S, NEW s \in Seq(S), NEW t \in Seq(S), NEW e \in S
    PROVE  s \o Append(t, e) = Append(s \o t, e)
<1> DEFINE u == s \o Append(t, e)
           v == Append(s \o t, e)
<1>1. Len(s) \in Nat /\ Len(t) \in Nat /\ Append(t, e) \in Seq(S) /\ Len(Append(t, e)) = Len(t) + 1
    OBVIOUS
<1>2. /\ u \in Seq(S) /\ Len(u) = Len(s) + Len(t) + 1
      /\ \A i \in 1..Len(u) : u[i] = IF i <= Len(s) THEN s[i] ELSE Append(t, e)[i - Len(s)]
  <2> DEFINE r == Append(t, e)
  <2> HIDE DEF r
  <2>1. r \in Seq(S) /\ Len(r) = Len(t) + 1
    BY <1>1 DEF r
  <2>2. /\ s \o r \in Seq(S) /\ Len(s \o r) = Len(s) + Len(r)
        /\ \A i \in 1..(Len(s) + Len(r)) : (s \o r)[i] = IF i <= Len(s) THEN s[i] ELSE r[i - Len(s)]
    BY <2>1, ConcatProperties
  <2>3. Len(s) + Len(r) = Len(s) + Len(t) + 1
    BY <1>1, <2>1
  <2> QED BY <2>2, <2>3 DEF r
<1>3. /\ s \o t \in Seq(S) /\ Len(s \o t) = Len(s) + Len(t)
      /\ \A i \in 1..(Len(s) + Len(t)) : (s \o t)[i] = IF i <= Len(s) THEN s[i] ELSE t[i - Len(s)]
    BY ConcatProperties
<1>4. v \in Seq(S) /\ Len(v) = Len(s) + Len(t) + 1
    BY <1>1, <1>3
<1>5. ASSUME NEW i \in 1..Len(u) PROVE u[i] = v[i]
  <2>1. CASE i <= Len(s) + Len(t)
    <3>1. v[i] = (s \o t)[i]
      BY <1>1, <1>2, <1>3, <2>1
    <3>2. ~(i <= Len(s)) => Append(t, e)[i - Len(s)] = t[i - Len(s)]
      BY <1>1, <1>2, <2>1
    <3> QED BY <1>1, <1>2, <1>3, <2>1, <3>1, <3>2
  <2>2. CASE i = Len(s) + Len(t) + 1
    <3>1. v[i] = e
      BY <1>1, <1>3, <2>2
    <3>2. Append(t, e)[i - Len(s)] = e
      BY <1>1, <2>2
    <3> QED BY <1>1, <1>2, <2>2, <3>1, <3>2
  <2> QED BY <1>1, <1>2, <2>1, <2>2
<1> HIDE DEF u, v
<1>6. u = v
    BY <1>2, <1>4, <1>5, SeqEqual
<1> QED BY <1>6 DEF u, v

LEMMA ConcatMove ==
    ASSUME NEW S, NEW s \in Seq(S), NEW t \in Seq(S), t # <<>>
    PROVE  Append(s, Head(t)) \o Tail(t) = s \o t
<1> DEFINE b == Append(s, Head(t))
           u == b \o Tail(t)
           v == s \o t
<1>1. /\ Len(s) \in Nat /\ Len(t) \in Nat \ {0} /\ b \in Seq(S) /\ Len(b) = Len(s) + 1
      /\ Tail(t) \in Seq(S) /\ Len(Tail(t)) = Len(t) - 1 /\ b[Len(s) + 1] = t[1]
      /\ \A i \in 1..Len(s) : b[i] = s[i]
      /\ \A i \in 1..(Len(t) - 1) : Tail(t)[i] = t[i + 1]
    OBVIOUS
<1> HIDE DEF b
<1>2. /\ u \in Seq(S) /\ Len(u) = Len(b) + Len(Tail(t))
      /\ \A i \in 1..(Len(b) + Len(Tail(t))) : u[i] = IF i <= Len(b) THEN b[i] ELSE Tail(t)[i - Len(b)]
    BY <1>1, ConcatProperties
<1>3. /\ v \in Seq(S) /\ Len(v) = Len(s) + Len(t)
      /\ \A i \in 1..(Len(s) + Len(t)) : v[i] = IF i <= Len(s) THEN s[i] ELSE t[i - Len(s)]
    BY ConcatProperties
<1> HIDE DEF u, v
<1>4. Len(u) = Len(v)
    BY <1>1, <1>2, <1>3
<1>5. ASSUME NEW i \in 1..Len(u) PROVE u[i] = v[i]
  <2>0. i \in 1..(Len(b) + Len(Tail(t))) /\ i \in 1..(Len(s) + Len(t))
    BY <1>2, <1>3, <1>4
  <2>1. CASE i <= Len(s)
    <3>1. i <= Len(b) /\ i \in 1..Len(s)
      BY <1>1, <2>0, <2>1
    <3>2. u[i] = b[i] /\ v[i] = s[i]
      BY <1>2, <1>3, <2>0, <2>1, <3>1
    <3> QED BY <1>1, <3>1, <3>2
  <2>2. CASE i = Len(s) + 1
    <3>1. i <= Len(b) /\ ~(i <= Len(s)) /\ i - Len(s) = 1
      BY <1>1, <2>2
    <3>2. u[i] = b[i] /\ v[i] = t[i - Len(s)]
      BY <1>2, <1>3, <2>0, <3>1
    <3> QED BY <1>1, <2>2, <3>1, <3>2
  <2>3. CASE i > Len(s) + 1
    <3>1. i - Len(b) \in 1..(Len(t) - 1) /\ i - Len(b) + 1 = i - Len(s)
      BY <1>1, <1>2, <2>3
    <3>2. u[i] = Tail(t)[i - Len(b)] /\ v[i] = t[i - Len(s)]
      BY <1>1, <1>2, <1>3, <2>3
    <3> QED BY <1>1, <3>1, <3>2
  <2> QED BY <1>1, <1>2, <2>1, <2>2, <2>3
<1>6. u = v
    BY <1>2, <1>3, <1>4, <1>5, SeqEqual
<1> QED BY <1>6 DEF u, v, b

LEMMA ConcatPop ==
    ASSUME NEW S, NEW s \in Seq(S), NEW t \in Seq(S), s # <<>>
    PROVE  s \o t # <<>> /\ Head(s \o t) = Head(s) /\ Tail(s \o t) = Tail(s) \o t
<1> DEFINE v == s \o t
           u == Tail(s) \o t
<1>1. /\ Len(s) \in Nat \ {0} /\ Len(t) \in Nat /\ Tail(s) \in Seq(S) /\ Len(Tail(s)) = Len(s) - 1 /\ Head(s) = s[1]
      /\ \A i \in 1..(Len(s) - 1) : Tail(s)[i] = s[i + 1]
    OBVIOUS
<1>2. /\ v \in Seq(S) /\ Len(v) = Len(s) + Len(t)
      /\ \A i \in 1..(Len(s) + Len(t)) : v[i] = IF i <= Len(s) THEN s[i] ELSE t[i - Len(s)]
    BY ConcatProperties
<1>3. /\ u \in Seq(S) /\ Len(u) = Len(Tail(s)) + Len(t)
      /\ \A i \in 1..(Len(Tail(s)) + Len(t)) : u[i] = IF i <= Len(Tail(s)) THEN Tail(s)[i] ELSE t[i - Len(Tail(s))]
    BY <1>1, ConcatProperties
<1> HIDE DEF u, v
<1>4. v # <<>> /\ Head(v) = Head(s)
    BY <1>1, <1>2
<1>5. Tail(v) \in Seq(S) /\ Len(Tail(v)) = Len(v) - 1 /\ \A i \in 1..(Len(v) - 1) : Tail(v)[i] = v[i + 1]
    BY <1>2, <1>4
<1>6. ASSUME NEW i \in 1..Len(u) PROVE Tail(v)[i] = u[i]
  <2>0. i + 1 \in 1..(Len(s) + Len(t)) /\ Tail(v)[i] = v[i + 1]
    BY <1>1, <1>2, <1>3, <1>5
  <2>1. CASE i <= Len(s) - 1
    BY <1>1, <1>2, <1>3, <2>0, <2>1
  <2>2. CASE ~(i <= Len(s) - 1)
    <3>1. v[i + 1] = t[i + 1 - Len(s)]
      BY <1>1, <1>2, <1>3, <2>0, <2>2
    <3>2. u[i] = t[i - Len(Tail(s))] /\ i - Len(Tail(s)) = i + 1 - Len(s)
      BY <1>1, <1>3, <2>2
    <3> QED BY <2>0, <3>1, <3>2
  <2> QED BY <2>1, <2>2
<1>7. Len(u) = Len(Tail(v))
    BY <1>1, <1>2, <1>3, <1>5
<1>8. Tail(v) = u
    BY <1>3, <1>5, <1>6, <1>7, SeqEqual
<1> QED BY <1>4, <1>8 DEF u, v

----------------------------------------------------------------------------
(* What the steps do to the queues. *)

Puts(f) ==
    /\ Queued' = Queued \cup {f} /\ Ordered' \subseteq Ordered \cup (Queued \X {f})
    /\ Cancelled' = Cancelled /\ Behind' = Behind /\ Across' = Across
Overtakes(c) ==
    /\ Queued' = Queued /\ Ordered' = Ordered
    /\ Cancelled' = Cancelled \cup {c} /\ Behind' = Behind \cup {c} /\ Across' = Across
Carries ==
    /\ Queued' = Queued /\ Ordered' = Ordered /\ Cancelled' = Cancelled
    /\ Behind' \subseteq Behind /\ (Behind = {} \/ Across' = Across)
Takes(f) ==
    /\ f \in Queued /\ f \in Across /\ Queued' \cup {f} = Queued
    /\ (\A g \in Queued' : <<f, g>> \in Ordered) /\ Ordered' \subseteq Ordered
    /\ Cancelled = Behind /\ Cancelled' = Cancelled /\ Behind' = Behind /\ Across' \subseteq Across
Hears(c) ==
    /\ Queued' = Queued /\ Ordered' = Ordered
    /\ c \in Cancelled /\ Cancelled' \cup {c} = Cancelled /\ Behind' = Behind /\ Across' = Across

LanesOk == outLane \in Lanes /\ inLane \in Lanes

(* The kinds of frames.                                                     *)
LEMMA FrameKinds ==
    /\ \A f \in DataFrame : f.t # "cancel" /\ f.id \in Nat
    /\ \A f \in CancelFrame : f.t = "cancel" /\ f.id \in Nat
    /\ \A f \in DataFrame : f.t = "call" => f \in CallFrame
    /\ \A f \in DataFrame : f.t = "chunk" => f \in ChunkFrame
    /\ \A f \in DataFrame : f.t = "end" => f \in EndFrame
    /\ \A f \in DataFrame : f.t = "release" => f \in ReleaseFrame
    /\ \A f \in DataFrame : f.t \in {"call", "chunk", "end", "release"}
BY DEF DataFrame, UploadFrame, CallFrame, ChunkFrame, EndFrame, ReleaseFrame, CancelFrame

LEMMA EnqueueData ==
    ASSUME NEW lane \in Lanes, NEW f \in DataFrame
    PROVE  Enqueue(lane, f) = [control |-> lane.control, data |-> Append(lane.data, f)]
<1>1. Queue(f) = "data"
    BY FrameKinds DEF Queue
<1>2. Enqueue(lane, f) = [lane EXCEPT !["data"] = Append(@, f)]
    BY <1>1 DEF Enqueue
<1> QED BY <1>2 DEF Lanes

LEMMA EnqueueControl ==
    ASSUME NEW lane \in Lanes, NEW c \in CancelFrame
    PROVE  Enqueue(lane, c) = [control |-> Append(lane.control, c), data |-> lane.data]
<1>1. Queue(c) = "control"
    BY FrameKinds DEF Queue
<1>2. Enqueue(lane, c) = [lane EXCEPT !["control"] = Append(@, c)]
    BY <1>1 DEF Enqueue
<1> QED BY <1>2 DEF Lanes

(* What is queued has its type.                                             *)
LEMMA QueuedTyped ==
    ASSUME LanesOk
    PROVE  /\ Queued \subseteq DataFrame /\ Cancelled \subseteq CancelFrame
           /\ Frames \in Seq(DataFrame) /\ Cancels \in Seq(CancelFrame)
           /\ inLane.data \in Seq(DataFrame) /\ outLane.data \in Seq(DataFrame)
           /\ inLane.control \in Seq(CancelFrame) /\ outLane.control \in Seq(CancelFrame)
           /\ Cancelled = Elems(inLane.control) \cup Behind /\ Queued = Across \cup Elems(outLane.data)
<1>1. /\ inLane.data \in Seq(DataFrame) /\ outLane.data \in Seq(DataFrame)
      /\ inLane.control \in Seq(CancelFrame) /\ outLane.control \in Seq(CancelFrame)
    BY DEF LanesOk, Lanes
<1>2. Frames \in Seq(DataFrame) /\ Cancels \in Seq(CancelFrame)
    BY <1>1, ConcatProperties DEF Frames, Cancels
<1>3. Queued \subseteq DataFrame /\ Cancelled \subseteq CancelFrame
    BY <1>2 DEF Queued, Cancelled, Elems
<1>4. Cancelled = Elems(inLane.control) \cup Behind
    BY <1>1, ConcatElems DEF Cancelled, Cancels, Behind
<1>5. Queued = Across \cup Elems(outLane.data)
    BY <1>1, ConcatElems DEF Queued, Frames, Across
<1> QED BY <1>1, <1>2, <1>3, <1>4, <1>5

(* A data frame is sent.                                                    *)
LEMMA SendData ==
    ASSUME LanesOk, NEW f \in DataFrame, Send(f), inLane' = inLane
    PROVE  LanesOk' /\ Puts(f)
<1>1. outLane' = [control |-> outLane.control, data |-> Append(outLane.data, f)]
    BY EnqueueData DEF Send, LanesOk
<1>2. outLane'.control = outLane.control /\ outLane'.data = Append(outLane.data, f)
    BY <1>1
<1>3. LanesOk'
    BY <1>1, QueuedTyped DEF LanesOk, Lanes
<1>4. Frames' = Append(Frames, f) /\ Cancels' = Cancels
  <2>1. Frames' = inLane.data \o Append(outLane.data, f) /\ Cancels' = Cancels
    BY <1>2 DEF Frames, Cancels
  <2>2. inLane.data \o Append(outLane.data, f) = Append(inLane.data \o outLane.data, f)
    <3> DEFINE s == inLane.data
               t == outLane.data
    <3>1. s \in Seq(DataFrame) /\ t \in Seq(DataFrame)
      BY QueuedTyped
    <3> HIDE DEF s, t
    <3>2. s \o Append(t, f) = Append(s \o t, f)
      BY <3>1, ConcatPush
    <3> QED BY <3>2 DEF s, t
  <2> QED BY <2>1, <2>2 DEF Frames
<1>5. Queued' = Queued \cup {f} /\ Ordered' \subseteq Ordered \cup (Queued \X {f})
    BY <1>4, QueuedTyped, PushElems DEF Queued, Ordered
<1>6. Cancelled' = Cancelled /\ Behind' = Behind /\ Across' = Across
    BY <1>2, <1>4 DEF Cancelled, Behind, Across
<1> QED BY <1>3, <1>5, <1>6 DEF Puts

(* A cancel is sent.                                                        *)
LEMMA SendCancel ==
    ASSUME LanesOk, NEW c \in CancelFrame, Send(c), inLane' = inLane
    PROVE  LanesOk' /\ Overtakes(c)
<1>1. outLane' = [control |-> Append(outLane.control, c), data |-> outLane.data]
    BY EnqueueControl DEF Send, LanesOk
<1>2. outLane'.control = Append(outLane.control, c) /\ outLane'.data = outLane.data
    BY <1>1
<1>3. LanesOk'
    BY <1>1, QueuedTyped DEF LanesOk, Lanes
<1>4. Cancels' = Append(Cancels, c) /\ Frames' = Frames
  <2>1. Cancels' = inLane.control \o Append(outLane.control, c) /\ Frames' = Frames
    BY <1>2 DEF Frames, Cancels
  <2>2. inLane.control \o Append(outLane.control, c) = Append(inLane.control \o outLane.control, c)
    <3> DEFINE s == inLane.control
               t == outLane.control
    <3>1. s \in Seq(CancelFrame) /\ t \in Seq(CancelFrame)
      BY QueuedTyped
    <3> HIDE DEF s, t
    <3>2. s \o Append(t, c) = Append(s \o t, c)
      BY <3>1, ConcatPush
    <3> QED BY <3>2 DEF s, t
  <2> QED BY <2>1, <2>2 DEF Cancels
<1>5. Cancelled' = Cancelled \cup {c} /\ Behind' = Behind \cup {c}
    BY <1>2, <1>4, QueuedTyped, PushElems DEF Cancelled, Behind
<1>6. Queued' = Queued /\ Ordered' = Ordered /\ Across' = Across
    BY <1>4 DEF Queued, Ordered, Across
<1> QED BY <1>3, <1>5, <1>6 DEF Overtakes

(* A frame is carried to the second lane.                                   *)
LEMMA CarryQueues ==
    ASSUME LanesOk, Carry
    PROVE  LanesOk' /\ Carries
<1> USE QueuedTyped
<1>1. CASE outLane.control # <<>>
  <2> DEFINE c == Head(outLane.control)
  <2>1. c \in CancelFrame /\ Tail(outLane.control) \in Seq(CancelFrame) /\ Elems(Tail(outLane.control)) \subseteq Behind
    BY <1>1, PopElems DEF Behind
  <2>2. inLane' = Enqueue(inLane, c) /\ outLane' = [outLane EXCEPT !["control"] = Tail(@)]
    BY <1>1 DEF Carry, NextQueue, Dequeue
  <2>3. inLane' = [control |-> Append(inLane.control, c), data |-> inLane.data]
    BY <2>1, <2>2, EnqueueControl DEF LanesOk
  <2>4. outLane' = [control |-> Tail(outLane.control), data |-> outLane.data]
    BY <2>2 DEF LanesOk, Lanes
  <2> HIDE DEF c
  <2>5. LanesOk'
    BY <2>1, <2>3, <2>4 DEF LanesOk, Lanes
  <2>6. Frames' = Frames /\ Across' = Across /\ Behind' = Elems(Tail(outLane.control))
    BY <2>3, <2>4 DEF Frames, Across, Behind
  <2>7. Cancels' = Append(inLane.control, c) \o Tail(outLane.control)
    BY <2>3, <2>4 DEF Cancels
  <2>8. Cancels' = Cancels
    BY <1>1, <2>7, ConcatMove DEF Cancels, c
  <2> QED BY <2>1, <2>5, <2>6, <2>8 DEF Carries, Queued, Ordered, Cancelled
<1>2. CASE outLane.control = <<>>
  <2> DEFINE f == Head(outLane.data)
  <2>0. outLane.data # <<>>
    BY <1>2 DEF Carry, Waiting
  <2>1. f \in DataFrame /\ Tail(outLane.data) \in Seq(DataFrame)
    BY <2>0, PopElems
  <2>2. inLane' = Enqueue(inLane, f) /\ outLane' = [outLane EXCEPT !["data"] = Tail(@)]
    BY <1>2 DEF Carry, NextQueue, Dequeue
  <2>3. inLane' = [control |-> inLane.control, data |-> Append(inLane.data, f)]
    BY <2>1, <2>2, EnqueueData DEF LanesOk
  <2>4. outLane' = [control |-> outLane.control, data |-> Tail(outLane.data)]
    BY <2>2 DEF LanesOk, Lanes
  <2> HIDE DEF f
  <2>5. LanesOk'
    BY <2>1, <2>3, <2>4 DEF LanesOk, Lanes
  <2>6. Cancels' = Cancels /\ Behind' = Behind
    BY <2>3, <2>4 DEF Cancels, Behind
  <2>7. Frames' = Append(inLane.data, f) \o Tail(outLane.data)
    BY <2>3, <2>4 DEF Frames
  <2>8. Frames' = Frames
    BY <2>0, <2>7, ConcatMove DEF Frames, f
  <2>9. Behind = {}
    BY <1>2 DEF Behind, Elems
  <2> QED BY <2>5, <2>6, <2>8, <2>9 DEF Carries, Queued, Ordered, Cancelled
<1> QED BY <1>1, <1>2

(* The child takes a frame: a data frame, or a cancel.                      *)
LEMMA TakeQueues ==
    ASSUME LanesOk, Waiting(inLane), inLane' = Dequeue(inLane), outLane' = outLane
    PROVE  /\ LanesOk'
           /\ \/ Received \in DataFrame /\ Takes(Received)
              \/ Received \in CancelFrame /\ Hears(Received)
<1> USE QueuedTyped
<1>1. CASE inLane.control # <<>>
  <2> DEFINE c == Head(inLane.control)
  <2>1. Received = c
    BY <1>1 DEF Received, NextQueue
  <2>2. inLane' = [control |-> Tail(inLane.control), data |-> inLane.data]
    BY <1>1 DEF NextQueue, Dequeue, LanesOk, Lanes
  <2>3. c \in CancelFrame /\ Tail(inLane.control) \in Seq(CancelFrame)
    BY <1>1, PopElems
  <2>a. inLane'.control = Tail(inLane.control) /\ inLane'.data = inLane.data
    BY <2>2
  <2>4. Cancels # <<>> /\ Head(Cancels) = c /\ Cancels' = Tail(Cancels)
    <3>1. Cancels' = Tail(inLane.control) \o outLane.control
      BY <2>a DEF Cancels
    <3>2. /\ inLane.control \o outLane.control # <<>> /\ Head(inLane.control \o outLane.control) = c
          /\ Tail(inLane.control \o outLane.control) = Tail(inLane.control) \o outLane.control
      BY <1>1, ConcatPop
    <3> QED BY <3>1, <3>2 DEF Cancels
  <2> HIDE DEF c
  <2>5. LanesOk'
    BY <2>2, <2>3 DEF LanesOk, Lanes
  <2>6. Frames' = Frames /\ Across' = Across /\ Behind' = Behind
    BY <2>a DEF Frames, Across, Behind
  <2>7. c \in Cancelled /\ Cancelled' \cup {c} = Cancelled
    BY <2>4, PopElems DEF Cancelled
  <2>8. Hears(c)
    BY <2>6, <2>7 DEF Hears, Queued, Ordered
  <2> QED BY <2>1, <2>3, <2>5, <2>8
<1>2. CASE inLane.control = <<>>
  <2> DEFINE f == Head(inLane.data)
  <2>0. inLane.data # <<>>
    BY <1>2 DEF Waiting
  <2>1. Received = f
    BY <1>2 DEF Received, NextQueue
  <2>2. inLane' = [control |-> inLane.control, data |-> Tail(inLane.data)]
    BY <1>2 DEF NextQueue, Dequeue, LanesOk, Lanes
  <2>3. f \in DataFrame /\ Tail(inLane.data) \in Seq(DataFrame) /\ f \in Across /\ Elems(Tail(inLane.data)) \subseteq Across
    BY <2>0, PopElems DEF Across
  <2>a. inLane'.control = inLane.control /\ inLane'.data = Tail(inLane.data)
    BY <2>2
  <2>4. Frames # <<>> /\ Head(Frames) = f /\ Frames' = Tail(Frames)
    <3>1. Frames' = Tail(inLane.data) \o outLane.data
      BY <2>a DEF Frames
    <3>2. /\ inLane.data \o outLane.data # <<>> /\ Head(inLane.data \o outLane.data) = f
          /\ Tail(inLane.data \o outLane.data) = Tail(inLane.data) \o outLane.data
      BY <2>0, ConcatPop
    <3> QED BY <3>1, <3>2 DEF Frames
  <2> HIDE DEF f
  <2>5. LanesOk'
    BY <2>2, <2>3 DEF LanesOk, Lanes
  <2>6. Cancels' = Cancels /\ Behind' = Behind /\ Across' = Elems(Tail(inLane.data))
    BY <2>a DEF Cancels, Across, Behind
  <2>7. /\ f \in Queued /\ Queued' \cup {f} = Queued /\ Ordered' \subseteq Ordered
        /\ \A g \in Queued' : <<f, g>> \in Ordered
    BY <2>4, PopElems DEF Queued, Ordered
  <2>8. Cancelled = Behind
    <3>1. Elems(inLane.control) = {}
      BY <1>2 DEF Elems
    <3> QED BY <3>1
  <2>9. Takes(f)
    BY <2>3, <2>6, <2>7, <2>8 DEF Takes, Cancelled
  <2> QED BY <2>1, <2>3, <2>5, <2>9
<1> QED BY <1>1, <1>2

----------------------------------------------------------------------------
(* Tombstones. *)

LEMMA ListOfSet ==
    ASSUME NEW T, IsFiniteSet(T)
    PROVE  SetToSeq(T) \in Seq(T) /\ Elems(SetToSeq(T)) = T
<1> DEFINE n == Cardinality(T)
           f == SetToSeq(T)
<1>1. n \in Nat /\ ExistsBijection(1..n, T)
    BY FS_CardinalityType
<1>2. \E g \in [1..n -> T] : IsInjective(g)
    BY <1>1 DEF ExistsBijection, Bijection, Injection
<1>3. f \in [1..n -> T] /\ IsInjective(f)
    BY <1>2 DEF SetToSeq
<1> HIDE DEF f, n
<1>4. IsFiniteSet(1..n) /\ Cardinality(1..n) = n
  <2>1. 1 \in Int /\ n \in Int
    BY <1>1
  <2> QED BY <1>1, <2>1, FS_Interval
<1>5. f \in Injection(1..n, T)
    BY <1>3 DEF Injection
<1>6. f \in Surjection(1..n, T)
    BY <1>4, <1>5, FS_Injection DEF n
<1>7. f \in Seq(T) /\ Len(f) = n
    BY <1>1, <1>3
<1>8. Elems(f) = T
    BY <1>3, <1>6, <1>7 DEF Surjection, Elems
<1> QED BY <1>7, <1>8 DEF f

(* What the table of tombstones keeps and what it forgets.                  *)
LEMMA TombKeeps ==
    ASSUME NEW U, tomb \in Seq(U), Len(tomb) <= TombLimit, NEW ids \in SUBSET U, IsFiniteSet(ids), Tombstone(ids)
    PROVE  /\ tomb' \in Seq(U) /\ Len(tomb') <= TombLimit
           /\ Elems(tomb') \subseteq Elems(tomb) \cup ids
           /\ Elems(tomb) \cup ids \subseteq Elems(tomb') \cup evicted'
           /\ evicted \subseteq evicted' /\ evicted' \subseteq evicted \cup U
<1> DEFINE fresh == SetToSeq(ids \ Range(tomb))
           all == tomb \o fresh
           drop == IF Len(all) > TombLimit THEN Len(all) - TombLimit ELSE 0
<1>0. TombLimit \in Nat /\ TombLimit > 0
    BY ResponseAssumption DEF ResponseAssumption
<1>1. IsFiniteSet(ids \ Range(tomb))
    BY FS_Subset
<1>2. fresh \in Seq(ids \ Range(tomb)) /\ Elems(fresh) = ids \ Range(tomb)
    BY <1>1, ListOfSet
<1>3. fresh \in Seq(U)
    BY <1>2
<1>4. Range(tomb) = Elems(tomb)
    BY DEF Range, Elems
<1>5. tomb' = SubSeq(all, drop + 1, Len(all)) /\ evicted' = evicted \cup Range(SubSeq(all, 1, drop))
    BY DEF Tombstone
<1> HIDE DEF fresh
<1>6. all \in Seq(U) /\ Elems(all) = Elems(tomb) \cup ids
    BY <1>2, <1>3, <1>4, ConcatElems
<1> HIDE DEF all
<1>7. Len(all) \in Nat /\ drop \in 0..Len(all) /\ Len(all) - drop <= TombLimit
    BY <1>0, <1>6
<1> HIDE DEF drop
<1>8. \A i \in 1..Len(all) : all[i] \in U
    BY <1>6
<1>9. /\ tomb' \in Seq(U) /\ Len(tomb') = Len(all) - drop
      /\ \A i \in 1..(Len(all) - drop) : tomb'[i] = all[drop + i]
  <2>1. drop + 1 \in Int /\ Len(all) \in Int /\ \A i \in (drop + 1)..Len(all) : all[i] \in U
    BY <1>7, <1>8
  <2>2. /\ SubSeq(all, drop + 1, Len(all)) \in Seq(U)
        /\ Len(SubSeq(all, drop + 1, Len(all))) = IF drop + 1 <= Len(all) THEN Len(all) - (drop + 1) + 1 ELSE 0
        /\ \A i \in 1..(Len(all) - (drop + 1) + 1) : SubSeq(all, drop + 1, Len(all))[i] = all[(drop + 1) + i - 1]
    BY <2>1, SubSeqProperties
  <2>3. Len(tomb') = Len(all) - drop
    BY <1>5, <1>7, <2>2
  <2>4. ASSUME NEW i \in 1..(Len(all) - drop) PROVE tomb'[i] = all[drop + i]
    <3>1. i \in 1..(Len(all) - (drop + 1) + 1) /\ (drop + 1) + i - 1 = drop + i
      BY <1>7
    <3> QED BY <1>5, <2>2, <3>1
  <2> QED BY <1>5, <2>2, <2>3, <2>4
<1>10. DOMAIN SubSeq(all, 1, drop) = 1..drop /\ \A i \in 1..drop : SubSeq(all, 1, drop)[i] = all[i]
  <2>1. 1 \in Int /\ drop \in Int /\ \A i \in 1..drop : all[i] \in U
    BY <1>7, <1>8
  <2>2. /\ SubSeq(all, 1, drop) \in Seq(U)
        /\ Len(SubSeq(all, 1, drop)) = IF 1 <= drop THEN drop - 1 + 1 ELSE 0
        /\ \A i \in 1..(drop - 1 + 1) : SubSeq(all, 1, drop)[i] = all[1 + i - 1]
    BY <2>1, SubSeqProperties
  <2>3. Len(SubSeq(all, 1, drop)) = drop
    BY <1>7, <2>2
  <2>4. DOMAIN SubSeq(all, 1, drop) = 1..drop
    BY <2>2, <2>3
  <2>5. ASSUME NEW i \in 1..drop PROVE SubSeq(all, 1, drop)[i] = all[i]
    <3>1. i \in 1..(drop - 1 + 1) /\ 1 + i - 1 = i
      BY <1>7
    <3> QED BY <2>2, <3>1
  <2> QED BY <2>4, <2>5
<1>11. Range(SubSeq(all, 1, drop)) \subseteq U
    BY <1>7, <1>8, <1>10 DEF Range
<1>12. Elems(tomb') \subseteq Elems(all)
    BY <1>7, <1>9 DEF Elems
<1>13. ASSUME NEW x \in Elems(all) PROVE x \in Elems(tomb') \cup evicted'
  <2>1. PICK i \in 1..Len(all) : x = all[i]
    BY <1>13 DEF Elems
  <2>2. CASE i <= drop
    <3>1. i \in 1..drop
      BY <2>2, <1>7
    <3> QED BY <1>5, <1>10, <2>1, <3>1 DEF Range
  <2>3. CASE ~(i <= drop)
    <3>1. i - drop \in 1..Len(tomb') /\ drop + (i - drop) = i
      BY <1>7, <1>9, <2>3
    <3>2. tomb'[i - drop] = x
      BY <1>9, <2>1, <3>1
    <3> QED BY <3>1, <3>2 DEF Elems
  <2> QED BY <2>2, <2>3
<1> QED BY <1>5, <1>6, <1>7, <1>9, <1>11, <1>12, <1>13

----------------------------------------------------------------------------
(* Every step by its effect. *)

Uploads(id, sent, st) ==
    /\ UploadIds' = UploadIds /\ \A j \in UploadIds \ {id} : up'[j] = up[j]
    /\ up'[id].asg = up[id].asg /\ up'[id].sent = sent /\ up'[id].st = st
SameUploads == UploadIds' = UploadIds /\ up' = up /\ current' = current
QueuesKept ==
    /\ Queued' = Queued /\ Ordered' = Ordered
    /\ Cancelled' = Cancelled /\ Behind' = Behind /\ Across' = Across
Closed(ids) ==
    /\ DOMAIN streams' = DOMAIN streams \ ids
    /\ \A j \in DOMAIN streams \ ids : streams'[j] = streams[j]
EndsDoc(a, st) ==
    /\ \A b \in Asg \ {a} : docOf'[b] = docOf[b]
    /\ docOf'[a] = [id |-> docOf[a].id, got |-> docOf[a].got, st |-> IF docOf[a].st = "open" THEN st ELSE docOf[a].st]
Tombed(ids) ==
    /\ Elems(tomb') \subseteq Elems(tomb) \cup ids /\ Elems(tomb) \cup ids \subseteq Elems(tomb') \cup evicted'
    /\ evicted \subseteq evicted'
Replied(id, x) ==
    /\ \A j \in UploadIds \ {id} : replies'[j] = replies[j]
    /\ replies'[id] # <<>> /\ replies'[id][1] = IF replies[id] = <<>> THEN x ELSE replies[id][1]

Begins(a, id) ==
    /\ current[a] = 0 /\ a \in engines /\ id \in Nat \ {0} /\ \A j \in UploadIds : j < id
    /\ \A f \in Queued : f.t = "release" => f.asg # a
    /\ Puts([t |-> "call", id |-> id, asg |-> a])
    /\ UploadIds' = UploadIds \cup {id} /\ \A j \in UploadIds : up'[j] = up[j] /\ replies'[j] = replies[j]
    /\ up'[id] = [asg |-> a, sent |-> 0, st |-> "open"] /\ replies'[id] = <<>>
    /\ current' = [current EXCEPT ![a] = id] /\ UNCHANGED <<engines, streams, tomb, docOf, evicted>>
Writes(a, id) ==
    /\ id = current[a] /\ id # 0 /\ up[id].st = "open" /\ Puts(Chunk(id, up[id].sent + 1))
    /\ Uploads(id, up[id].sent + 1, "open") /\ UNCHANGED <<current, engines, streams, tomb, replies, docOf, evicted>>
Ends(a, id, ok) ==
    /\ id = current[a] /\ id # 0 /\ up[id].st = "open" /\ Puts([t |-> "end", id |-> id, ok |-> ok])
    /\ Uploads(id, up[id].sent, "ended") /\ UNCHANGED <<current, engines, streams, tomb, replies, docOf, evicted>>
Drops(a, id) ==
    /\ id = current[a] /\ id # 0 /\ Overtakes([t |-> "cancel", id |-> id])
    /\ Uploads(id, up[id].sent, "dropped") /\ current' = [current EXCEPT ![a] = 0]
    /\ UNCHANGED <<engines, streams, tomb, replies, docOf, evicted>>
Hands(a, id) ==
    /\ id = current[a] /\ id # 0 /\ up[id].st = "ended" /\ replies[id] # <<>> /\ QueuesKept
    /\ Uploads(id, up[id].sent, "answered") /\ current' = [current EXCEPT ![a] = 0]
    /\ UNCHANGED <<engines, streams, tomb, replies, docOf, evicted>>
Leaves(a) ==
    /\ current[a] = 0 /\ a \in engines /\ \A f \in Queued : f.t = "release" => f.asg # a
    /\ Puts([t |-> "release", id |-> 0, asg |-> a])
    /\ SameUploads /\ UNCHANGED <<engines, streams, tomb, replies, docOf, evicted>>
Moves ==
    /\ Carries \/ QueuesKept
    /\ SameUploads /\ UNCHANGED <<engines, streams, tomb, replies, docOf, evicted>>

Ignores(f) ==
    /\ Takes(f) /\ f.t # "release" /\ (f.id \in Elems(tomb) \/ (f.t = "chunk" /\ f.id \notin DOMAIN streams))
    /\ SameUploads /\ UNCHANGED <<engines, streams, tomb, replies, docOf, evicted>>
Mounts(f) ==
    /\ Takes(f) /\ f.t = "call" /\ f.id \notin Elems(tomb)
    /\ DOMAIN streams' = DOMAIN streams \cup {f.id} /\ \A j \in DOMAIN streams : streams'[j] = streams[j]
    /\ streams'[f.id] = [asg |-> f.asg, n |-> 0]
    /\ docOf' = [docOf EXCEPT ![f.asg] = [id |-> f.id, got |-> 0, st |-> "open"]]
    /\ SameUploads /\ UNCHANGED <<engines, tomb, replies, evicted>>
Feeds(f, a) ==
    /\ Takes(f) /\ f.t = "chunk" /\ f.id \in DOMAIN streams /\ a = up[f.id].asg
    /\ DOMAIN streams' = DOMAIN streams /\ \A j \in DOMAIN streams \ {f.id} : streams'[j] = streams[j]
    /\ streams'[f.id] = [asg |-> a, n |-> streams[f.id].n + 1]
    /\ \A b \in Asg \ {a} : docOf'[b] = docOf[b]
    /\ docOf'[a] = [id |-> docOf[a].id, got |-> IF docOf[a].st = "open" THEN docOf[a].got + 1 ELSE docOf[a].got, st |-> docOf[a].st]
    /\ SameUploads /\ UNCHANGED <<engines, tomb, replies, evicted>>
Overflows(f, a) ==
    /\ Takes(f) /\ f.t = "chunk" /\ f.id \in DOMAIN streams /\ a = up[f.id].asg /\ streams[f.id].n + 1 > BodyLimit
    /\ Closed({f.id}) /\ EndsDoc(a, "aborted") /\ Tombed({f.id}) /\ Replied(f.id, "error")
    /\ SameUploads /\ UNCHANGED engines
EndsUnknown(f) ==
    /\ Takes(f) /\ f.t = "end" /\ f.id \notin DOMAIN streams /\ Replied(f.id, "error")
    /\ SameUploads /\ UNCHANGED <<engines, streams, tomb, docOf, evicted>>
EndsStream(f, a, ok) ==
    /\ Takes(f) /\ f.t = "end" /\ f.id \in DOMAIN streams /\ a = up[f.id].asg
    /\ Closed({f.id}) /\ EndsDoc(a, IF ok THEN "complete" ELSE "aborted")
    /\ Replied(f.id, IF ok THEN "ok" ELSE "error")
    /\ SameUploads /\ UNCHANGED <<engines, tomb, evicted>>
Cuts(c, a) ==
    /\ Hears(c) /\ c.id \in DOMAIN streams /\ a = up[c.id].asg
    /\ Closed({c.id}) /\ EndsDoc(a, "aborted") /\ Tombed({c.id})
    /\ SameUploads /\ UNCHANGED <<engines, replies>>
Notes(c) ==
    /\ Hears(c) /\ c.id \notin DOMAIN streams /\ Tombed({c.id})
    /\ SameUploads /\ UNCHANGED <<engines, streams, docOf, replies>>
Releases(f, ids) ==
    /\ Takes(f) /\ f.t = "release" /\ ids = {id \in DOMAIN streams : up[id].asg = f.asg}
    /\ Closed(ids) /\ Tombed(ids) /\ docOf' = [docOf EXCEPT ![f.asg] = NoBody]
    /\ engines' = engines \ {f.asg} /\ SameUploads /\ UNCHANGED replies

ResponseStep ==
    \/ \E a \in Asg, id \in UploadIds' : Begins(a, id)
    \/ \E a \in Asg, id \in UploadIds :
          Writes(a, id) \/ Drops(a, id) \/ Hands(a, id) \/ \E ok \in BOOLEAN : Ends(a, id, ok)
    \/ \E a \in Asg : Leaves(a)
    \/ Moves
    \/ \E f \in DataFrame : Ignores(f) \/ Mounts(f) \/ EndsUnknown(f) \/ \E ids \in SUBSET UploadIds : Releases(f, ids)
    \/ \E f \in DataFrame, a \in Asg : Feeds(f, a) \/ Overflows(f, a) \/ \E ok \in BOOLEAN : EndsStream(f, a, ok)
    \/ \E c \in CancelFrame : Notes(c) \/ \E a \in Asg : Cuts(c, a)

----------------------------------------------------------------------------

(* The types, field by field.                                               *)
UpTyped ==
    /\ UploadIds \subseteq Nat \ {0}
    /\ \A id \in UploadIds : up[id].asg \in Asg /\ up[id].sent \in Nat /\ up[id].st \in {"open", "ended", "dropped", "answered"}
    /\ \A a \in Asg : current[a] \in Nat
    /\ current = [a \in Asg |-> current[a]] /\ engines \subseteq Asg
BodyTyped ==
    /\ docOf = [a \in Asg |-> docOf[a]]
    /\ \A a \in Asg : docOf[a] = [id |-> docOf[a].id, got |-> docOf[a].got, st |-> docOf[a].st]
    /\ \A a \in Asg : docOf[a].id \in Nat /\ docOf[a].got \in Nat /\ docOf[a].st \in {"none", "open", "complete", "aborted"}
StreamTyped ==
    /\ DOMAIN streams \subseteq UploadIds
    /\ \A id \in DOMAIN streams : streams[id].asg = up[id].asg /\ streams[id].n \in Nat /\ streams[id].n <= BodyLimit
    /\ Elems(tomb) \subseteq UploadIds /\ BodyLimit \in Nat
QueueTyped ==
    /\ \A f \in Queued : f.id \in Nat /\ f.t \in {"call", "chunk", "end", "release"}
    /\ \A f \in Queued : (f.t = "chunk" => f.n \in Nat) /\ (f.t = "release" => f.asg \in Asg)
    /\ \A f \in Queued : f.t = "chunk" => f = Chunk(f.id, f.n)
    /\ \A c \in Cancelled : c.id \in Nat
    /\ Behind \subseteq Cancelled /\ Across \subseteq Queued /\ Ordered \subseteq Queued \X Queued
Typed == UpTyped /\ BodyTyped /\ StreamTyped /\ QueueTyped

LEMMA ShapeTyped == ResponseShape => Typed
<1> SUFFICES ASSUME ResponseShape PROVE Typed
    OBVIOUS
<1>0. BodyLimit \in Nat
    BY ResponseAssumption DEF ResponseAssumption
<1>1. LanesOk
    BY DEF ResponseShape, LanesOk
<1>2. UploadIds = 1..Len(up) /\ Len(up) \in Nat /\ \A id \in UploadIds : up[id] \in UploadRecord
    BY DEF ResponseShape, UploadIds
<1>3. \A id \in UploadIds : up[id].asg \in Asg /\ up[id].sent \in Nat /\ up[id].st \in {"open", "ended", "dropped", "answered"}
    BY <1>2 DEF UploadRecord
<1>4. \A a \in Asg : docOf[a] \in BodyRecord
    BY DEF ResponseShape
<1>5. \A a \in Asg : /\ docOf[a] = [id |-> docOf[a].id, got |-> docOf[a].got, st |-> docOf[a].st]
                     /\ docOf[a].id \in Nat /\ docOf[a].got \in Nat /\ docOf[a].st \in {"none", "open", "complete", "aborted"}
    BY <1>4 DEF BodyRecord
<1>6. \A id \in DOMAIN streams : streams[id].asg = up[id].asg /\ streams[id].n \in Nat /\ streams[id].n <= BodyLimit
    BY <1>0 DEF ResponseShape
<1>7. Elems(tomb) \subseteq UploadIds
    BY DEF ResponseShape, Elems
<1>8. Queued \subseteq DataFrame /\ Cancelled \subseteq CancelFrame
    BY <1>1, QueuedTyped
<1>9. \A f \in DataFrame : (f.t = "chunk" => f.n \in Nat /\ f = Chunk(f.id, f.n)) /\ (f.t = "release" => f.asg \in Asg)
    BY FrameKinds DEF ChunkFrame, ReleaseFrame, Chunk
<1>10. Behind \subseteq Cancelled /\ Across \subseteq Queued
    BY <1>1, QueuedTyped
<1>11. Ordered \subseteq Queued \X Queued
    BY DEF Ordered, Pairs, Queued
<1>12. /\ current = [a \in Asg |-> current[a]] /\ docOf = [a \in Asg |-> docOf[a]] /\ engines \subseteq Asg
       /\ DOMAIN streams \subseteq UploadIds /\ \A a \in Asg : current[a] \in Nat
    BY DEF ResponseShape
<1>13. /\ \A f \in Queued : f.id \in Nat /\ f.t \in {"call", "chunk", "end", "release"}
       /\ \A f \in Queued : (f.t = "chunk" => f.n \in Nat) /\ (f.t = "release" => f.asg \in Asg)
       /\ \A f \in Queued : f.t = "chunk" => f = Chunk(f.id, f.n)
       /\ \A c \in Cancelled : c.id \in Nat
    BY <1>8, <1>9, FrameKinds
<1>14. UploadIds \subseteq Nat \ {0}
    BY <1>2
<1> QED BY <1>0, <1>3, <1>5, <1>6, <1>7, <1>10, <1>11, <1>12, <1>13, <1>14 DEF Typed, UpTyped, BodyTyped, StreamTyped, QueueTyped

LEMMA ShapeTypedNext == ResponseShape' => Typed'
BY ShapeTyped, PTL

----------------------------------------------------------------------------
(* Every step has one of these effects, and keeps the types. *)

LEMMA ShapeKept ==
    ASSUME ResponseShape, LanesOk', up' \in Seq(UploadRecord), UploadIds \subseteq UploadIds',
           \A j \in UploadIds : up'[j].asg = up[j].asg, current' \in [Asg -> Nat],
           replies' \in Seq(Seq({"ok", "error"})), Len(replies') = Len(up'),
           UNCHANGED <<engines, streams, tomb, docOf, evicted>>
    PROVE  ResponseShape'
<1>1. /\ DOMAIN streams' \subseteq UploadIds' /\ streams' = [id \in DOMAIN streams' |-> streams'[id]]
      /\ \A id \in DOMAIN streams' : streams'[id] \in [asg : {up'[id].asg}, n : 0..BodyLimit]
    BY DEF ResponseShape
<1>2. tomb' \in Seq(UploadIds') /\ Len(tomb') <= TombLimit /\ evicted' \subseteq UploadIds'
    BY DEF ResponseShape
<1> QED BY <1>1, <1>2 DEF ResponseShape, LanesOk

(* A field of an upload changes.                                            *)
LEMMA UploadChanged ==
    ASSUME ResponseShape, NEW id \in UploadIds, NEW r \in UploadRecord, r.asg = up[id].asg, up' = [up EXCEPT ![id] = r]
    PROVE  /\ up' \in Seq(UploadRecord) /\ Len(up') = Len(up) /\ Uploads(id, r.sent, r.st)
           /\ \A j \in UploadIds : up'[j].asg = up[j].asg
<1>1. UploadIds = 1..Len(up) /\ Len(up) \in Nat /\ up \in [1..Len(up) -> UploadRecord]
    BY DEF ResponseShape, UploadIds
<1>2. up' \in [1..Len(up) -> UploadRecord] /\ up'[id] = r /\ \A j \in UploadIds \ {id} : up'[j] = up[j]
    BY <1>1
<1>3. up' \in Seq(UploadRecord) /\ Len(up') = Len(up)
    BY <1>1, <1>2
<1>4. UploadIds' = UploadIds
    BY <1>1, <1>2 DEF UploadIds
<1> QED BY <1>2, <1>3, <1>4 DEF Uploads

LEMMA CurrentUpload ==
    ASSUME ResponseShape, CurrentInv, NEW a \in Asg, current[a] # 0
    PROVE  current[a] \in UploadIds /\ up[current[a]] \in UploadRecord /\ current[a] \in Nat
BY DEF ResponseShape, CurrentInv, UploadIds

LEMMA NotReleased ==
    ASSUME ResponseShape, NEW a \in Asg, Assigned(a)
    PROVE  a \in engines /\ \A f \in Queued : f.t = "release" => f.asg # a
<1>1. LanesOk
    BY DEF ResponseShape, LanesOk
<1>2. ASSUME NEW f \in Queued, f.t = "release", f.asg = a PROVE FALSE
  <2>1. f \in Elems(inLane.data) \/ f \in Elems(outLane.data)
    BY <1>1, QueuedTyped DEF Across
  <2>2. f = ReleaseOf(a)
    <3>1. f \in ReleaseFrame
      BY <1>1, <1>2, QueuedTyped, FrameKinds
    <3> QED BY <3>1, <1>2 DEF ReleaseFrame, ReleaseOf
  <2>3. ~Contains(inLane["data"], ReleaseOf(a)) /\ ~Contains(outLane["data"], ReleaseOf(a))
    BY DEF Assigned
  <2>4. inLane["data"] = inLane.data /\ outLane["data"] = outLane.data
    OBVIOUS
  <2> QED BY <2>1, <2>2, <2>3, <2>4 DEF Contains, Elems
<1> QED BY <1>2 DEF Assigned

LEMMA StartEffect ==
    ASSUME ResponseInv, NEW a \in Asg, StartResponse(a)
    PROVE  ResponseShape' /\ ResponseStep
<1> DEFINE id == Len(up) + 1
           r == [asg |-> a, sent |-> 0, st |-> "open"]
           f == [t |-> "call", id |-> id, asg |-> a]
<1>1. ResponseShape /\ LanesOk /\ UploadIds = 1..Len(up) /\ Len(up) \in Nat /\ up \in Seq(UploadRecord)
    BY DEF ResponseInv, ResponseShape, LanesOk, UploadIds
<1>2. r \in UploadRecord /\ f \in DataFrame
    BY <1>1 DEF UploadRecord, DataFrame, UploadFrame, CallFrame
<1>3. up' = Append(up, r) /\ replies' = Append(replies, <<>>) /\ Send(f) /\ inLane' = inLane
    BY DEF StartResponse
<1>4. LanesOk' /\ Puts(f)
    BY <1>1, <1>2, <1>3, SendData
<1> HIDE DEF r
<1>5. /\ up' \in Seq(UploadRecord) /\ Len(up') = Len(up) + 1 /\ up'[id] = r /\ \A j \in UploadIds : up'[j] = up[j]
    BY <1>1, <1>2, <1>3
<1>6. UploadIds' = 1..(Len(up) + 1)
    BY <1>5 DEF UploadIds
<1>7. UploadIds' = UploadIds \cup {id} /\ id \in Nat \ {0} /\ \A j \in UploadIds : j < id
    BY <1>1, <1>6
<1>8. replies \in Seq(Seq({"ok", "error"})) /\ Len(replies) = Len(up) /\ <<>> \in Seq({"ok", "error"})
    BY <1>1 DEF ResponseShape
<1>9. /\ replies' \in Seq(Seq({"ok", "error"})) /\ Len(replies') = Len(up) + 1 /\ replies'[id] = <<>>
      /\ \A j \in UploadIds : replies'[j] = replies[j]
  <2> DEFINE e == <<>>
             S == Seq({"ok", "error"})
  <2>1. replies \in Seq(S) /\ e \in S /\ replies' = Append(replies, e)
    BY <1>3, <1>8
  <2> HIDE DEF e, S
  <2>2. replies' \in Seq(S) /\ Len(replies') = Len(up) + 1 /\ replies'[id] = e /\ \A j \in UploadIds : replies'[j] = replies[j]
    BY <1>1, <1>8, <2>1
  <2> QED BY <2>2 DEF e, S
<1>10. current[a] = 0 /\ Assigned(a) /\ current' = [current EXCEPT ![a] = id] /\ UNCHANGED <<engines, streams, tomb, docOf, evicted>>
    BY DEF StartResponse
<1>11. current' \in [Asg -> Nat]
    BY <1>1, <1>7, <1>10 DEF ResponseShape
<1>12. ResponseShape'
    BY <1>1, <1>4, <1>5, <1>7, <1>9, <1>10, <1>11, ShapeKept
<1>13. a \in engines /\ \A g \in Queued : g.t = "release" => g.asg # a
    BY <1>1, <1>10, NotReleased
<1>14. Begins(a, id)
    BY <1>4, <1>5, <1>7, <1>9, <1>10, <1>13 DEF Begins, r
<1>15. id \in UploadIds'
    BY <1>7
<1> HIDE DEF id
<1> QED BY <1>12, <1>14, <1>15 DEF ResponseStep

LEMMA WriteEffect ==
    ASSUME ResponseInv, NEW a \in Asg, WriteChunk(a)
    PROVE  ResponseShape' /\ ResponseStep
<1> DEFINE id == current[a]
           r == [up[id] EXCEPT !.sent = @ + 1]
           f == Chunk(id, up[id].sent + 1)
<1>1. ResponseShape /\ LanesOk /\ id # 0 /\ id \in UploadIds /\ up[id] \in UploadRecord /\ id \in Nat
    BY CurrentUpload DEF ResponseInv, ResponseShape, LanesOk, WriteChunk
<1>2. r \in UploadRecord /\ r.asg = up[id].asg /\ r.sent = up[id].sent + 1 /\ r.st = up[id].st /\ up[id].sent + 1 \in Nat
    BY <1>1 DEF UploadRecord
<1>3. f \in DataFrame
    BY <1>1, <1>2 DEF DataFrame, UploadFrame, ChunkFrame, Chunk
<1>4. /\ up' = [up EXCEPT ![id].sent = @ + 1] /\ up[id].st = "open" /\ Send(f) /\ inLane' = inLane
      /\ UNCHANGED <<current, engines, streams, tomb, replies, docOf, evicted>>
    BY DEF WriteChunk, Chunk
<1>5. up' = [up EXCEPT ![id] = r]
    BY <1>4
<1>6. LanesOk' /\ Puts(f)
    BY <1>1, <1>3, <1>4, SendData
<1> HIDE DEF r
<1>7. /\ up' \in Seq(UploadRecord) /\ Len(up') = Len(up) /\ Uploads(id, r.sent, r.st)
      /\ \A j \in UploadIds : up'[j].asg = up[j].asg
    BY <1>1, <1>2, <1>5, UploadChanged
<1>8. ResponseShape'
  <2>1. UploadIds \subseteq UploadIds' /\ current' \in [Asg -> Nat] /\ replies' \in Seq(Seq({"ok", "error"})) /\ Len(replies') = Len(up')
    BY <1>1, <1>4, <1>7 DEF ResponseShape, Uploads
  <2> QED BY <1>1, <1>4, <1>6, <1>7, <2>1, ShapeKept
<1>9. Writes(a, id)
    BY <1>1, <1>2, <1>4, <1>6, <1>7 DEF Writes
<1> HIDE DEF id
<1> QED BY <1>1, <1>8, <1>9 DEF ResponseStep

LEMMA EndEffect ==
    ASSUME ResponseInv, NEW a \in Asg, NEW ok \in BOOLEAN, EndUpload(a, ok)
    PROVE  ResponseShape' /\ ResponseStep
<1> DEFINE id == current[a]
           r == [up[id] EXCEPT !.st = "ended"]
           f == [t |-> "end", id |-> id, ok |-> ok]
<1>1. ResponseShape /\ LanesOk /\ id # 0 /\ id \in UploadIds /\ up[id] \in UploadRecord /\ id \in Nat
    BY CurrentUpload DEF ResponseInv, ResponseShape, LanesOk, EndUpload
<1>2. r \in UploadRecord /\ r.asg = up[id].asg /\ r.sent = up[id].sent /\ r.st = "ended"
    BY <1>1 DEF UploadRecord
<1>3. f \in DataFrame
    BY <1>1 DEF DataFrame, UploadFrame, EndFrame
<1>4. /\ up' = [up EXCEPT ![id].st = "ended"] /\ up[id].st = "open" /\ Send(f) /\ inLane' = inLane
      /\ UNCHANGED <<current, engines, streams, tomb, replies, docOf, evicted>>
    BY DEF EndUpload
<1>5. up' = [up EXCEPT ![id] = r]
    BY <1>4
<1>6. LanesOk' /\ Puts(f)
    BY <1>1, <1>3, <1>4, SendData
<1> HIDE DEF r
<1>7. /\ up' \in Seq(UploadRecord) /\ Len(up') = Len(up) /\ Uploads(id, r.sent, r.st)
      /\ \A j \in UploadIds : up'[j].asg = up[j].asg
    BY <1>1, <1>2, <1>5, UploadChanged
<1>8. ResponseShape'
  <2>1. UploadIds \subseteq UploadIds' /\ current' \in [Asg -> Nat] /\ replies' \in Seq(Seq({"ok", "error"})) /\ Len(replies') = Len(up')
    BY <1>1, <1>4, <1>7 DEF ResponseShape, Uploads
  <2> QED BY <1>1, <1>4, <1>6, <1>7, <2>1, ShapeKept
<1>9. Ends(a, id, ok)
    BY <1>1, <1>2, <1>4, <1>6, <1>7 DEF Ends
<1> HIDE DEF id
<1> QED BY <1>1, <1>8, <1>9 DEF ResponseStep

LEMMA DropEffect ==
    ASSUME ResponseInv, NEW a \in Asg, DropUpload(a)
    PROVE  ResponseShape' /\ ResponseStep
<1> DEFINE id == current[a]
           r == [up[id] EXCEPT !.st = "dropped"]
           c == [t |-> "cancel", id |-> id]
<1>1. ResponseShape /\ LanesOk /\ id # 0 /\ id \in UploadIds /\ up[id] \in UploadRecord /\ id \in Nat
    BY CurrentUpload DEF ResponseInv, ResponseShape, LanesOk, DropUpload
<1>2. r \in UploadRecord /\ r.asg = up[id].asg /\ r.sent = up[id].sent /\ r.st = "dropped"
    BY <1>1 DEF UploadRecord
<1>3. c \in CancelFrame
    BY <1>1 DEF CancelFrame
<1>4. /\ up' = [up EXCEPT ![id].st = "dropped"] /\ Send(c) /\ inLane' = inLane /\ current' = [current EXCEPT ![a] = 0]
      /\ UNCHANGED <<engines, streams, tomb, replies, docOf, evicted>>
    BY DEF DropUpload
<1>5. up' = [up EXCEPT ![id] = r]
    BY <1>4
<1>6. LanesOk' /\ Overtakes(c)
    BY <1>1, <1>3, <1>4, SendCancel
<1> HIDE DEF r
<1>7. /\ up' \in Seq(UploadRecord) /\ Len(up') = Len(up) /\ Uploads(id, r.sent, r.st)
      /\ \A j \in UploadIds : up'[j].asg = up[j].asg
    BY <1>1, <1>2, <1>5, UploadChanged
<1>8. ResponseShape'
  <2>1. UploadIds \subseteq UploadIds' /\ current' \in [Asg -> Nat] /\ replies' \in Seq(Seq({"ok", "error"})) /\ Len(replies') = Len(up')
    BY <1>1, <1>4, <1>7 DEF ResponseShape, Uploads
  <2> QED BY <1>1, <1>4, <1>6, <1>7, <2>1, ShapeKept
<1>9. Drops(a, id)
    BY <1>1, <1>2, <1>4, <1>6, <1>7 DEF Drops
<1> HIDE DEF id
<1> QED BY <1>1, <1>8, <1>9 DEF ResponseStep

LEMMA AnsweredEffect ==
    ASSUME ResponseInv, NEW a \in Asg, Answered(a)
    PROVE  ResponseShape' /\ ResponseStep
<1> DEFINE id == current[a]
           r == [up[id] EXCEPT !.st = "answered"]
<1>1. ResponseShape /\ LanesOk /\ id # 0 /\ id \in UploadIds /\ up[id] \in UploadRecord
    BY CurrentUpload DEF ResponseInv, ResponseShape, LanesOk, Answered
<1>2. r \in UploadRecord /\ r.asg = up[id].asg /\ r.sent = up[id].sent /\ r.st = "answered"
    BY <1>1 DEF UploadRecord
<1>4. /\ up' = [up EXCEPT ![id].st = "answered"] /\ up[id].st = "ended" /\ replies[id] # <<>>
      /\ current' = [current EXCEPT ![a] = 0] /\ UNCHANGED <<outLane, inLane, engines, streams, tomb, replies, docOf, evicted>>
    BY DEF Answered
<1>5. up' = [up EXCEPT ![id] = r]
    BY <1>4
<1>6. LanesOk' /\ QueuesKept
    BY <1>1, <1>4 DEF LanesOk, QueuesKept, Queued, Ordered, Frames, Cancelled, Cancels, Behind, Across
<1> HIDE DEF r
<1>7. /\ up' \in Seq(UploadRecord) /\ Len(up') = Len(up) /\ Uploads(id, r.sent, r.st)
      /\ \A j \in UploadIds : up'[j].asg = up[j].asg
    BY <1>1, <1>2, <1>5, UploadChanged
<1>8. ResponseShape'
  <2>1. UploadIds \subseteq UploadIds' /\ current' \in [Asg -> Nat] /\ replies' \in Seq(Seq({"ok", "error"})) /\ Len(replies') = Len(up')
    BY <1>1, <1>4, <1>7 DEF ResponseShape, Uploads
  <2> QED BY <1>1, <1>4, <1>6, <1>7, <2>1, ShapeKept
<1>9. Hands(a, id)
    BY <1>1, <1>2, <1>4, <1>6, <1>7 DEF Hands
<1> HIDE DEF id
<1> QED BY <1>1, <1>8, <1>9 DEF ResponseStep

LEMMA SameShape ==
    ASSUME ResponseShape, LanesOk', UNCHANGED <<up, current, engines, streams, tomb, replies, docOf, evicted>>
    PROVE  ResponseShape' /\ SameUploads
BY DEF ResponseShape, LanesOk, SameUploads, UploadIds

LEMMA ReleaseAssignmentEffect ==
    ASSUME ResponseInv, NEW a \in Asg, ReleaseAssignment(a)
    PROVE  ResponseShape' /\ ResponseStep
<1>1. ResponseShape /\ LanesOk
    BY DEF ResponseInv, ResponseShape, LanesOk
<1>2. ReleaseOf(a) \in DataFrame
    BY DEF DataFrame, ReleaseFrame, ReleaseOf
<1>3. /\ Assigned(a) /\ current[a] = 0 /\ Send(ReleaseOf(a)) /\ inLane' = inLane
      /\ UNCHANGED <<up, current, engines, streams, tomb, replies, docOf, evicted>>
    BY DEF ReleaseAssignment
<1>4. LanesOk' /\ Puts(ReleaseOf(a))
    BY <1>1, <1>2, <1>3, SendData
<1>5. ResponseShape' /\ SameUploads
    BY <1>1, <1>3, <1>4, SameShape
<1>6. Leaves(a)
    BY <1>1, <1>3, <1>4, <1>5, NotReleased DEF Leaves, ReleaseOf
<1> QED BY <1>5, <1>6 DEF ResponseStep

LEMMA CarryEffect ==
    ASSUME ResponseInv, Carry
    PROVE  ResponseShape' /\ ResponseStep
<1>1. ResponseShape /\ LanesOk
    BY DEF ResponseInv, ResponseShape, LanesOk
<1>2. LanesOk' /\ Carries
    BY <1>1, CarryQueues
<1>3. UNCHANGED <<up, current, engines, streams, tomb, replies, docOf, evicted>>
    BY DEF Carry
<1>4. ResponseShape' /\ SameUploads
    BY <1>1, <1>2, <1>3, SameShape
<1> QED BY <1>2, <1>3, <1>4 DEF ResponseStep, Moves

LEMMA StutterEffect ==
    ASSUME ResponseInv, UNCHANGED responseVars
    PROVE  ResponseShape' /\ ResponseStep
<1>1. ResponseShape /\ LanesOk
    BY DEF ResponseInv, ResponseShape, LanesOk
<1>2. LanesOk' /\ QueuesKept
    BY <1>1 DEF responseVars, LanesOk, QueuesKept, Queued, Ordered, Frames, Cancelled, Cancels, Behind, Across
<1>3. UNCHANGED <<up, current, engines, streams, tomb, replies, docOf, evicted>>
    BY DEF responseVars
<1>4. ResponseShape' /\ SameUploads
    BY <1>1, <1>2, <1>3, SameShape
<1> QED BY <1>2, <1>3, <1>4 DEF ResponseStep, Moves

(* The parts of the child's steps.                                          *)
LEMMA FirstStays ==
    ASSUME NEW S, NEW s \in Seq(S), NEW x \in S
    PROVE  /\ Append(s, x) \in Seq(S) /\ Append(s, x) # <<>>
           /\ Append(s, x)[1] = IF s = <<>> THEN x ELSE s[1]
<1>1. Append(s, x) \in Seq(S) /\ Len(Append(s, x)) = Len(s) + 1 /\ Len(s) \in Nat
    OBVIOUS
<1>2. Append(s, x) # <<>>
    BY <1>1
<1>3. CASE s = <<>>
  <2>1. Len(s) = 0 /\ Append(s, x)[Len(s) + 1] = x
    BY <1>3
  <2> QED BY <1>1, <1>2, <1>3, <2>1
<1>4. CASE s # <<>>
  <2>1. 1 \in 1..Len(s)
    BY <1>4
  <2>2. Append(s, x)[1] = s[1]
    BY <2>1
  <2> QED BY <1>1, <1>2, <1>4, <2>2
<1> QED BY <1>3, <1>4

LEMMA ReplyEffect ==
    ASSUME ResponseShape, NEW id \in UploadIds, NEW x \in {"ok", "error"}, Reply(id, x)
    PROVE  replies' \in Seq(Seq({"ok", "error"})) /\ Len(replies') = Len(replies) /\ Replied(id, x)
<1> DEFINE S == Seq({"ok", "error"})
           e == Append(replies[id], x)
<1>1. replies \in Seq(S) /\ UploadIds = 1..Len(up) /\ Len(replies) = Len(up)
    BY DEF ResponseShape, UploadIds
<1>2. replies[id] \in S
    BY <1>1
<1>3. e \in S /\ e # <<>> /\ e[1] = IF replies[id] = <<>> THEN x ELSE replies[id][1]
    BY <1>2, FirstStays
<1>4. replies' = [replies EXCEPT ![id] = e]
    BY DEF Reply
<1> HIDE DEF e, S
<1>5. replies \in [1..Len(replies) -> S] /\ Len(replies) \in Nat
    BY <1>1
<1>6. replies' \in [1..Len(replies) -> S] /\ replies'[id] = e /\ \A j \in UploadIds \ {id} : replies'[j] = replies[j]
    BY <1>1, <1>3, <1>4, <1>5
<1>7. replies' \in Seq(S) /\ Len(replies') = Len(replies)
    BY <1>5, <1>6
<1> QED BY <1>3, <1>6, <1>7 DEF Replied, S

LEMMA EndedEffect ==
    ASSUME ResponseShape, NEW a \in Asg, NEW st \in {"complete", "aborted"}, docOf' = Ended(a, st)
    PROVE  docOf' \in [Asg -> BodyRecord] /\ EndsDoc(a, st)
<1> DEFINE d == docOf[a]
           e == IF d.st = "open" THEN [d EXCEPT !.st = st] ELSE d
<1>1. docOf \in [Asg -> BodyRecord] /\ d \in BodyRecord
    BY DEF ResponseShape
<1>2. docOf' = [docOf EXCEPT ![a] = e]
    BY DEF Ended
<1>3. e = [id |-> d.id, got |-> d.got, st |-> IF d.st = "open" THEN st ELSE d.st]
    BY <1>1 DEF BodyRecord
<1>4. e \in BodyRecord
    BY <1>1, <1>3 DEF BodyRecord
<1> HIDE DEF e
<1>5. docOf' \in [Asg -> BodyRecord] /\ docOf'[a] = e /\ \A b \in Asg \ {a} : docOf'[b] = docOf[b]
    BY <1>1, <1>2, <1>4
<1> QED BY <1>3, <1>5 DEF EndsDoc

StreamsOk ==
    /\ DOMAIN streams \subseteq UploadIds /\ streams = [id \in DOMAIN streams |-> streams[id]]
    /\ \A id \in DOMAIN streams : streams[id] \in [asg : {up[id].asg}, n : 0..BodyLimit]

LEMMA WithoutEffect ==
    ASSUME ResponseShape, NEW ids, streams' = Without(streams, ids), up' = up
    PROVE  StreamsOk' /\ Closed(ids)
<1>1. UploadIds' = UploadIds
    BY DEF UploadIds
<1>2. /\ DOMAIN streams' = DOMAIN streams \ ids /\ streams' = [i \in DOMAIN streams \ ids |-> streams[i]]
      /\ \A j \in DOMAIN streams \ ids : streams'[j] = streams[j]
    BY DEF Without
<1> QED BY <1>1, <1>2 DEF ResponseShape, StreamsOk, Closed

(* The types after a step of the child.                                     *)
LEMMA ChildShape ==
    ASSUME ResponseShape, LanesOk', up' = up, current' = current, engines' \subseteq engines, StreamsOk',
           tomb' \in Seq(UploadIds), Len(tomb') <= TombLimit, evicted' \subseteq UploadIds,
           replies' \in Seq(Seq({"ok", "error"})), Len(replies') = Len(replies), docOf' \in [Asg -> BodyRecord]
    PROVE  ResponseShape' /\ SameUploads
<1>1. UploadIds' = UploadIds
    BY DEF UploadIds
<1>2. SameUploads
    BY <1>1 DEF SameUploads
<1>3. tomb' \in Seq(UploadIds') /\ evicted' \subseteq UploadIds' /\ Len(replies') = Len(up')
    BY <1>1 DEF ResponseShape
<1>4. up' \in Seq(UploadRecord) /\ current' \in [Asg -> Nat] /\ engines' \subseteq Asg
    BY DEF ResponseShape
<1> QED BY <1>2, <1>3, <1>4 DEF ResponseShape, LanesOk, StreamsOk

ChildKept == up' = up /\ current' = current /\ engines' = engines
Facts ==
    /\ ResponseShape /\ LanesOk /\ tomb \in Seq(UploadIds) /\ Len(tomb) <= TombLimit /\ evicted \subseteq UploadIds
    /\ replies \in Seq(Seq({"ok", "error"})) /\ docOf \in [Asg -> BodyRecord] /\ StreamsOk
    /\ \A id \in UploadIds : up[id].asg \in Asg
    /\ \A id : IsCancelled(id) <=> id \in Elems(tomb)

LEMMA FactsHold == ResponseInv => Facts
<1> SUFFICES ASSUME ResponseInv PROVE Facts
    OBVIOUS
<1>1. \A id : IsCancelled(id) <=> id \in Elems(tomb)
    BY DEF IsCancelled, Contains, Elems
<1>2. Typed
    BY ShapeTyped DEF ResponseInv
<1> QED BY <1>1, <1>2 DEF ResponseInv, ResponseShape, LanesOk, StreamsOk, Facts, Typed, UpTyped

LEMMA SameStreams ==
    ASSUME Facts, up' = up, streams' = streams
    PROVE  StreamsOk'
BY DEF Facts, StreamsOk, UploadIds

LEMMA IgnoreEffect ==
    ASSUME ResponseInv, NEW f \in DataFrame, Takes(f), LanesOk', f.t # "release", ChildKept,
           f.id \in Elems(tomb) \/ (f.t = "chunk" /\ f.id \notin DOMAIN streams),
           UNCHANGED <<streams, docOf, tomb, evicted, replies>>
    PROVE  ResponseShape' /\ ResponseStep
<1>1. ResponseShape /\ UNCHANGED <<up, current, engines, streams, tomb, replies, docOf, evicted>>
    BY DEF ResponseInv, ChildKept
<1>2. ResponseShape' /\ SameUploads
    BY <1>1, SameShape
<1>3. Ignores(f)
    BY <1>1, <1>2 DEF Ignores
<1> QED BY <1>2, <1>3 DEF ResponseStep

LEMMA CallEffect ==
    ASSUME ResponseInv, NEW f \in DataFrame, Takes(f), LanesOk', f.t = "call", ChildKept, Start(f.id, f.asg)
    PROVE  ResponseShape' /\ ResponseStep
<1>0. Facts
    BY FactsHold
<1>1. CASE IsCancelled(f.id) /\ UNCHANGED <<streams, docOf, tomb, evicted, replies>>
    BY <1>0, <1>1, IgnoreEffect DEF Facts
<1>2. CASE /\ ~IsCancelled(f.id) /\ streams' = [x \in DOMAIN streams \cup {f.id} |-> IF x = f.id THEN [asg |-> f.asg, n |-> 0] ELSE streams[x]]
           /\ docOf' = [docOf EXCEPT ![f.asg] = [id |-> f.id, got |-> 0, st |-> "open"]]
           /\ UNCHANGED <<tomb, evicted, replies>>
  <2> DEFINE s == [asg |-> f.asg, n |-> 0]
             d == [id |-> f.id, got |-> 0, st |-> "open"]
  <2>1. /\ f \in Queued /\ f.id \in UploadIds /\ f.asg = up[f.id].asg /\ f.asg \in Asg /\ f.id \notin DOMAIN streams
        /\ f.id \in Nat /\ BodyLimit \in Nat
    BY <1>0, FrameKinds, ResponseAssumption DEF ResponseInv, FrameInv, WholeInv, WholeCalls, Takes, Facts, ResponseAssumption
  <2>2. s \in [asg : {up[f.id].asg}, n : 0..BodyLimit] /\ d \in BodyRecord
    BY <2>1 DEF BodyRecord
  <2> HIDE DEF s, d
  <2>3. streams' = [x \in DOMAIN streams \cup {f.id} |-> IF x = f.id THEN s ELSE streams[x]]
    BY <1>2 DEF s
  <2>4. /\ DOMAIN streams' = DOMAIN streams \cup {f.id} /\ streams'[f.id] = s
        /\ \A j \in DOMAIN streams : streams'[j] = streams[j]
    BY <2>1, <2>3
  <2>5. UploadIds' = UploadIds
    BY DEF ChildKept, UploadIds
  <2>6. StreamsOk'
    <3>1. streams' = [x \in DOMAIN streams' |-> streams'[x]]
      BY <2>3
    <3>2. \A id \in DOMAIN streams' : streams'[id] \in [asg : {up[id].asg}, n : 0..BodyLimit]
      BY <1>0, <2>2, <2>4 DEF Facts, StreamsOk
    <3> QED BY <1>0, <2>1, <2>4, <2>5, <3>1, <3>2 DEF StreamsOk, Facts, ChildKept
  <2>7. docOf' = [docOf EXCEPT ![f.asg] = d]
    BY <1>2 DEF d
  <2>8. docOf' \in [Asg -> BodyRecord]
    BY <1>0, <2>1, <2>2, <2>7 DEF Facts
  <2>9. ResponseShape' /\ SameUploads
    BY <1>0, <1>2, <2>6, <2>8, ChildShape DEF Facts, ChildKept
  <2>10. Mounts(f)
    BY <1>0, <1>2, <2>4, <2>9 DEF Mounts, Facts, ChildKept, s
  <2> QED BY <2>9, <2>10 DEF ResponseStep
<1> QED BY <1>1, <1>2 DEF Start

LEMMA ChunkEffect ==
    ASSUME ResponseInv, NEW f \in DataFrame, Takes(f), LanesOk', f.t = "chunk", ChildKept, PushChunk(f.id)
    PROVE  ResponseShape' /\ ResponseStep
<1> DEFINE id == f.id
           a == streams[id].asg
<1>0. Facts
    BY FactsHold
<1>1. CASE IsCancelled(id) \/ id \notin DOMAIN streams
  <2>1. UNCHANGED <<streams, docOf, tomb, evicted, replies>>
    BY <1>1 DEF PushChunk
  <2> QED BY <1>0, <1>1, <2>1, IgnoreEffect DEF Facts
<1>2. CASE ~(IsCancelled(id) \/ id \notin DOMAIN streams)
  <2>1. /\ id \in DOMAIN streams /\ id \in UploadIds /\ a = up[id].asg /\ a \in Asg /\ streams[id].n \in 0..BodyLimit
        /\ BodyLimit \in Nat /\ streams[id] \in [asg : {up[id].asg}, n : 0..BodyLimit]
    BY <1>0, <1>2, ResponseAssumption DEF Facts, StreamsOk, ResponseAssumption
  <2>2. CASE streams[id].n + 1 > BodyLimit
    <3>1. TooLong(id, a)
      BY <1>2, <2>2 DEF PushChunk
    <3>2. streams' = Without(streams, {id}) /\ Tombstone({id}) /\ docOf' = Ended(a, "aborted") /\ Reply(id, "error")
      BY <3>1 DEF TooLong
    <3>3. StreamsOk' /\ Closed({id})
      BY <1>0, <3>2, WithoutEffect DEF Facts, ChildKept
    <3>4. /\ tomb' \in Seq(UploadIds) /\ Len(tomb') <= TombLimit /\ evicted' \subseteq UploadIds /\ Tombed({id})
      <4>1. IsFiniteSet({id}) /\ {id} \in SUBSET UploadIds
        BY <2>1, FS_Singleton
      <4>2. /\ tomb' \in Seq(UploadIds) /\ Len(tomb') <= TombLimit
            /\ Elems(tomb') \subseteq Elems(tomb) \cup {id}
            /\ Elems(tomb) \cup {id} \subseteq Elems(tomb') \cup evicted'
            /\ evicted \subseteq evicted' /\ evicted' \subseteq evicted \cup UploadIds
        BY <1>0, <3>2, <4>1, TombKeeps DEF Facts
      <4> QED BY <1>0, <4>2 DEF Facts, Tombed
    <3>5. docOf' \in [Asg -> BodyRecord] /\ EndsDoc(a, "aborted")
      BY <1>0, <2>1, <3>2, EndedEffect DEF Facts
    <3>6. replies' \in Seq(Seq({"ok", "error"})) /\ Len(replies') = Len(replies) /\ Replied(id, "error")
      BY <1>0, <2>1, <3>2, ReplyEffect DEF Facts
    <3>7. ResponseShape' /\ SameUploads
      BY <1>0, <3>3, <3>4, <3>5, <3>6, ChildShape DEF Facts, ChildKept
    <3> HIDE DEF a
    <3>8. Overflows(f, a)
      BY <2>1, <2>2, <3>3, <3>4, <3>5, <3>6, <3>7 DEF Overflows, ChildKept
    <3> QED BY <2>1, <3>7, <3>8 DEF ResponseStep
  <2>3. CASE ~(streams[id].n + 1 > BodyLimit)
    <3> DEFINE s == [asg |-> a, n |-> streams[id].n + 1]
               d == docOf[a]
               e == [id |-> d.id, got |-> IF d.st = "open" THEN d.got + 1 ELSE d.got, st |-> d.st]
    <3>1. /\ streams' = [streams EXCEPT ![id].n = @ + 1] /\ UNCHANGED <<tomb, evicted, replies>>
          /\ docOf' = [docOf EXCEPT ![a].got = IF docOf[a].st = "open" THEN @ + 1 ELSE @]
      BY <1>2, <2>3 DEF PushChunk
    <3>2. streams' = [streams EXCEPT ![id] = s]
      <4>1. streams' = [streams EXCEPT ![id] = [streams[id] EXCEPT !.n = @ + 1]]
        BY <3>1
      <4>2. [streams[id] EXCEPT !.n = @ + 1] = s
        BY <2>1
      <4> QED BY <4>1, <4>2
    <3>3. d \in BodyRecord
      BY <1>0, <2>1 DEF Facts
    <3>4. docOf' = [docOf EXCEPT ![a] = e]
      <4>1. docOf' = [docOf EXCEPT ![a] = [d EXCEPT !.got = IF d.st = "open" THEN @ + 1 ELSE @]]
        BY <3>1
      <4>2. [d EXCEPT !.got = IF d.st = "open" THEN @ + 1 ELSE @] = e
        BY <3>3 DEF BodyRecord
      <4> QED BY <4>1, <4>2
    <3>5. e \in BodyRecord
      BY <3>3 DEF BodyRecord
    <3>6. s \in [asg : {up[id].asg}, n : 0..BodyLimit]
      BY <2>1, <2>3
    <3> HIDE DEF s, e
    <3>7. docOf' \in [Asg -> BodyRecord] /\ docOf'[a] = e /\ \A b \in Asg \ {a} : docOf'[b] = docOf[b]
      BY <1>0, <2>1, <3>4, <3>5 DEF Facts
    <3>8. /\ DOMAIN streams' = DOMAIN streams /\ streams'[id] = s /\ \A j \in DOMAIN streams \ {id} : streams'[j] = streams[j]
          /\ streams' = [x \in DOMAIN streams' |-> streams'[x]]
      BY <1>0, <2>1, <3>2 DEF Facts, StreamsOk
    <3>9. StreamsOk'
      <4>1. UploadIds' = UploadIds
        BY DEF ChildKept, UploadIds
      <4>2. \A j \in DOMAIN streams' : streams'[j] \in [asg : {up[j].asg}, n : 0..BodyLimit]
        BY <1>0, <3>6, <3>8 DEF Facts, StreamsOk
      <4> QED BY <1>0, <3>8, <4>1, <4>2 DEF StreamsOk, Facts, ChildKept
    <3>10. ResponseShape' /\ SameUploads
      BY <1>0, <3>1, <3>7, <3>9, ChildShape DEF Facts, ChildKept
    <3>11. /\ DOMAIN streams' = DOMAIN streams /\ streams'[id] = [asg |-> a, n |-> streams[id].n + 1]
           /\ \A j \in DOMAIN streams \ {id} : streams'[j] = streams[j]
      BY <3>8 DEF s
    <3>12. docOf'[a] = [id |-> docOf[a].id, got |-> IF docOf[a].st = "open" THEN docOf[a].got + 1 ELSE docOf[a].got, st |-> docOf[a].st]
      BY <3>7 DEF e
    <3> HIDE DEF a, d
    <3>13. Feeds(f, a)
      BY <2>1, <3>1, <3>7, <3>10, <3>11, <3>12 DEF Feeds, ChildKept
    <3> QED BY <2>1, <3>10, <3>13 DEF ResponseStep
  <2> QED BY <2>2, <2>3
<1> QED BY <1>1, <1>2

LEMMA FinishEffect ==
    ASSUME ResponseInv, NEW f \in DataFrame, Takes(f), LanesOk', f.t = "end", ChildKept, Finish(f.id, f.ok)
    PROVE  ResponseShape' /\ ResponseStep
<1> DEFINE id == f.id
           a == up[id].asg
           ok == f.ok
<1>0. Facts /\ id \in UploadIds /\ ok \in BOOLEAN /\ UNCHANGED <<tomb, evicted>>
  <2>1. f \in EndFrame /\ f \in Queued
    BY FrameKinds DEF Takes
  <2>2. id \in UploadIds
    BY <2>1 DEF ResponseInv, FrameInv
  <2>3. ok \in BOOLEAN
    BY <2>1 DEF EndFrame
  <2> QED BY <2>2, <2>3, FactsHold DEF Finish
<1>1. CASE IsCancelled(id)
  <2>1. UNCHANGED <<streams, docOf, tomb, evicted, replies>>
    BY <1>0, <1>1 DEF Finish
  <2> QED BY <1>0, <1>1, <2>1, IgnoreEffect DEF Facts
<1>2. CASE ~IsCancelled(id) /\ id \notin DOMAIN streams
  <2>1. Reply(id, "error") /\ UNCHANGED <<streams, docOf>>
    BY <1>2 DEF Finish
  <2>2. replies' \in Seq(Seq({"ok", "error"})) /\ Len(replies') = Len(replies) /\ Replied(id, "error")
    BY <1>0, <2>1, ReplyEffect DEF Facts
  <2>3. StreamsOk'
    BY <1>0, <2>1, SameStreams DEF ChildKept
  <2>4. ResponseShape' /\ SameUploads
    BY <1>0, <2>1, <2>2, <2>3, ChildShape DEF Facts, ChildKept
  <2>5. EndsUnknown(f)
    BY <1>0, <1>2, <2>1, <2>2, <2>4 DEF EndsUnknown, ChildKept
  <2> QED BY <2>4, <2>5 DEF ResponseStep
<1>3. CASE ~IsCancelled(id) /\ id \in DOMAIN streams
  <2>0. a \in Asg /\ streams[id].asg = a
    BY <1>0, <1>3 DEF Facts, StreamsOk
  <2>1. /\ streams' = Without(streams, {id}) /\ docOf' = Ended(a, IF ok THEN "complete" ELSE "aborted")
        /\ Reply(id, IF ok THEN "ok" ELSE "error")
    BY <1>3, <2>0 DEF Finish
  <2>2. replies' \in Seq(Seq({"ok", "error"})) /\ Len(replies') = Len(replies) /\ Replied(id, IF ok THEN "ok" ELSE "error")
    <3>1. (IF ok THEN "ok" ELSE "error") \in {"ok", "error"}
      OBVIOUS
    <3> QED BY <1>0, <2>1, <3>1, ReplyEffect DEF Facts
  <2>3. StreamsOk' /\ Closed({id})
    BY <1>0, <2>1, WithoutEffect DEF Facts, ChildKept
  <2>4. docOf' \in [Asg -> BodyRecord] /\ EndsDoc(a, IF ok THEN "complete" ELSE "aborted")
    <3>1. (IF ok THEN "complete" ELSE "aborted") \in {"complete", "aborted"}
      OBVIOUS
    <3> QED BY <1>0, <2>0, <2>1, <3>1, EndedEffect DEF Facts
  <2>5. ResponseShape' /\ SameUploads
    BY <1>0, <2>2, <2>3, <2>4, ChildShape DEF Facts, ChildKept
  <2> HIDE DEF a, ok
  <2>6. EndsStream(f, a, ok)
    BY <1>0, <1>3, <2>2, <2>3, <2>4, <2>5 DEF EndsStream, ChildKept, a
  <2> QED BY <1>0, <2>0, <2>5, <2>6 DEF ResponseStep
<1> QED BY <1>1, <1>2, <1>3

LEMMA CancelEffect ==
    ASSUME ResponseInv, NEW c \in CancelFrame, Hears(c), LanesOk', ChildKept, CancelStream(c.id)
    PROVE  ResponseShape' /\ ResponseStep
<1> DEFINE id == c.id
           a == up[id].asg
<1>0. Facts /\ id \in UploadIds /\ a \in Asg /\ replies' = replies
  <2>1. id \in UploadIds
    BY DEF ResponseInv, CancelInv, CancelOwn, Hears
  <2> QED BY <2>1, FactsHold DEF CancelStream, Facts
<1>1. tomb' \in Seq(UploadIds) /\ Len(tomb') <= TombLimit /\ evicted' \subseteq UploadIds /\ Tombed({id})
  <2>1. IsFiniteSet({id}) /\ {id} \in SUBSET UploadIds /\ Tombstone({id})
    BY <1>0, FS_Singleton DEF CancelStream
  <2>2. /\ tomb' \in Seq(UploadIds) /\ Len(tomb') <= TombLimit
        /\ Elems(tomb') \subseteq Elems(tomb) \cup {id}
        /\ Elems(tomb) \cup {id} \subseteq Elems(tomb') \cup evicted'
        /\ evicted \subseteq evicted' /\ evicted' \subseteq evicted \cup UploadIds
    BY <1>0, <2>1, TombKeeps DEF Facts
  <2> QED BY <1>0, <2>2 DEF Facts, Tombed
<1>2. CASE id \in DOMAIN streams
  <2>0. streams[id].asg = a
    BY <1>0, <1>2 DEF Facts, StreamsOk
  <2>1. docOf' = Ended(a, "aborted") /\ streams' = Without(streams, {id})
    BY <1>2, <2>0 DEF CancelStream
  <2>2. StreamsOk' /\ Closed({id})
    BY <1>0, <2>1, WithoutEffect DEF Facts, ChildKept
  <2>3. docOf' \in [Asg -> BodyRecord] /\ EndsDoc(a, "aborted")
    BY <1>0, <2>1, EndedEffect DEF Facts
  <2>4. ResponseShape' /\ SameUploads
    BY <1>0, <1>1, <2>2, <2>3, ChildShape DEF Facts, ChildKept
  <2> HIDE DEF a
  <2>5. Cuts(c, a)
    BY <1>0, <1>1, <1>2, <2>2, <2>3, <2>4 DEF Cuts, ChildKept, a
  <2> QED BY <1>0, <2>4, <2>5 DEF ResponseStep
<1>3. CASE id \notin DOMAIN streams
  <2>1. UNCHANGED <<docOf, streams>>
    BY <1>3 DEF CancelStream
  <2>2. StreamsOk'
    BY <1>0, <2>1, SameStreams DEF ChildKept
  <2>3. ResponseShape' /\ SameUploads
    BY <1>0, <1>1, <2>1, <2>2, ChildShape DEF Facts, ChildKept
  <2>4. Notes(c)
    BY <1>0, <1>1, <1>3, <2>1, <2>3 DEF Notes, ChildKept
  <2> QED BY <2>3, <2>4 DEF ResponseStep
<1> QED BY <1>2, <1>3

LEMMA ReleaseEffect ==
    ASSUME ResponseInv, NEW f \in DataFrame, Takes(f), LanesOk', f.t = "release", up' = up, current' = current, Release(f.asg)
    PROVE  ResponseShape' /\ ResponseStep
<1> DEFINE ids == {id \in DOMAIN streams : up[id].asg = f.asg}
<1>0. Facts /\ f.asg \in Asg
    BY FactsHold, FrameKinds DEF ReleaseFrame
<1>1. ids = {id \in DOMAIN streams : streams[id].asg = f.asg}
    BY <1>0 DEF Facts, StreamsOk
<1>2. /\ streams' = Without(streams, ids) /\ Tombstone(ids) /\ docOf' = [docOf EXCEPT ![f.asg] = NoBody]
      /\ engines' = engines \ {f.asg} /\ replies' = replies
    BY <1>1 DEF Release
<1>3. ids \in SUBSET UploadIds /\ IsFiniteSet(ids)
  <2>1. UploadIds = 1..Len(up) /\ Len(up) \in Nat /\ 1 \in Int /\ Len(up) \in Int
    BY <1>0 DEF Facts, ResponseShape, UploadIds
  <2>2. IsFiniteSet(UploadIds)
    BY <2>1, FS_Interval
  <2>3. ids \in SUBSET UploadIds
    BY <1>0 DEF Facts, StreamsOk
  <2> QED BY <2>2, <2>3, FS_Subset
<1> HIDE DEF ids
<1>4. tomb' \in Seq(UploadIds) /\ Len(tomb') <= TombLimit /\ evicted' \subseteq UploadIds /\ Tombed(ids)
  <2>1. /\ tomb' \in Seq(UploadIds) /\ Len(tomb') <= TombLimit
        /\ Elems(tomb') \subseteq Elems(tomb) \cup ids
        /\ Elems(tomb) \cup ids \subseteq Elems(tomb') \cup evicted'
        /\ evicted \subseteq evicted' /\ evicted' \subseteq evicted \cup UploadIds
    BY <1>0, <1>2, <1>3, TombKeeps DEF Facts
  <2> QED BY <1>0, <2>1 DEF Facts, Tombed
<1>5. StreamsOk' /\ Closed(ids)
    BY <1>0, <1>2, WithoutEffect DEF Facts
<1>6. docOf' \in [Asg -> BodyRecord]
  <2>1. NoBody \in BodyRecord
    BY DEF NoBody, BodyRecord
  <2> QED BY <1>0, <1>2, <2>1 DEF Facts
<1>7. ResponseShape' /\ SameUploads
    BY <1>0, <1>2, <1>4, <1>5, <1>6, ChildShape DEF Facts
<1>8. Releases(f, ids)
    BY <1>2, <1>4, <1>5, <1>7 DEF Releases, ids
<1> QED BY <1>3, <1>7, <1>8 DEF ResponseStep

LEMMA HandleEffect ==
    ASSUME ResponseInv, HandleHost
    PROVE  ResponseShape' /\ ResponseStep
<1> DEFINE f == Received
<1>1. LanesOk' /\ \/ f \in DataFrame /\ Takes(f)
                  \/ f \in CancelFrame /\ Hears(f)
  <2>1. LanesOk /\ Waiting(inLane) /\ inLane' = Dequeue(inLane) /\ outLane' = outLane
    BY DEF ResponseInv, ResponseShape, LanesOk, HandleHost
  <2> QED BY <2>1, TakeQueues
<1>2. /\ up' = up /\ current' = current
      /\ \/ f.t = "call" /\ Start(f.id, f.asg) /\ engines' = engines
         \/ f.t = "chunk" /\ PushChunk(f.id) /\ engines' = engines
         \/ f.t = "end" /\ Finish(f.id, f.ok) /\ engines' = engines
         \/ f.t = "cancel" /\ CancelStream(f.id) /\ engines' = engines
         \/ f.t = "release" /\ Release(f.asg)
    BY DEF HandleHost
<1> HIDE DEF f
<1>3. CASE f \in DataFrame /\ Takes(f)
  <2>1. f.t # "cancel"
    BY <1>3, FrameKinds
  <2> QED BY <1>1, <1>2, <1>3, <2>1, CallEffect, ChunkEffect, FinishEffect, ReleaseEffect DEF ChildKept
<1>4. CASE f \in CancelFrame /\ Hears(f)
  <2>1. f.t = "cancel"
    BY <1>4, FrameKinds
  <2> QED BY <1>1, <1>2, <1>4, <2>1, CancelEffect DEF ChildKept
<1> QED BY <1>1, <1>3, <1>4

(* Every step has one of the effects.                                       *)
LEMMA EveryResponseStep == ResponseInv /\ [ResponseNext]_responseVars => ResponseShape' /\ ResponseStep
BY StartEffect, WriteEffect, EndEffect, DropEffect, AnsweredEffect, ReleaseAssignmentEffect, CarryEffect,
   HandleEffect, StutterEffect DEF ResponseNext

----------------------------------------------------------------------------
(* The invariant is kept. *)

(* What the child takes was the first of its tab.                           *)
LEMMA TakenFirst ==
    ASSUME ResponseInv, NEW f, Takes(f)
    PROVE  f \notin Queued' /\ \A g \in Queued' : g \in Queued /\ g # f /\ Before(f, g)
<1>0. Typed
    BY ShapeTyped DEF ResponseInv
<1>1. ASSUME NEW g \in Queued' PROVE g \in Queued /\ Before(f, g)
  <2>1. <<f, g>> \in Ordered
    BY DEF Takes
  <2>2. Before(<<f, g>>[1], <<f, g>>[2])
    BY <2>1 DEF ResponseInv, SentInOrder
  <2> QED BY <2>2 DEF Takes
<1>2. ~Before(f, f)
  <2>1. f \in Queued /\ f.id \in Nat /\ (f.t = "chunk" => f.n \in Nat)
    BY <1>0 DEF Takes, Typed, QueueTyped
  <2> QED BY <2>1 DEF Before, Sooner
<1> QED BY <1>1, <1>2

(* An upload stays with its tab, so the order of two frames stays.          *)
LEMMA BeforeKept ==
    ASSUME ResponseInv, \A j \in UploadIds : up'[j].asg = up[j].asg, NEW f \in Queued, NEW g \in Queued, Before(f, g)
    PROVE  Before(f, g)'
BY DEF ResponseInv, FrameInv, Before, Sooner

LEMMA OrderPut ==
    ASSUME ResponseInv, NEW h, Puts(h), \A j \in UploadIds : up'[j].asg = up[j].asg, \A g \in Queued : Before(g, h)'
    PROVE  SentInOrder'
<1>0. Typed
    BY ShapeTyped DEF ResponseInv
<1>1. ASSUME NEW p \in Ordered' PROVE Before(p[1], p[2])'
  <2>1. CASE p \in Ordered
    <3>1. p[1] \in Queued /\ p[2] \in Queued /\ Before(p[1], p[2])
      BY <1>0, <2>1 DEF Typed, QueueTyped, ResponseInv, SentInOrder
    <3> QED BY <3>1, BeforeKept
  <2>2. CASE p \in Queued \X {h}
    BY <2>2
  <2> QED BY <1>1, <2>1, <2>2 DEF Puts
<1> QED BY <1>1 DEF SentInOrder

(* The upload of a tab.                                                     *)
LEMMA CurrentKept ==
    ASSUME ResponseInv, ResponseStep, ResponseShape'
    PROVE  CurrentInv'
<1>0. Typed /\ Typed'
    BY ShapeTyped, ShapeTypedNext DEF ResponseInv
<1>1. ASSUME NEW a \in Asg, NEW id \in UploadIds', Begins(a, id) PROVE CurrentInv'
  <2>1. ASSUME NEW b \in Asg, current'[b] # 0
        PROVE  current'[b] \in UploadIds' /\ up'[current'[b]].asg = b /\ up'[current'[b]].st \in {"open", "ended"}
    <3>1. CASE b = a
      BY <1>0, <1>1, <3>1 DEF Typed, UpTyped, Begins
    <3>2. CASE b # a
      BY <1>0, <1>1, <2>1, <3>2 DEF Typed, UpTyped, Begins, ResponseInv, CurrentInv
    <3> QED BY <3>1, <3>2
  <2>2. ASSUME NEW j \in UploadIds', up'[j].st \in {"open", "ended"} PROVE current'[up'[j].asg] = j
    <3>1. CASE j = id
      BY <1>0, <1>1, <3>1 DEF Typed, UpTyped, Begins
    <3>2. CASE j \in UploadIds
      <4>1. up'[j] = up[j] /\ current[up[j].asg] = j /\ j # 0 /\ up[j].asg \in Asg
        BY <1>0, <1>1, <2>2, <3>2 DEF Typed, UpTyped, Begins, ResponseInv, CurrentInv
      <4>2. up[j].asg # a
        BY <1>1, <4>1 DEF Begins
      <4> QED BY <1>0, <1>1, <4>1, <4>2 DEF Begins, Typed, UpTyped
    <3> QED BY <1>1, <3>1, <3>2 DEF Begins
  <2>3. ASSUME NEW j \in UploadIds', current'[up'[j].asg] # 0 PROVE j <= current'[up'[j].asg]
    <3>1. CASE j = id
      BY <1>0, <1>1, <3>1 DEF Typed, UpTyped, Begins
    <3>2. CASE j \in UploadIds
      BY <1>0, <1>1, <2>3, <3>2 DEF Typed, UpTyped, Begins, ResponseInv, CurrentInv
    <3> QED BY <1>1, <3>1, <3>2 DEF Begins
  <2> QED BY <2>1, <2>2, <2>3 DEF CurrentInv
<1>2. ASSUME NEW a \in Asg, NEW id \in UploadIds, Writes(a, id) PROVE CurrentInv'
  <2>1. UploadIds' = UploadIds /\ current' = current /\ up[id].st = "open"
    BY <1>2 DEF Writes, Uploads
  <2>2. \A j \in UploadIds : up'[j].asg = up[j].asg
    BY <1>2 DEF Writes, Uploads
  <2>3. \A j \in UploadIds : up'[j].st \in {"open", "ended"} <=> up[j].st \in {"open", "ended"}
    BY <1>2 DEF Writes, Uploads
  <2> QED BY <2>1, <2>2, <2>3 DEF ResponseInv, CurrentInv
<1>3. ASSUME NEW a \in Asg, NEW id \in UploadIds, NEW ok \in BOOLEAN, Ends(a, id, ok) PROVE CurrentInv'
  <2>1. UploadIds' = UploadIds /\ current' = current /\ up[id].st = "open"
    BY <1>3 DEF Ends, Uploads
  <2>2. \A j \in UploadIds : up'[j].asg = up[j].asg
    BY <1>3 DEF Ends, Uploads
  <2>3. \A j \in UploadIds : up'[j].st \in {"open", "ended"} <=> up[j].st \in {"open", "ended"}
    BY <1>3 DEF Ends, Uploads
  <2> QED BY <2>1, <2>2, <2>3 DEF ResponseInv, CurrentInv
<1>4. ASSUME NEW a \in Asg, NEW id \in UploadIds, Drops(a, id) PROVE CurrentInv'
    BY <1>0, <1>4 DEF ResponseInv, Typed, CurrentInv, UpTyped, Drops, Overtakes, Uploads
<1>5. ASSUME NEW a \in Asg, NEW id \in UploadIds, Hands(a, id) PROVE CurrentInv'
  <2>1. UploadIds' = UploadIds /\ current' = [current EXCEPT ![a] = 0] /\ id = current[a] /\ id # 0
    BY <1>5 DEF Hands, Uploads
  <2>2. up'[id].st = "answered" /\ up'[id].asg = up[id].asg /\ \A j \in UploadIds \ {id} : up'[j] = up[j]
    BY <1>5 DEF Hands, Uploads
  <2>3. up[id].asg = a /\ current'[a] = 0 /\ \A b \in Asg \ {a} : current'[b] = current[b]
    BY <1>0, <2>1 DEF ResponseInv, CurrentInv, Typed, UpTyped
  <2>4. ASSUME NEW b \in Asg, current'[b] # 0
        PROVE  current'[b] \in UploadIds /\ up'[current'[b]].asg = b /\ up'[current'[b]].st \in {"open", "ended"}
    <3>1. b # a /\ current'[b] = current[b]
      BY <2>3, <2>4
    <3>2. current[b] \in UploadIds /\ up[current[b]].asg = b /\ up[current[b]].st \in {"open", "ended"}
      BY <2>4, <3>1 DEF ResponseInv, CurrentInv
    <3>3. current[b] # id
      BY <2>3, <3>1, <3>2
    <3> QED BY <2>2, <3>1, <3>2, <3>3
  <2>5. ASSUME NEW j \in UploadIds, up'[j].st \in {"open", "ended"} PROVE current'[up'[j].asg] = j
    <3>1. j # id /\ up'[j] = up[j]
      BY <2>2, <2>5
    <3>2. current[up[j].asg] = j /\ up[j].asg \in Asg
      BY <1>0, <2>5, <3>1 DEF ResponseInv, CurrentInv, Typed, UpTyped
    <3> QED BY <2>1, <2>3, <3>1, <3>2
  <2>6. ASSUME NEW j \in UploadIds, current'[up'[j].asg] # 0 PROVE j <= current'[up'[j].asg]
    <3>1. up'[j].asg = up[j].asg /\ up[j].asg \in Asg
      BY <1>0, <2>2 DEF Typed, UpTyped
    <3>2. current'[up[j].asg] = current[up[j].asg]
      BY <2>3, <2>6, <3>1
    <3> QED BY <2>6, <3>1, <3>2 DEF ResponseInv, CurrentInv
  <2> QED BY <2>1, <2>4, <2>5, <2>6 DEF CurrentInv
<1>6. ASSUME NEW a \in Asg, Leaves(a) PROVE CurrentInv'
    BY <1>0, <1>6 DEF ResponseInv, Typed, CurrentInv, UpTyped, Leaves, Puts, SameUploads
<1>7. CASE Moves
    BY <1>0, <1>7
       DEF ResponseInv, Typed, CurrentInv, UpTyped, Moves, Carries, QueuesKept,
           SameUploads
<1>8. ASSUME NEW f \in DataFrame, Ignores(f) PROVE CurrentInv'
    BY <1>0, <1>8
       DEF ResponseInv, Typed, CurrentInv, UpTyped, Ignores, Takes, SameUploads
<1>9. ASSUME NEW f \in DataFrame, Mounts(f) PROVE CurrentInv'
    BY <1>0, <1>9
       DEF ResponseInv, Typed, CurrentInv, UpTyped, Mounts, Takes, SameUploads
<1>10. ASSUME NEW f \in DataFrame, NEW a \in Asg, Feeds(f, a) PROVE CurrentInv'
    BY <1>0, <1>10
       DEF ResponseInv, Typed, CurrentInv, UpTyped, Feeds, Takes, SameUploads
<1>11. ASSUME NEW f \in DataFrame, NEW a \in Asg, Overflows(f, a) PROVE CurrentInv'
    BY <1>0, <1>11
       DEF ResponseInv, Typed, CurrentInv, UpTyped, Overflows, Takes, SameUploads,
           Closed, EndsDoc, Tombed, Replied
<1>12. ASSUME NEW f \in DataFrame, EndsUnknown(f) PROVE CurrentInv'
    BY <1>0, <1>12
       DEF ResponseInv, Typed, CurrentInv, UpTyped, EndsUnknown, Takes, SameUploads,
           Replied
<1>13. ASSUME NEW f \in DataFrame, NEW a \in Asg, NEW ok \in BOOLEAN, EndsStream(f, a, ok) PROVE CurrentInv'
    BY <1>0, <1>13
       DEF ResponseInv, Typed, CurrentInv, UpTyped, EndsStream, Takes, SameUploads,
           Closed, EndsDoc, Replied
<1>14. ASSUME NEW c \in CancelFrame, NEW a \in Asg, Cuts(c, a) PROVE CurrentInv'
    BY <1>0, <1>14
       DEF ResponseInv, Typed, CurrentInv, UpTyped, Cuts, Hears, SameUploads, Closed,
           EndsDoc, Tombed
<1>15. ASSUME NEW c \in CancelFrame, Notes(c) PROVE CurrentInv'
    BY <1>0, <1>15
       DEF ResponseInv, Typed, CurrentInv, UpTyped, Notes, Hears, SameUploads, Tombed
<1>16. ASSUME NEW f \in DataFrame, NEW ids \in SUBSET UploadIds, Releases(f, ids) PROVE CurrentInv'
    BY <1>0, <1>16
       DEF ResponseInv, Typed, CurrentInv, UpTyped, Releases, Takes, SameUploads,
           Closed, Tombed
<1> QED BY <1>1, <1>2, <1>3, <1>4, <1>5, <1>6, <1>7, <1>8, <1>9, <1>10, <1>11, <1>12,
    <1>13, <1>14, <1>15, <1>16 DEF ResponseStep

(* What is under way was sent.                                              *)
LEMMA FrameKept ==
    ASSUME ResponseInv, ResponseStep, ResponseShape'
    PROVE  FrameInv'
<1>0. Typed /\ Typed'
    BY ShapeTyped, ShapeTypedNext DEF ResponseInv
<1>1. ASSUME NEW a \in Asg, NEW id \in UploadIds', Begins(a, id) PROVE FrameInv'
  <2> DEFINE f == [t |-> "call", id |-> id, asg |-> a]
  <2>1. f.t = "call" /\ f.id = id /\ f.asg = a
    OBVIOUS
  <2> HIDE DEF f
  <2>2. /\ Queued' = Queued \cup {f} /\ id \in UploadIds' /\ up'[id].asg = a /\ a \in engines' /\ engines' = engines
        /\ \A j \in UploadIds : j \in UploadIds' /\ up'[j] = up[j]
    <3>1. up'[id].asg = a
      BY <1>1 DEF Begins
    <3>2. Queued' = Queued \cup {f}
      BY <1>1 DEF Begins, Puts, f
    <3> QED BY <1>1, <3>1, <3>2 DEF Begins
  <2> QED BY <2>1, <2>2 DEF ResponseInv, FrameInv
<1>2. ASSUME NEW a \in Asg, NEW id \in UploadIds, Writes(a, id) PROVE FrameInv'
    BY <1>0, <1>2
       DEF ResponseInv, Typed, FrameInv, CurrentInv, ReleaseInv, UpTyped, QueueTyped,
           Writes, Puts, Uploads, Chunk
<1>3. ASSUME NEW a \in Asg, NEW id \in UploadIds, NEW ok \in BOOLEAN, Ends(a, id, ok) PROVE FrameInv'
    BY <1>0, <1>3
       DEF ResponseInv, Typed, FrameInv, CurrentInv, ReleaseInv, UpTyped, QueueTyped,
           Ends, Puts, Uploads
<1>4. ASSUME NEW a \in Asg, NEW id \in UploadIds, Drops(a, id) PROVE FrameInv'
    BY <1>0, <1>4
       DEF ResponseInv, Typed, FrameInv, CurrentInv, ReleaseInv, UpTyped, QueueTyped,
           Drops, Overtakes, Uploads
<1>5. ASSUME NEW a \in Asg, NEW id \in UploadIds, Hands(a, id) PROVE FrameInv'
  <2>1. UploadIds' = UploadIds /\ Queued' = Queued /\ streams' = streams /\ replies' = replies /\ engines' = engines
    BY <1>5 DEF Hands, QueuesKept, Uploads
  <2>2. \A j \in UploadIds : up'[j].asg = up[j].asg /\ up'[j].sent = up[j].sent /\ (up'[j].st = "open" <=> up[j].st = "open")
    BY <1>5 DEF Hands, Uploads
  <2> QED BY <2>1, <2>2 DEF ResponseInv, FrameInv
<1>6. ASSUME NEW a \in Asg, Leaves(a) PROVE FrameInv'
    BY <1>0, <1>6
       DEF ResponseInv, Typed, FrameInv, CurrentInv, ReleaseInv, UpTyped, QueueTyped,
           Leaves, Puts, SameUploads
<1>7. CASE Moves
    BY <1>0, <1>7
       DEF ResponseInv, Typed, FrameInv, CurrentInv, ReleaseInv, UpTyped, QueueTyped,
           Moves, Carries, QueuesKept, SameUploads
<1>8. ASSUME NEW f \in DataFrame, Ignores(f) PROVE FrameInv'
    BY <1>0, <1>8
       DEF ResponseInv, Typed, FrameInv, CurrentInv, ReleaseInv, UpTyped, QueueTyped,
           Ignores, Takes, SameUploads
<1>9. ASSUME NEW f \in DataFrame, Mounts(f) PROVE FrameInv'
    BY <1>0, <1>9
       DEF ResponseInv, Typed, FrameInv, CurrentInv, ReleaseInv, UpTyped, QueueTyped,
           Mounts, Takes, SameUploads
<1>10. ASSUME NEW f \in DataFrame, NEW a \in Asg, Feeds(f, a) PROVE FrameInv'
    BY <1>0, <1>10
       DEF ResponseInv, Typed, FrameInv, CurrentInv, ReleaseInv, UpTyped, QueueTyped,
           Feeds, Takes, SameUploads
<1>11. ASSUME NEW f \in DataFrame, NEW a \in Asg, Overflows(f, a) PROVE FrameInv'
    BY <1>0, <1>11
       DEF ResponseInv, Typed, FrameInv, CurrentInv, ReleaseInv, UpTyped, QueueTyped,
           Overflows, Takes, SameUploads, Closed, EndsDoc, Tombed, Replied
<1>12. ASSUME NEW f \in DataFrame, EndsUnknown(f) PROVE FrameInv'
    BY <1>0, <1>12
       DEF ResponseInv, Typed, FrameInv, CurrentInv, ReleaseInv, UpTyped, QueueTyped,
           EndsUnknown, Takes, SameUploads, Replied
<1>13. ASSUME NEW f \in DataFrame, NEW a \in Asg, NEW ok \in BOOLEAN, EndsStream(f, a, ok) PROVE FrameInv'
    BY <1>0, <1>13
       DEF ResponseInv, Typed, FrameInv, CurrentInv, ReleaseInv, UpTyped, QueueTyped,
           EndsStream, Takes, SameUploads, Closed, EndsDoc, Replied
<1>14. ASSUME NEW c \in CancelFrame, NEW a \in Asg, Cuts(c, a) PROVE FrameInv'
    BY <1>0, <1>14
       DEF ResponseInv, Typed, FrameInv, CurrentInv, ReleaseInv, UpTyped, QueueTyped,
           Cuts, Hears, SameUploads, Closed, EndsDoc, Tombed
<1>15. ASSUME NEW c \in CancelFrame, Notes(c) PROVE FrameInv'
    BY <1>0, <1>15
       DEF ResponseInv, Typed, FrameInv, CurrentInv, ReleaseInv, UpTyped, QueueTyped,
           Notes, Hears, SameUploads, Tombed
<1>16. ASSUME NEW f \in DataFrame, NEW ids \in SUBSET UploadIds, Releases(f, ids) PROVE FrameInv'
  <2>1. \A g \in Queued' : g \in Queued /\ Before(f, g)
    BY <1>16, TakenFirst DEF Releases
  <2>2. engines' = engines \ {f.asg} /\ f.t = "release" /\ SameUploads
    BY <1>16 DEF Releases
  <2> QED BY <2>1, <2>2 DEF ResponseInv, FrameInv, Before, SameUploads
<1> QED BY <1>1, <1>2, <1>3, <1>4, <1>5, <1>6, <1>7, <1>8, <1>9, <1>10, <1>11, <1>12,
    <1>13, <1>14, <1>15, <1>16 DEF ResponseStep

(* A release is the last of its tab.                                        *)
LEMMA ReleaseKept ==
    ASSUME ResponseInv, ResponseStep, ResponseShape'
    PROVE  ReleaseInv'
<1>0. Typed /\ Typed'
    BY ShapeTyped, ShapeTypedNext DEF ResponseInv
<1>1. ASSUME NEW a \in Asg, NEW id \in UploadIds', Begins(a, id) PROVE ReleaseInv'
    BY <1>0, <1>1
       DEF ResponseInv, Typed, ReleaseInv, CurrentInv, FrameInv, UpTyped, QueueTyped,
           Begins, Puts
<1>2. ASSUME NEW a \in Asg, NEW id \in UploadIds, Writes(a, id) PROVE ReleaseInv'
    BY <1>0, <1>2
       DEF ResponseInv, Typed, ReleaseInv, CurrentInv, FrameInv, UpTyped, QueueTyped,
           Writes, Puts, Uploads, Chunk
<1>3. ASSUME NEW a \in Asg, NEW id \in UploadIds, NEW ok \in BOOLEAN, Ends(a, id, ok) PROVE ReleaseInv'
    BY <1>0, <1>3
       DEF ResponseInv, Typed, ReleaseInv, CurrentInv, FrameInv, UpTyped, QueueTyped,
           Ends, Puts, Uploads
<1>4. ASSUME NEW a \in Asg, NEW id \in UploadIds, Drops(a, id) PROVE ReleaseInv'
    BY <1>0, <1>4
       DEF ResponseInv, Typed, ReleaseInv, CurrentInv, FrameInv, UpTyped, QueueTyped,
           Drops, Overtakes, Uploads
<1>5. ASSUME NEW a \in Asg, NEW id \in UploadIds, Hands(a, id) PROVE ReleaseInv'
    BY <1>0, <1>5
       DEF ResponseInv, Typed, ReleaseInv, CurrentInv, FrameInv, UpTyped, QueueTyped,
           Hands, QueuesKept, Uploads
<1>6. ASSUME NEW a \in Asg, Leaves(a) PROVE ReleaseInv'
    BY <1>0, <1>6
       DEF ResponseInv, Typed, ReleaseInv, CurrentInv, FrameInv, UpTyped, QueueTyped,
           Leaves, Puts, SameUploads
<1>7. CASE Moves
    BY <1>0, <1>7
       DEF ResponseInv, Typed, ReleaseInv, CurrentInv, FrameInv, UpTyped, QueueTyped,
           Moves, Carries, QueuesKept, SameUploads
<1>8. ASSUME NEW f \in DataFrame, Ignores(f) PROVE ReleaseInv'
    BY <1>0, <1>8
       DEF ResponseInv, Typed, ReleaseInv, CurrentInv, FrameInv, UpTyped, QueueTyped,
           Ignores, Takes, SameUploads
<1>9. ASSUME NEW f \in DataFrame, Mounts(f) PROVE ReleaseInv'
    BY <1>0, <1>9
       DEF ResponseInv, Typed, ReleaseInv, CurrentInv, FrameInv, UpTyped, QueueTyped,
           Mounts, Takes, SameUploads
<1>10. ASSUME NEW f \in DataFrame, NEW a \in Asg, Feeds(f, a) PROVE ReleaseInv'
    BY <1>0, <1>10
       DEF ResponseInv, Typed, ReleaseInv, CurrentInv, FrameInv, UpTyped, QueueTyped,
           Feeds, Takes, SameUploads
<1>11. ASSUME NEW f \in DataFrame, NEW a \in Asg, Overflows(f, a) PROVE ReleaseInv'
    BY <1>0, <1>11
       DEF ResponseInv, Typed, ReleaseInv, CurrentInv, FrameInv, UpTyped, QueueTyped,
           Overflows, Takes, SameUploads, Closed, EndsDoc, Tombed, Replied
<1>12. ASSUME NEW f \in DataFrame, EndsUnknown(f) PROVE ReleaseInv'
    BY <1>0, <1>12
       DEF ResponseInv, Typed, ReleaseInv, CurrentInv, FrameInv, UpTyped, QueueTyped,
           EndsUnknown, Takes, SameUploads, Replied
<1>13. ASSUME NEW f \in DataFrame, NEW a \in Asg, NEW ok \in BOOLEAN, EndsStream(f, a, ok) PROVE ReleaseInv'
    BY <1>0, <1>13
       DEF ResponseInv, Typed, ReleaseInv, CurrentInv, FrameInv, UpTyped, QueueTyped,
           EndsStream, Takes, SameUploads, Closed, EndsDoc, Replied
<1>14. ASSUME NEW c \in CancelFrame, NEW a \in Asg, Cuts(c, a) PROVE ReleaseInv'
    BY <1>0, <1>14
       DEF ResponseInv, Typed, ReleaseInv, CurrentInv, FrameInv, UpTyped, QueueTyped,
           Cuts, Hears, SameUploads, Closed, EndsDoc, Tombed
<1>15. ASSUME NEW c \in CancelFrame, Notes(c) PROVE ReleaseInv'
    BY <1>0, <1>15
       DEF ResponseInv, Typed, ReleaseInv, CurrentInv, FrameInv, UpTyped, QueueTyped,
           Notes, Hears, SameUploads, Tombed
<1>16. ASSUME NEW f \in DataFrame, NEW ids \in SUBSET UploadIds, Releases(f, ids) PROVE ReleaseInv'
  <2>1. f \in Queued /\ \A g \in Queued' : g \in Queued /\ Before(f, g)
    BY <1>16, TakenFirst DEF Releases, Takes
  <2>2. engines' = engines \ {f.asg} /\ f.t = "release" /\ SameUploads
    BY <1>16 DEF Releases
  <2> QED BY <2>1, <2>2 DEF ResponseInv, ReleaseInv, Before, SameUploads
<1> QED BY <1>1, <1>2, <1>3, <1>4, <1>5, <1>6, <1>7, <1>8, <1>9, <1>10, <1>11, <1>12,
    <1>13, <1>14, <1>15, <1>16 DEF ResponseStep

(* The frames of a tab stay in order.                                       *)
LEMMA OrderKept ==
    ASSUME ResponseInv, ResponseStep, ResponseShape'
    PROVE  SentInOrder'
<1>0. Typed /\ Typed'
    BY ShapeTyped, ShapeTypedNext DEF ResponseInv
<1>1. ASSUME NEW a \in Asg, NEW id \in UploadIds', Begins(a, id) PROVE SentInOrder'
  <2> DEFINE h == [t |-> "call", id |-> id, asg |-> a]
  <2>1. h.t = "call" /\ h.id = id /\ Puts(h)
    BY <1>1 DEF Begins
  <2> HIDE DEF h
  <2>2. up'[id].asg = a /\ id \in Nat /\ \A j \in UploadIds : j < id /\ up'[j] = up[j]
    BY <1>1 DEF Begins
  <2>3. ASSUME NEW g \in Queued PROVE Before(g, h)'
    <3>1. CASE g.t = "release"
      BY <1>1, <2>1, <2>2, <3>1 DEF Begins, Before
    <3>2. CASE g.t # "release"
      BY <2>1, <2>2, <3>2 DEF ResponseInv, FrameInv, Before
    <3> QED BY <3>1, <3>2
  <2> QED BY <2>1, <2>2, <2>3, OrderPut
<1>2. ASSUME NEW a \in Asg, NEW id \in UploadIds, Writes(a, id) PROVE SentInOrder'
  <2>0. PICK h : h = Chunk(id, up[id].sent + 1)
    OBVIOUS
  <2>1. h.t = "chunk" /\ h.id = id /\ h.n = up[id].sent + 1 /\ Puts(h)
    BY <1>2, <2>0 DEF Writes, Chunk
  <2>2. /\ id = current[a] /\ id # 0 /\ up[id].st = "open" /\ up[id].asg = a /\ id \in Nat
        /\ \A j \in UploadIds : up'[j].asg = up[j].asg
    BY <1>0, <1>2 DEF Writes, Uploads, ResponseInv, CurrentInv, Typed, UpTyped
  <2>3. ASSUME NEW g \in Queued PROVE Before(g, h)'
    <3>1. CASE g.t = "release"
      BY <2>1, <2>2, <3>1 DEF Before, ResponseInv, ReleaseInv
    <3>2. CASE g.t # "release"
      <4>1. g.id \in UploadIds /\ g.id \in Nat /\ g.t \in {"call", "chunk", "end"}
        BY <1>0, <3>2 DEF ResponseInv, FrameInv, Typed, QueueTyped
      <4>2. up[g.id].asg = a => g.id <= id
        BY <2>2, <4>1 DEF ResponseInv, CurrentInv
      <4>3. g.id = id => g.t = "call" \/ (g.t = "chunk" /\ g.n \in Nat /\ g.n <= up[id].sent)
        BY <1>0, <2>2, <3>2, <4>1 DEF ResponseInv, FrameInv, Typed, QueueTyped
      <4>4. up[id].sent \in Nat
        BY <1>0 DEF Typed, UpTyped
      <4> QED BY <2>1, <2>2, <3>2, <4>1, <4>2, <4>3, <4>4 DEF Before, Sooner
    <3> QED BY <3>1, <3>2
  <2> QED BY <2>1, <2>2, <2>3, OrderPut
<1>3. ASSUME NEW a \in Asg, NEW id \in UploadIds, NEW ok \in BOOLEAN, Ends(a, id, ok) PROVE SentInOrder'
  <2>0. PICK h : h = [t |-> "end", id |-> id, ok |-> ok]
    OBVIOUS
  <2>1. h.t = "end" /\ h.id = id /\ Puts(h)
    BY <1>3, <2>0 DEF Ends
  <2>2. /\ id = current[a] /\ id # 0 /\ up[id].st = "open" /\ up[id].asg = a /\ id \in Nat
        /\ \A j \in UploadIds : up'[j].asg = up[j].asg
    BY <1>0, <1>3 DEF Ends, Uploads, ResponseInv, CurrentInv, Typed, UpTyped
  <2>3. ASSUME NEW g \in Queued PROVE Before(g, h)'
    <3>1. CASE g.t = "release"
      BY <2>1, <2>2, <3>1 DEF Before, ResponseInv, ReleaseInv
    <3>2. CASE g.t # "release"
      <4>1. g.id \in UploadIds /\ g.id \in Nat /\ g.t \in {"call", "chunk", "end"}
        BY <1>0, <3>2 DEF ResponseInv, FrameInv, Typed, QueueTyped
      <4>2. up[g.id].asg = a => g.id <= id
        BY <2>2, <4>1 DEF ResponseInv, CurrentInv
      <4>3. g.id = id => g.t = "call" \/ (g.t = "chunk" /\ g.n \in Nat /\ g.n <= up[id].sent)
        BY <1>0, <2>2, <3>2, <4>1 DEF ResponseInv, FrameInv, Typed, QueueTyped
      <4>4. up[id].sent \in Nat
        BY <1>0 DEF Typed, UpTyped
      <4> QED BY <2>1, <2>2, <3>2, <4>1, <4>2, <4>3, <4>4 DEF Before, Sooner
    <3> QED BY <3>1, <3>2
  <2> QED BY <2>1, <2>2, <2>3, OrderPut
<1>4. ASSUME NEW a \in Asg, NEW id \in UploadIds, Drops(a, id) PROVE SentInOrder'
    BY <1>0, <1>4
       DEF ResponseInv, Typed, SentInOrder, FrameInv, CurrentInv, ReleaseInv, UpTyped,
           QueueTyped, Before, Sooner, Drops, Overtakes, Uploads
<1>5. ASSUME NEW a \in Asg, NEW id \in UploadIds, Hands(a, id) PROVE SentInOrder'
  <2>1. Ordered' = Ordered /\ \A j \in UploadIds : up'[j].asg = up[j].asg
    BY <1>5 DEF Hands, QueuesKept, Uploads
  <2>2. \A p \in Ordered : p[1] \in Queued /\ p[2] \in Queued /\ Before(p[1], p[2])
    BY <1>0 DEF Typed, QueueTyped, ResponseInv, SentInOrder
  <2>3. \A p \in Ordered : Before(p[1], p[2])'
    BY <2>1, <2>2, BeforeKept
  <2> QED BY <2>1, <2>3 DEF SentInOrder
<1>6. ASSUME NEW a \in Asg, Leaves(a) PROVE SentInOrder'
    BY <1>0, <1>6
       DEF ResponseInv, Typed, SentInOrder, FrameInv, CurrentInv, ReleaseInv, UpTyped,
           QueueTyped, Before, Sooner, Leaves, Puts, SameUploads
<1>7. CASE Moves
    BY <1>0, <1>7
       DEF ResponseInv, Typed, SentInOrder, FrameInv, CurrentInv, ReleaseInv, UpTyped,
           QueueTyped, Before, Sooner, Moves, Carries, QueuesKept, SameUploads
<1>8. ASSUME NEW f \in DataFrame, Ignores(f) PROVE SentInOrder'
    BY <1>0, <1>8
       DEF ResponseInv, Typed, SentInOrder, FrameInv, CurrentInv, ReleaseInv, UpTyped,
           QueueTyped, Before, Sooner, Ignores, Takes, SameUploads
<1>9. ASSUME NEW f \in DataFrame, Mounts(f) PROVE SentInOrder'
    BY <1>0, <1>9
       DEF ResponseInv, Typed, SentInOrder, FrameInv, CurrentInv, ReleaseInv, UpTyped,
           QueueTyped, Before, Sooner, Mounts, Takes, SameUploads
<1>10. ASSUME NEW f \in DataFrame, NEW a \in Asg, Feeds(f, a) PROVE SentInOrder'
    BY <1>0, <1>10
       DEF ResponseInv, Typed, SentInOrder, FrameInv, CurrentInv, ReleaseInv, UpTyped,
           QueueTyped, Before, Sooner, Feeds, Takes, SameUploads
<1>11. ASSUME NEW f \in DataFrame, NEW a \in Asg, Overflows(f, a) PROVE SentInOrder'
    BY <1>0, <1>11
       DEF ResponseInv, Typed, SentInOrder, FrameInv, CurrentInv, ReleaseInv, UpTyped,
           QueueTyped, Before, Sooner, Overflows, Takes, SameUploads, Closed, EndsDoc,
           Tombed, Replied
<1>12. ASSUME NEW f \in DataFrame, EndsUnknown(f) PROVE SentInOrder'
    BY <1>0, <1>12
       DEF ResponseInv, Typed, SentInOrder, FrameInv, CurrentInv, ReleaseInv, UpTyped,
           QueueTyped, Before, Sooner, EndsUnknown, Takes, SameUploads, Replied
<1>13. ASSUME NEW f \in DataFrame, NEW a \in Asg, NEW ok \in BOOLEAN, EndsStream(f, a, ok) PROVE SentInOrder'
    BY <1>0, <1>13
       DEF ResponseInv, Typed, SentInOrder, FrameInv, CurrentInv, ReleaseInv, UpTyped,
           QueueTyped, Before, Sooner, EndsStream, Takes, SameUploads, Closed, EndsDoc,
           Replied
<1>14. ASSUME NEW c \in CancelFrame, NEW a \in Asg, Cuts(c, a) PROVE SentInOrder'
    BY <1>0, <1>14
       DEF ResponseInv, Typed, SentInOrder, FrameInv, CurrentInv, ReleaseInv, UpTyped,
           QueueTyped, Before, Sooner, Cuts, Hears, SameUploads, Closed, EndsDoc, Tombed
<1>15. ASSUME NEW c \in CancelFrame, Notes(c) PROVE SentInOrder'
    BY <1>0, <1>15
       DEF ResponseInv, Typed, SentInOrder, FrameInv, CurrentInv, ReleaseInv, UpTyped,
           QueueTyped, Before, Sooner, Notes, Hears, SameUploads, Tombed
<1>16. ASSUME NEW f \in DataFrame, NEW ids \in SUBSET UploadIds, Releases(f, ids) PROVE SentInOrder'
    BY <1>0, <1>16
       DEF ResponseInv, Typed, SentInOrder, FrameInv, CurrentInv, ReleaseInv, UpTyped,
           QueueTyped, Before, Sooner, Releases, Takes, SameUploads, Closed, Tombed
<1> QED BY <1>1, <1>2, <1>3, <1>4, <1>5, <1>6, <1>7, <1>8, <1>9, <1>10, <1>11, <1>12,
    <1>13, <1>14, <1>15, <1>16 DEF ResponseStep

(* Uploads stay, and each with its tab.                                     *)
KeepsTabs == \A j \in UploadIds : j \in UploadIds' /\ up'[j].asg = up[j].asg
LEMMA TabsKept ==
    ASSUME ResponseStep
    PROVE  KeepsTabs
<1>1. ASSUME SameUploads PROVE KeepsTabs
    BY <1>1 DEF SameUploads, KeepsTabs
<1>2. ASSUME NEW id, NEW sent, NEW st, Uploads(id, sent, st) PROVE KeepsTabs
    BY <1>2 DEF Uploads, KeepsTabs
<1>3. ASSUME NEW a \in Asg, NEW id \in UploadIds', Begins(a, id) PROVE KeepsTabs
    BY <1>3 DEF Begins, KeepsTabs
<1>4. ASSUME NEW a \in Asg, NEW id \in UploadIds, Writes(a, id) \/ Drops(a, id) \/ Hands(a, id)
      PROVE  KeepsTabs
    BY <1>2, <1>4 DEF Writes, Drops, Hands
<1>5. ASSUME NEW a \in Asg, NEW id \in UploadIds, NEW ok \in BOOLEAN, Ends(a, id, ok) PROVE KeepsTabs
    BY <1>2, <1>5 DEF Ends
<1>6. CASE Moves \/ \E a \in Asg : Leaves(a)
    BY <1>1, <1>6 DEF Moves, Leaves
<1>7. ASSUME NEW f \in DataFrame, Ignores(f) \/ Mounts(f) \/ EndsUnknown(f) PROVE KeepsTabs
    BY <1>1, <1>7 DEF Ignores, Mounts, EndsUnknown
<1>8. ASSUME NEW f \in DataFrame, NEW ids \in SUBSET UploadIds, Releases(f, ids) PROVE KeepsTabs
    BY <1>1, <1>8 DEF Releases
<1>9. ASSUME NEW f \in DataFrame, NEW a \in Asg, Feeds(f, a) \/ Overflows(f, a) PROVE KeepsTabs
    BY <1>1, <1>9 DEF Feeds, Overflows
<1>10. ASSUME NEW f \in DataFrame, NEW a \in Asg, NEW ok \in BOOLEAN, EndsStream(f, a, ok) PROVE KeepsTabs
    BY <1>1, <1>10 DEF EndsStream
<1>11. ASSUME NEW c \in CancelFrame, Notes(c) PROVE KeepsTabs
    BY <1>1, <1>11 DEF Notes
<1>12. ASSUME NEW c \in CancelFrame, NEW a \in Asg, Cuts(c, a) PROVE KeepsTabs
    BY <1>1, <1>12 DEF Cuts
<1> QED BY <1>3, <1>4, <1>5, <1>6, <1>7, <1>8, <1>9, <1>10, <1>11, <1>12 DEF ResponseStep

(* The steps that leave the streams and the documents of the child alone.   *)
ChildQuiet == streams' = streams /\ docOf' = docOf
LEMMA QuietSteps ==
    ASSUME ResponseStep
    PROVE  \/ ChildQuiet
           \/ \E f \in DataFrame : Mounts(f) \/ \E ids \in SUBSET UploadIds : Releases(f, ids)
           \/ \E f \in DataFrame, a \in Asg : Feeds(f, a) \/ Overflows(f, a) \/ \E ok \in BOOLEAN : EndsStream(f, a, ok)
           \/ \E c \in CancelFrame, a \in Asg : Cuts(c, a)
BY DEF ResponseStep, ChildQuiet, Begins, Writes, Ends, Drops, Hands, Leaves, Moves, Ignores, EndsUnknown, Notes

(* The frames of an upload that are still to come when one of them is       *)
(* taken.                                                                   *)
LEMMA TakenBefore ==
    ASSUME ResponseInv, NEW f, Takes(f), f.t # "release", NEW g \in Queued', g.t # "release", g.id = f.id
    PROVE  Sooner(f, g)
<1>1. g \in Queued /\ Before(f, g) /\ f \in Queued
    BY TakenFirst DEF Takes
<1>2. f.id \in Nat
    BY <1>1, ShapeTyped DEF ResponseInv, Typed, QueueTyped
<1> QED BY <1>1, <1>2 DEF Before

LEMMA CallsAreOthers ==
    ASSUME ResponseInv, NEW f, Takes(f), f.t # "release", NEW g \in Queued', g.t = "call"
    PROVE  g.id # f.id
BY TakenBefore DEF Sooner

(* A stream that still hears of its upload has the document of its tab.     *)
LEMMA OwnBody ==
    ASSUME ResponseInv, NEW id \in DOMAIN streams,
           \/ \E f \in Queued : f.t # "release" /\ f.id = id
           \/ \E c \in Cancelled : c.id = id
    PROVE  docOf[up[id].asg] = [id |-> id, got |-> streams[id].n, st |-> "open"]
<1>0. Typed
    BY ShapeTyped DEF ResponseInv
<1>1. id \in UploadIds /\ id \in Nat /\ up[id].asg \in Asg
    BY <1>0 DEF Typed, StreamTyped, UpTyped
<1>2. id <= docOf[up[id].asg].id
    BY DEF ResponseInv, DocumentInv, DocumentStreams, HasDocument
<1>3. docOf[up[id].asg].id <= id
    BY DEF ResponseInv, DocumentInv, DocumentNewest, CancelInv, CancelOwn
<1>4. docOf[up[id].asg].id = id
    BY <1>0, <1>1, <1>2, <1>3 DEF Typed, BodyTyped
<1>5. docOf[up[id].asg].st = "open" /\ docOf[up[id].asg].got = streams[id].n
    BY <1>4 DEF ResponseInv, DocumentInv, DocumentStreams, HasDocument
<1> QED BY <1>0, <1>1, <1>4, <1>5 DEF Typed, BodyTyped

(* The chunk that is taken is the next one of its stream.                   *)
LEMMA NextChunk ==
    ASSUME ResponseInv, NEW f, Takes(f), f.t = "chunk", f.id \in DOMAIN streams
    PROVE  f.n = streams[f.id].n + 1 /\ f = Chunk(f.id, f.n) /\ f.n <= up[f.id].sent
<1>0. Typed
    BY ShapeTyped DEF ResponseInv
<1>1. f \in Queued /\ f = Chunk(f.id, f.n) /\ f.n \in Nat
    BY <1>0 DEF Takes, Typed, QueueTyped
<1>2. f.id \in UploadIds /\ streams[f.id].n \in Nat /\ up[f.id].sent \in Nat
    BY <1>0 DEF Typed, StreamTyped, UpTyped
<1>3. f.n > streams[f.id].n
    BY <1>1 DEF ResponseInv, WholeInv, WholeStreams, StreamWhole
<1>4. f.n <= up[f.id].sent
    BY <1>1, <1>2 DEF ResponseInv, FrameInv
<1>5. ASSUME f.n > streams[f.id].n + 1 PROVE FALSE
  <2>1. streams[f.id].n + 1 \in (streams[f.id].n + 1)..up[f.id].sent
    BY <1>1, <1>2, <1>4, <1>5
  <2>2. PICK g : g = Chunk(f.id, streams[f.id].n + 1)
    OBVIOUS
  <2>3. g.t = "chunk" /\ g.id = f.id /\ g.n = streams[f.id].n + 1
    BY <2>2 DEF Chunk
  <2>4. g \in Queued
    BY <2>1, <2>2 DEF ResponseInv, WholeInv, WholeStreams, StreamWhole
  <2>5. g \in Queued'
    BY <1>1, <1>2, <1>5, <2>3, <2>4 DEF Takes
  <2>6. Sooner(f, g)
    BY <2>3, <2>5, TakenBefore
  <2> QED BY <1>1, <1>2, <1>5, <2>3, <2>6 DEF Sooner
<1> QED BY <1>1, <1>2, <1>3, <1>4, <1>5

(* The end that is taken comes after every chunk.                           *)
LEMMA EndIsWhole ==
    ASSUME ResponseInv, NEW f, Takes(f), f.t = "end", f.id \in DOMAIN streams
    PROVE  streams[f.id].n = up[f.id].sent
<1>0. Typed
    BY ShapeTyped DEF ResponseInv
<1>2. f.id \in UploadIds /\ streams[f.id].n \in Nat /\ up[f.id].sent \in Nat
    BY <1>0 DEF Typed, StreamTyped, UpTyped
<1>3. streams[f.id].n <= up[f.id].sent
    BY DEF ResponseInv, WholeInv, WholeStreams, StreamWhole
<1>4. ASSUME streams[f.id].n < up[f.id].sent PROVE FALSE
  <2>1. streams[f.id].n + 1 \in (streams[f.id].n + 1)..up[f.id].sent
    BY <1>2, <1>4
  <2>2. PICK g : g = Chunk(f.id, streams[f.id].n + 1)
    OBVIOUS
  <2>3. g.t = "chunk" /\ g.id = f.id
    BY <2>2 DEF Chunk
  <2>4. g \in Queued
    BY <2>1, <2>2 DEF ResponseInv, WholeInv, WholeStreams, StreamWhole
  <2>5. g \in Queued'
    BY <2>3, <2>4 DEF Takes
  <2>6. Sooner(f, g)
    BY <2>3, <2>5, TakenBefore
  <2> QED BY <2>3, <2>6 DEF Sooner
<1> QED BY <1>2, <1>3, <1>4

(* The call of an upload is not taken yet: its chunks are not either.       *)
LEMMA CallsWait ==
    ASSUME ResponseInv, NEW f, Takes(f), up' = up,
           \A g \in Queued' : g.t = "call" => g.id \notin DOMAIN streams' /\ replies'[g.id] = <<>>
    PROVE  WholeCalls'
<1>1. ASSUME NEW g \in Queued', g.t = "call", NEW m \in 1..up[g.id].sent PROVE Chunk(g.id, m) \in Queued'
  <2>1. g \in Queued
    BY TakenFirst
  <2>2. Chunk(g.id, m) \in Queued
    BY <1>1, <2>1 DEF ResponseInv, WholeInv, WholeCalls
  <2>3. Chunk(g.id, m) # f
    <3>1. SUFFICES ASSUME Chunk(g.id, m) = f PROVE FALSE
      OBVIOUS
    <3>2. f.t = "chunk" /\ f.id = g.id
      BY <3>1 DEF Chunk
    <3> QED BY <1>1, <3>2, CallsAreOthers
  <2> QED BY <2>2, <2>3 DEF Takes
<1>2. \A g \in Queued' : g.t = "call" => \A m \in 1..up'[g.id].sent : Chunk(g.id, m) \in Queued'
    BY <1>1
<1> QED BY <1>2 DEF WholeCalls, Chunk

(* What a call waits for is under way.                                      *)
LEMMA CallsKept ==
    ASSUME ResponseInv, ResponseStep, ResponseShape'
    PROVE  WholeCalls'
<1>0. Typed /\ Typed'
    BY ShapeTyped, ShapeTypedNext DEF ResponseInv
<1>1. ASSUME NEW a \in Asg, NEW id \in UploadIds', Begins(a, id) PROVE WholeCalls'
  <2>0. PICK h : h = [t |-> "call", id |-> id, asg |-> a]
    OBVIOUS
  <2>1. h.id = id /\ Queued' = Queued \cup {h}
    BY <1>1, <2>0 DEF Begins, Puts
  <2>2. /\ id \notin DOMAIN streams /\ id \notin UploadIds /\ streams' = streams /\ replies'[id] = <<>> /\ up'[id].sent = 0
        /\ \A j \in UploadIds : up'[j] = up[j] /\ replies'[j] = replies[j]
    <3>1. up'[id].sent = 0
      BY <1>1 DEF Begins
    <3>2. \A j \in UploadIds : j \in Nat /\ j < id
      BY <1>0, <1>1 DEF Begins, Typed, UpTyped
    <3>3. id \notin UploadIds
      BY <3>2
    <3> QED BY <1>0, <1>1, <3>1, <3>3 DEF Begins, Typed, StreamTyped
  <2>3. ASSUME NEW g \in Queued', g.t = "call"
        PROVE  g.id \notin DOMAIN streams' /\ replies'[g.id] = <<>> /\ \A m \in 1..up'[g.id].sent : Chunk(g.id, m) \in Queued'
    <3>1. CASE g = h
      BY <2>1, <2>2, <3>1
    <3>2. CASE g \in Queued
      BY <2>1, <2>2, <2>3, <3>2 DEF ResponseInv, FrameInv, WholeInv, WholeCalls
    <3> QED BY <2>1, <3>1, <3>2
  <2> QED BY <2>3 DEF WholeCalls, Chunk
<1>2. ASSUME NEW a \in Asg, NEW id \in UploadIds, Writes(a, id) PROVE WholeCalls'
    BY <1>0, <1>2
       DEF ResponseInv, Typed, WholeInv, WholeCalls, StreamTyped, FrameInv, CurrentInv,
           UpTyped, QueueTyped, Writes, Puts, Uploads, Chunk
<1>3. ASSUME NEW a \in Asg, NEW id \in UploadIds, NEW ok \in BOOLEAN, Ends(a, id, ok) PROVE WholeCalls'
    BY <1>0, <1>3
       DEF ResponseInv, Typed, WholeInv, WholeCalls, StreamTyped, FrameInv, CurrentInv,
           UpTyped, QueueTyped, Ends, Puts, Uploads
<1>4. ASSUME NEW a \in Asg, NEW id \in UploadIds, Drops(a, id) PROVE WholeCalls'
    BY <1>0, <1>4
       DEF ResponseInv, Typed, WholeInv, WholeCalls, StreamTyped, FrameInv, CurrentInv,
           UpTyped, QueueTyped, Drops, Overtakes, Uploads
<1>5. ASSUME NEW a \in Asg, NEW id \in UploadIds, Hands(a, id) PROVE WholeCalls'
  <2>1. UploadIds' = UploadIds /\ Queued' = Queued /\ streams' = streams /\ replies' = replies /\ engines' = engines
    BY <1>5 DEF Hands, QueuesKept, Uploads
  <2>2. \A j \in UploadIds : up'[j].asg = up[j].asg /\ up'[j].sent = up[j].sent /\ (up'[j].st = "open" <=> up[j].st = "open")
    BY <1>5 DEF Hands, Uploads
  <2> QED BY <2>1, <2>2 DEF ResponseInv, FrameInv, WholeInv, WholeCalls, Chunk
<1>6. ASSUME NEW a \in Asg, Leaves(a) PROVE WholeCalls'
    BY <1>0, <1>6
       DEF ResponseInv, Typed, WholeInv, WholeCalls, StreamTyped, FrameInv, CurrentInv,
           UpTyped, QueueTyped, Leaves, Puts, SameUploads
<1>7. CASE Moves
    BY <1>0, <1>7
       DEF ResponseInv, Typed, WholeInv, WholeCalls, StreamTyped, FrameInv, CurrentInv,
           UpTyped, QueueTyped, Moves, Carries, QueuesKept, SameUploads
<1>8. ASSUME NEW f \in DataFrame, Ignores(f) PROVE WholeCalls'
  <2>1. Takes(f) /\ up' = up /\ f.t # "release"
    BY <1>8 DEF Ignores, SameUploads
  <2>2. \A g \in Queued' : g \in Queued /\ (g.t = "call" => g.id # f.id)
    BY <2>1, TakenFirst, CallsAreOthers
  <2>3. \A g \in Queued : g.t = "call" => g.id \in UploadIds /\ g.id \notin DOMAIN streams /\ replies[g.id] = <<>>
    BY DEF ResponseInv, FrameInv, WholeInv, WholeCalls
  <2>4. \A g \in Queued' : g.t = "call" => g.id \notin DOMAIN streams' /\ replies'[g.id] = <<>>
    BY <1>8, <2>2, <2>3 DEF Ignores
  <2> QED BY <2>1, <2>4, CallsWait
<1>9. ASSUME NEW f \in DataFrame, Mounts(f) PROVE WholeCalls'
  <2>1. Takes(f) /\ up' = up /\ f.t # "release"
    BY <1>9 DEF Mounts, SameUploads
  <2>2. \A g \in Queued' : g \in Queued /\ (g.t = "call" => g.id # f.id)
    BY <2>1, TakenFirst, CallsAreOthers
  <2>3. \A g \in Queued : g.t = "call" => g.id \in UploadIds /\ g.id \notin DOMAIN streams /\ replies[g.id] = <<>>
    BY DEF ResponseInv, FrameInv, WholeInv, WholeCalls
  <2>4. \A g \in Queued' : g.t = "call" => g.id \notin DOMAIN streams' /\ replies'[g.id] = <<>>
    BY <1>9, <2>2, <2>3 DEF Mounts
  <2> QED BY <2>1, <2>4, CallsWait
<1>10. ASSUME NEW f \in DataFrame, NEW a \in Asg, Feeds(f, a) PROVE WholeCalls'
  <2>1. Takes(f) /\ up' = up /\ f.t # "release"
    BY <1>10 DEF Feeds, SameUploads
  <2>2. \A g \in Queued' : g \in Queued /\ (g.t = "call" => g.id # f.id)
    BY <2>1, TakenFirst, CallsAreOthers
  <2>3. \A g \in Queued : g.t = "call" => g.id \in UploadIds /\ g.id \notin DOMAIN streams /\ replies[g.id] = <<>>
    BY DEF ResponseInv, FrameInv, WholeInv, WholeCalls
  <2>4. \A g \in Queued' : g.t = "call" => g.id \notin DOMAIN streams' /\ replies'[g.id] = <<>>
    BY <1>10, <2>2, <2>3 DEF Feeds
  <2> QED BY <2>1, <2>4, CallsWait
<1>11. ASSUME NEW f \in DataFrame, NEW a \in Asg, Overflows(f, a) PROVE WholeCalls'
  <2>1. Takes(f) /\ up' = up /\ f.t # "release"
    BY <1>11 DEF Overflows, SameUploads
  <2>2. \A g \in Queued' : g \in Queued /\ (g.t = "call" => g.id # f.id)
    BY <2>1, TakenFirst, CallsAreOthers
  <2>3. \A g \in Queued : g.t = "call" => g.id \in UploadIds /\ g.id \notin DOMAIN streams /\ replies[g.id] = <<>>
    BY DEF ResponseInv, FrameInv, WholeInv, WholeCalls
  <2>4. \A g \in Queued' : g.t = "call" => g.id \notin DOMAIN streams' /\ replies'[g.id] = <<>>
    BY <1>11, <2>2, <2>3 DEF Overflows, Closed, Replied
  <2> QED BY <2>1, <2>4, CallsWait
<1>12. ASSUME NEW f \in DataFrame, EndsUnknown(f) PROVE WholeCalls'
  <2>1. Takes(f) /\ up' = up /\ f.t # "release"
    BY <1>12 DEF EndsUnknown, SameUploads
  <2>2. \A g \in Queued' : g \in Queued /\ (g.t = "call" => g.id # f.id)
    BY <2>1, TakenFirst, CallsAreOthers
  <2>3. \A g \in Queued : g.t = "call" => g.id \in UploadIds /\ g.id \notin DOMAIN streams /\ replies[g.id] = <<>>
    BY DEF ResponseInv, FrameInv, WholeInv, WholeCalls
  <2>4. \A g \in Queued' : g.t = "call" => g.id \notin DOMAIN streams' /\ replies'[g.id] = <<>>
    BY <1>12, <2>2, <2>3 DEF EndsUnknown, Replied
  <2> QED BY <2>1, <2>4, CallsWait
<1>13. ASSUME NEW f \in DataFrame, NEW a \in Asg, NEW ok \in BOOLEAN, EndsStream(f, a, ok) PROVE WholeCalls'
  <2>1. Takes(f) /\ up' = up /\ f.t # "release"
    BY <1>13 DEF EndsStream, SameUploads
  <2>2. \A g \in Queued' : g \in Queued /\ (g.t = "call" => g.id # f.id)
    BY <2>1, TakenFirst, CallsAreOthers
  <2>3. \A g \in Queued : g.t = "call" => g.id \in UploadIds /\ g.id \notin DOMAIN streams /\ replies[g.id] = <<>>
    BY DEF ResponseInv, FrameInv, WholeInv, WholeCalls
  <2>4. \A g \in Queued' : g.t = "call" => g.id \notin DOMAIN streams' /\ replies'[g.id] = <<>>
    BY <1>13, <2>2, <2>3 DEF EndsStream, Closed, Replied
  <2> QED BY <2>1, <2>4, CallsWait
<1>14. ASSUME NEW c \in CancelFrame, NEW a \in Asg, Cuts(c, a) PROVE WholeCalls'
    BY <1>0, <1>14
       DEF ResponseInv, Typed, WholeInv, WholeCalls, StreamTyped, FrameInv, CurrentInv,
           UpTyped, QueueTyped, Cuts, Hears, SameUploads, Closed, EndsDoc, Tombed
<1>15. ASSUME NEW c \in CancelFrame, Notes(c) PROVE WholeCalls'
    BY <1>0, <1>15
       DEF ResponseInv, Typed, WholeInv, WholeCalls, StreamTyped, FrameInv, CurrentInv,
           UpTyped, QueueTyped, Notes, Hears, SameUploads, Tombed
<1>16. ASSUME NEW f \in DataFrame, NEW ids \in SUBSET UploadIds, Releases(f, ids) PROVE WholeCalls'
  <2>1. Takes(f) /\ up' = up /\ DOMAIN streams' \subseteq DOMAIN streams /\ replies' = replies
    BY <1>16 DEF Releases, SameUploads, Closed
  <2>2. \A g \in Queued' : g \in Queued
    BY <2>1, TakenFirst
  <2>3. \A g \in Queued' : g.t = "call" => g.id \notin DOMAIN streams' /\ replies'[g.id] = <<>>
    BY <2>1, <2>2 DEF ResponseInv, WholeInv, WholeCalls
  <2> QED BY <2>1, <2>3, CallsWait
<1> QED BY <1>1, <1>2, <1>3, <1>4, <1>5, <1>6, <1>7, <1>8, <1>9, <1>10, <1>11, <1>12,
    <1>13, <1>14, <1>15, <1>16 DEF ResponseStep

(* The stream of another upload than that of the frame that is taken.       *)
LEMMA OtherStreams ==
    ASSUME ResponseInv, NEW f, Takes(f), up' = up, NEW id \in DOMAIN streams, id # f.id,
           streams'[id] = streams[id], replies'[id] = replies[id]
    PROVE  StreamWhole(id)'
<1>1. StreamWhole(id)
    BY DEF ResponseInv, WholeInv, WholeStreams
<1>2. ASSUME NEW m \in (streams[id].n + 1)..up[id].sent PROVE Chunk(id, m) \in Queued'
    BY <1>1, <1>2 DEF Takes, StreamWhole, Chunk
<1>3. \A g \in Queued' : g \in Queued
    BY TakenFirst
<1> QED BY <1>1, <1>2, <1>3 DEF StreamWhole, Chunk

(* What a stream waits for is under way.                                    *)
LEMMA StreamsKept ==
    ASSUME ResponseInv, ResponseStep, ResponseShape'
    PROVE  WholeStreams'
<1>0. Typed /\ Typed'
    BY ShapeTyped, ShapeTypedNext DEF ResponseInv
<1>1. ASSUME NEW a \in Asg, NEW id \in UploadIds', Begins(a, id) PROVE WholeStreams'
    BY <1>0, <1>1
       DEF ResponseInv, Typed, WholeInv, WholeStreams, StreamWhole, StreamTyped,
           FrameInv, CurrentInv, UpTyped, QueueTyped, Begins, Puts
<1>2. ASSUME NEW a \in Asg, NEW id \in UploadIds, Writes(a, id) PROVE WholeStreams'
  <2>0. PICK h : h = Chunk(id, up[id].sent + 1)
    OBVIOUS
  <2>1. h.id = id /\ h.n = up[id].sent + 1 /\ Queued' = Queued \cup {h} /\ streams' = streams /\ replies' = replies
    BY <1>2, <2>0 DEF Writes, Puts, Chunk
  <2>2. /\ up'[id].sent = up[id].sent + 1 /\ \A j \in UploadIds \ {id} : up'[j] = up[j]
        /\ \A j \in UploadIds : up[j].sent \in Nat
    BY <1>0, <1>2 DEF Writes, Uploads, Typed, UpTyped
  <2>3. ASSUME NEW j \in DOMAIN streams PROVE StreamWhole(j)'
    <3>1. StreamWhole(j) /\ j \in UploadIds /\ streams[j].n \in Nat
      BY <1>0 DEF ResponseInv, WholeInv, WholeStreams, Typed, StreamTyped
    <3>2. CASE j # id
      BY <2>1, <2>2, <3>1, <3>2 DEF StreamWhole, Chunk
    <3>3. CASE j = id
      <4>1. ASSUME NEW m \in (streams[id].n + 1)..(up[id].sent + 1) PROVE Chunk(id, m) \in Queued'
        <5>1. CASE m = up[id].sent + 1
          BY <2>0, <2>1, <5>1
        <5>2. CASE m # up[id].sent + 1
          <6>1. m \in (streams[id].n + 1)..up[id].sent
            BY <2>2, <3>1, <3>3, <5>2
          <6> QED BY <2>1, <3>1, <3>3, <6>1 DEF StreamWhole
        <5> QED BY <5>1, <5>2
      <4>2. \A f \in Queued' : f.t = "chunk" /\ f.id = id => f.n > streams[id].n
        BY <2>1, <2>2, <3>1, <3>3 DEF StreamWhole
      <4> QED BY <2>1, <2>2, <3>1, <3>3, <4>1, <4>2 DEF StreamWhole, Chunk
    <3> QED BY <3>2, <3>3
  <2> QED BY <2>1, <2>3 DEF WholeStreams
<1>3. ASSUME NEW a \in Asg, NEW id \in UploadIds, NEW ok \in BOOLEAN, Ends(a, id, ok) PROVE WholeStreams'
    BY <1>0, <1>3
       DEF ResponseInv, Typed, WholeInv, WholeStreams, StreamWhole, StreamTyped,
           FrameInv, CurrentInv, UpTyped, QueueTyped, Ends, Puts, Uploads
<1>4. ASSUME NEW a \in Asg, NEW id \in UploadIds, Drops(a, id) PROVE WholeStreams'
  <2>1. /\ Queued' = Queued /\ streams' = streams /\ replies' = replies
        /\ \A j \in DOMAIN streams : up'[j].sent = up[j].sent
    BY <1>0, <1>4 DEF Drops, Overtakes, Uploads, Typed, StreamTyped
  <2> QED BY <2>1 DEF ResponseInv, WholeInv, WholeStreams, StreamWhole, Chunk
<1>5. ASSUME NEW a \in Asg, NEW id \in UploadIds, Hands(a, id) PROVE WholeStreams'
  <2>1. UploadIds' = UploadIds /\ Queued' = Queued /\ streams' = streams /\ replies' = replies /\ engines' = engines
    BY <1>5 DEF Hands, QueuesKept, Uploads
  <2>2. \A j \in UploadIds : up'[j].asg = up[j].asg /\ up'[j].sent = up[j].sent /\ (up'[j].st = "open" <=> up[j].st = "open")
    BY <1>5 DEF Hands, Uploads
  <2>3. DOMAIN streams \subseteq UploadIds
    BY <1>0 DEF Typed, StreamTyped
  <2> QED BY <2>1, <2>2, <2>3 DEF ResponseInv, WholeInv, WholeStreams, StreamWhole, Chunk
<1>6. ASSUME NEW a \in Asg, Leaves(a) PROVE WholeStreams'
    BY <1>0, <1>6
       DEF ResponseInv, Typed, WholeInv, WholeStreams, StreamWhole, StreamTyped,
           FrameInv, CurrentInv, UpTyped, QueueTyped, Leaves, Puts, SameUploads
<1>7. CASE Moves
    BY <1>0, <1>7
       DEF ResponseInv, Typed, WholeInv, WholeStreams, StreamWhole, StreamTyped,
           FrameInv, CurrentInv, UpTyped, QueueTyped, Moves, Carries, QueuesKept,
           SameUploads
<1>8. ASSUME NEW f \in DataFrame, Ignores(f) PROVE WholeStreams'
  <2>1. Takes(f) /\ up' = up
    BY <1>8 DEF Ignores, SameUploads
  <2>2. \A j \in DOMAIN streams' : j \in DOMAIN streams /\ j # f.id
    BY <1>8 DEF Ignores, ResponseInv, TombInv, TombOver
  <2>3. \A j \in DOMAIN streams' : streams'[j] = streams[j] /\ replies'[j] = replies[j]
    BY <1>0, <1>8, <2>2 DEF Ignores, Typed, StreamTyped
  <2> QED BY <2>1, <2>2, <2>3, OtherStreams DEF WholeStreams
<1>9. ASSUME NEW f \in DataFrame, Mounts(f) PROVE WholeStreams'
  <2>1. Takes(f) /\ up' = up /\ replies' = replies /\ f \in Queued /\ f.t = "call"
    BY <1>9 DEF Mounts, SameUploads, Takes
  <2>2. f.id \notin DOMAIN streams /\ replies[f.id] = <<>> /\ \A m \in 1..up[f.id].sent : Chunk(f.id, m) \in Queued
    BY <2>1 DEF ResponseInv, WholeInv, WholeCalls
  <2>3. streams'[f.id].n = 0
    BY <1>9 DEF Mounts
  <2>4. up[f.id].sent \in Nat
    BY <1>0, <2>1 DEF Typed, UpTyped, ResponseInv, FrameInv
  <2>5. ASSUME NEW m \in 1..up[f.id].sent PROVE Chunk(f.id, m) \in Queued'
    BY <2>1, <2>2, <2>5 DEF Takes, Chunk
  <2>6. ASSUME NEW g \in Queued', g.t = "chunk", g.id = f.id PROVE g.n > 0
    <3>1. g \in Queued
      BY <2>1, TakenFirst
    <3> QED BY <2>4, <2>6, <3>1 DEF ResponseInv, FrameInv
  <2>7. StreamWhole(f.id)'
    BY <2>1, <2>2, <2>3, <2>4, <2>5, <2>6 DEF StreamWhole, Chunk
  <2>8. ASSUME NEW j \in DOMAIN streams', j # f.id PROVE StreamWhole(j)'
    <3>1. j \in DOMAIN streams /\ streams'[j] = streams[j]
      BY <1>9, <2>8 DEF Mounts
    <3> QED BY <2>1, <2>8, <3>1, OtherStreams
  <2> QED BY <2>7, <2>8 DEF WholeStreams
<1>10. ASSUME NEW f \in DataFrame, NEW a \in Asg, Feeds(f, a) PROVE WholeStreams'
  <2>1. Takes(f) /\ up' = up /\ replies' = replies /\ f \in Queued /\ f.t = "chunk" /\ f.id \in DOMAIN streams
    BY <1>10 DEF Feeds, SameUploads, Takes
  <2>2. f.n = streams[f.id].n + 1 /\ f = Chunk(f.id, f.n) /\ f.n <= up[f.id].sent
    BY <2>1, NextChunk
  <2>3. StreamWhole(f.id) /\ streams[f.id].n \in Nat /\ up[f.id].sent \in Nat
    BY <1>0, <2>1 DEF ResponseInv, WholeInv, WholeStreams, Typed, StreamTyped, UpTyped
  <2>4. streams'[f.id].n = f.n
    BY <1>10, <2>2 DEF Feeds
  <2>5. ASSUME NEW m \in (f.n + 1)..up[f.id].sent PROVE Chunk(f.id, m) \in Queued'
    <3>1. Chunk(f.id, m) \in Queued
      BY <2>2, <2>3 DEF StreamWhole
    <3>2. Chunk(f.id, m).n # f.n
      BY <2>2, <2>3 DEF Chunk
    <3> QED BY <2>1, <3>1, <3>2 DEF Takes
  <2>6. ASSUME NEW g \in Queued', g.t = "chunk", g.id = f.id PROVE g.n > f.n
    <3>1. Sooner(f, g)
      BY <2>1, <2>6, TakenBefore
    <3> QED BY <1>0, <2>1, <2>2, <2>3, <2>6, <3>1, TakenFirst DEF Sooner, Typed, QueueTyped
  <2>7. StreamWhole(f.id)'
    BY <2>1, <2>2, <2>3, <2>4, <2>5, <2>6 DEF StreamWhole, Chunk
  <2>8. ASSUME NEW j \in DOMAIN streams', j # f.id PROVE StreamWhole(j)'
    <3>1. j \in DOMAIN streams /\ streams'[j] = streams[j]
      BY <1>10, <2>8 DEF Feeds
    <3> QED BY <2>1, <2>8, <3>1, OtherStreams
  <2> QED BY <2>7, <2>8 DEF WholeStreams
<1>11. ASSUME NEW f \in DataFrame, NEW a \in Asg, Overflows(f, a) PROVE WholeStreams'
  <2>1. Takes(f) /\ up' = up
    BY <1>11 DEF Overflows, SameUploads
  <2>2. \A j \in DOMAIN streams' : j \in DOMAIN streams /\ j # f.id
    BY <1>11 DEF Overflows, Closed
  <2>3. \A j \in DOMAIN streams' : streams'[j] = streams[j] /\ replies'[j] = replies[j]
    BY <1>0, <1>11, <2>2 DEF Overflows, Closed, Replied, Typed, StreamTyped
  <2> QED BY <2>1, <2>2, <2>3, OtherStreams DEF WholeStreams
<1>12. ASSUME NEW f \in DataFrame, EndsUnknown(f) PROVE WholeStreams'
  <2>1. Takes(f) /\ up' = up
    BY <1>12 DEF EndsUnknown, SameUploads
  <2>2. \A j \in DOMAIN streams' : j \in DOMAIN streams /\ j # f.id
    BY <1>12 DEF EndsUnknown
  <2>3. \A j \in DOMAIN streams' : streams'[j] = streams[j] /\ replies'[j] = replies[j]
    BY <1>0, <1>12, <2>2 DEF EndsUnknown, Replied, Typed, StreamTyped
  <2> QED BY <2>1, <2>2, <2>3, OtherStreams DEF WholeStreams
<1>13. ASSUME NEW f \in DataFrame, NEW a \in Asg, NEW ok \in BOOLEAN, EndsStream(f, a, ok) PROVE WholeStreams'
  <2>1. Takes(f) /\ up' = up
    BY <1>13 DEF EndsStream, SameUploads
  <2>2. \A j \in DOMAIN streams' : j \in DOMAIN streams /\ j # f.id
    BY <1>13 DEF EndsStream, Closed
  <2>3. \A j \in DOMAIN streams' : streams'[j] = streams[j] /\ replies'[j] = replies[j]
    BY <1>0, <1>13, <2>2 DEF EndsStream, Closed, Replied, Typed, StreamTyped
  <2> QED BY <2>1, <2>2, <2>3, OtherStreams DEF WholeStreams
<1>14. ASSUME NEW c \in CancelFrame, NEW a \in Asg, Cuts(c, a) PROVE WholeStreams'
    BY <1>0, <1>14
       DEF ResponseInv, Typed, WholeInv, WholeStreams, StreamWhole, StreamTyped,
           FrameInv, CurrentInv, UpTyped, QueueTyped, Cuts, Hears, SameUploads, Closed,
           EndsDoc, Tombed
<1>15. ASSUME NEW c \in CancelFrame, Notes(c) PROVE WholeStreams'
    BY <1>0, <1>15
       DEF ResponseInv, Typed, WholeInv, WholeStreams, StreamWhole, StreamTyped,
           FrameInv, CurrentInv, UpTyped, QueueTyped, Notes, Hears, SameUploads, Tombed
<1>16. ASSUME NEW f \in DataFrame, NEW ids \in SUBSET UploadIds, Releases(f, ids) PROVE WholeStreams'
  <2>1. Takes(f) /\ up' = up
    BY <1>16 DEF Releases, SameUploads
  <2>2. \A j \in DOMAIN streams' : j \in DOMAIN streams /\ j # f.id
    <3>0. f.id = 0
      BY <1>16, FrameKinds DEF Releases, ReleaseFrame
    <3>1. f.id \notin UploadIds
      BY <1>0, <3>0 DEF Typed, UpTyped
    <3> QED BY <1>0, <1>16, <3>1 DEF Releases, Closed, Typed, StreamTyped
  <2>3. \A j \in DOMAIN streams' : streams'[j] = streams[j] /\ replies'[j] = replies[j]
    BY <1>0, <1>16, <2>2 DEF Releases, Closed, Typed, StreamTyped
  <2> QED BY <2>1, <2>2, <2>3, OtherStreams DEF WholeStreams
<1> QED BY <1>1, <1>2, <1>3, <1>4, <1>5, <1>6, <1>7, <1>8, <1>9, <1>10, <1>11, <1>12,
    <1>13, <1>14, <1>15, <1>16 DEF ResponseStep

(* A document is about an upload of its tab, and open only with its stream. *)
LEMMA OwnedKept ==
    ASSUME ResponseInv, ResponseStep, ResponseShape'
    PROVE  DocumentOwned'
<1>0. Typed /\ KeepsTabs
    BY ShapeTyped, TabsKept DEF ResponseInv
<1>1. CASE ChildQuiet
    BY <1>0, <1>1 DEF ChildQuiet, KeepsTabs, ResponseInv, DocumentInv, DocumentOwned
<1>2. ASSUME NEW f \in DataFrame, Mounts(f) PROVE DocumentOwned'
  <2>1. f \in Queued /\ f.t = "call"
    BY <1>2 DEF Mounts, Takes
  <2>2. f.id \in UploadIds /\ f.asg = up[f.id].asg /\ up[f.id].asg \in Asg
    BY <1>0, <2>1 DEF ResponseInv, FrameInv, Typed, UpTyped
  <2>3. /\ \A b \in Asg \ {f.asg} : docOf'[b] = docOf[b]
        /\ docOf'[f.asg].id = f.id
        /\ \A j \in DOMAIN streams : j \in DOMAIN streams' /\ f.id \in DOMAIN streams'
        /\ UploadIds' = UploadIds /\ up' = up
    <3>1. docOf'[f.asg] = [id |-> f.id, got |-> 0, st |-> "open"]
      BY <1>0, <1>2, <2>2 DEF Mounts, Typed, BodyTyped
    <3>2. f.id \in DOMAIN streams'
      BY <1>2 DEF Mounts
    <3> QED BY <1>0, <1>2, <3>1, <3>2 DEF Mounts, Typed, BodyTyped, SameUploads
  <2>4. ASSUME NEW b \in Asg
        PROVE  /\ docOf'[b].id # 0 => docOf'[b].id \in UploadIds' /\ up'[docOf'[b].id].asg = b
               /\ docOf'[b].st = "open" => docOf'[b].id \in DOMAIN streams'
    <3>1. CASE b = f.asg
      <4>1. f.id \in DOMAIN streams'
        BY <1>2 DEF Mounts
      <4> QED BY <2>2, <2>3, <3>1, <4>1
    <3>2. CASE b # f.asg
      BY <2>3, <3>2 DEF ResponseInv, DocumentInv, DocumentOwned
    <3> QED BY <3>1, <3>2
  <2> QED BY <2>4 DEF DocumentOwned
<1>3. ASSUME NEW f \in DataFrame, NEW ids \in SUBSET UploadIds, Releases(f, ids) PROVE DocumentOwned'
  <2>1. /\ \A b \in Asg \ {f.asg} : docOf'[b] = docOf[b]
        /\ UploadIds' = UploadIds /\ up' = up
        /\ \A j \in DOMAIN streams : up[j].asg # f.asg => j \in DOMAIN streams'
    BY <1>0, <1>3 DEF Releases, Typed, BodyTyped, SameUploads, Closed
  <2>2. f.asg \in Asg => docOf'[f.asg].id = 0 /\ docOf'[f.asg].st = "none"
    BY <1>0, <1>3 DEF Releases, Typed, BodyTyped, NoBody
  <2>3. ASSUME NEW b \in Asg
        PROVE  /\ docOf'[b].id # 0 => docOf'[b].id \in UploadIds' /\ up'[docOf'[b].id].asg = b
               /\ docOf'[b].st = "open" => docOf'[b].id \in DOMAIN streams'
    <3>1. CASE b = f.asg
      BY <2>2, <3>1
    <3>2. CASE b # f.asg
      <4>1. docOf[b].st = "open" => docOf[b].id # 0
        BY <1>0 DEF Typed, StreamTyped, UpTyped, ResponseInv, DocumentInv, DocumentOwned
      <4> QED BY <2>1, <3>2, <4>1 DEF ResponseInv, DocumentInv, DocumentOwned
    <3> QED BY <3>1, <3>2
  <2> QED BY <2>3 DEF DocumentOwned
<1>4. ASSUME NEW f \in DataFrame, NEW a \in Asg, Feeds(f, a) PROVE DocumentOwned'
  <2>1. \A b \in Asg : docOf'[b].id = docOf[b].id /\ docOf'[b].st = docOf[b].st
    <3>1. docOf'[a].id = docOf[a].id /\ docOf'[a].st = docOf[a].st
      BY <1>4 DEF Feeds
    <3> QED BY <1>4, <3>1 DEF Feeds
  <2>2. UploadIds' = UploadIds /\ up' = up /\ DOMAIN streams' = DOMAIN streams
    BY <1>4 DEF Feeds, SameUploads
  <2> QED BY <2>1, <2>2 DEF ResponseInv, DocumentInv, DocumentOwned
<1>5. ASSUME NEW id, NEW a \in Asg, NEW st \in {"complete", "aborted"}, Closed({id}), EndsDoc(a, st), SameUploads,
             a = up[id].asg, id \in UploadIds
      PROVE DocumentOwned'
  <2>1. \A b \in Asg : docOf'[b].id = docOf[b].id
    BY <1>5 DEF EndsDoc
  <2>2. docOf'[a].st # "open"
    BY <1>0, <1>5 DEF EndsDoc, Typed, BodyTyped
  <2>3. ASSUME NEW b \in Asg, docOf'[b].st = "open" PROVE docOf'[b].id \in DOMAIN streams'
    <3>1. docOf'[b] = docOf[b] /\ b # a
      BY <1>5, <2>2, <2>3 DEF EndsDoc
    <3>2. docOf[b].id \in DOMAIN streams /\ docOf[b].id \in UploadIds /\ up[docOf[b].id].asg = b
      BY <1>0, <2>3, <3>1 DEF ResponseInv, DocumentInv, DocumentOwned, Typed, StreamTyped, UpTyped
    <3> QED BY <1>5, <3>1, <3>2 DEF Closed
  <2> QED BY <1>5, <2>1, <2>3 DEF ResponseInv, DocumentInv, DocumentOwned, SameUploads
<1>6. ASSUME NEW f \in DataFrame, NEW a \in Asg, Overflows(f, a) PROVE DocumentOwned'
    BY <1>0, <1>5, <1>6 DEF Overflows, Typed, StreamTyped
<1>7. ASSUME NEW f \in DataFrame, NEW a \in Asg, NEW ok \in BOOLEAN, EndsStream(f, a, ok) PROVE DocumentOwned'
    BY <1>0, <1>5, <1>7 DEF EndsStream, Typed, StreamTyped
<1>8. ASSUME NEW c \in CancelFrame, NEW a \in Asg, Cuts(c, a) PROVE DocumentOwned'
    BY <1>0, <1>5, <1>8 DEF Cuts, Typed, StreamTyped
<1> QED BY <1>1, <1>2, <1>3, <1>4, <1>6, <1>7, <1>8, QuietSteps

(* Nothing older than the document of its tab is under way.                 *)
NewestFor(g) ==
    g.t # "release" => /\ docOf[up[g.id].asg].id <= g.id
                       /\ g.t = "call" => docOf[up[g.id].asg].id # g.id
LEMMA NewestStays ==
    ASSUME ResponseInv, KeepsTabs, \A b \in Asg : docOf'[b].id = docOf[b].id, NEW g \in Queued
    PROVE  NewestFor(g)'
<1>1. NewestFor(g)
    BY DEF ResponseInv, DocumentInv, DocumentNewest, NewestFor
<1>2. g.t # "release" => up'[g.id].asg = up[g.id].asg /\ up[g.id].asg \in Asg
    BY ShapeTyped DEF ResponseInv, FrameInv, KeepsTabs, Typed, UpTyped
<1> QED BY <1>1, <1>2 DEF NewestFor

(* What the browser sends is of the upload of its tab, its newest.          *)
LEMMA NewestSent ==
    ASSUME ResponseInv, NEW a \in Asg, NEW id \in UploadIds, id = current[a], id # 0
    PROVE  up[id].asg = a /\ docOf[a].id <= id
<1>1. up[id].asg = a /\ id \in Nat
    BY ShapeTyped DEF ResponseInv, CurrentInv, Typed, UpTyped
<1>2. docOf[a].id = 0 \/ (docOf[a].id \in UploadIds /\ up[docOf[a].id].asg = a)
    BY DEF ResponseInv, DocumentInv, DocumentOwned
<1>3. ASSUME NEW j \in UploadIds, up[j].asg = a PROVE j <= id
  <2>1. current[up[j].asg] # 0 => j <= current[up[j].asg]
    BY DEF ResponseInv, CurrentInv
  <2> QED BY <1>3, <2>1
<1>4. CASE docOf[a].id = 0
  <2>1. docOf[a].id <= id
    BY <1>1, <1>4
  <2> QED BY <1>1, <2>1
<1>5. CASE docOf[a].id \in UploadIds /\ up[docOf[a].id].asg = a
  <2>1. docOf[a].id <= id
    BY <1>3, <1>5
  <2> QED BY <1>1, <2>1
<1> QED BY <1>2, <1>4, <1>5

LEMMA NewestKept ==
    ASSUME ResponseInv, ResponseStep, ResponseShape'
    PROVE  DocumentNewest'
<1>0. Typed /\ KeepsTabs
    BY ShapeTyped, TabsKept DEF ResponseInv
<1> SUFFICES ASSUME NEW g \in Queued' PROVE NewestFor(g)'
    BY DEF DocumentNewest, NewestFor
<1>1. ASSUME \A b \in Asg : docOf'[b].id = docOf[b].id, g \in Queued PROVE NewestFor(g)'
    BY <1>0, <1>1, NewestStays
<1>2. ASSUME NEW a \in Asg, NEW id \in UploadIds', Begins(a, id) PROVE NewestFor(g)'
  <2>1. CASE g \in Queued
    BY <1>1, <1>2, <2>1 DEF Begins
  <2>2. CASE g = [t |-> "call", id |-> id, asg |-> a]
    <3>1. g.id = id
      BY <2>2
    <3>2. up'[id].asg = a /\ docOf' = docOf
      BY <1>2 DEF Begins
    <3>3. id \in Nat \ {0} /\ \A j \in UploadIds : j \in Nat /\ j < id
      BY <1>0, <1>2 DEF Begins, Typed, UpTyped
    <3>4. docOf[a].id = 0 \/ docOf[a].id \in UploadIds
      BY DEF ResponseInv, DocumentInv, DocumentOwned
    <3>5. docOf[a].id \in Nat /\ docOf[a].id < id
      BY <3>3, <3>4
    <3> QED BY <3>1, <3>2, <3>3, <3>5 DEF NewestFor
  <2> QED BY <1>2, <2>1, <2>2 DEF Begins, Puts
<1>3. ASSUME NEW a \in Asg, NEW id \in UploadIds, Writes(a, id) PROVE NewestFor(g)'
  <2>1. CASE g \in Queued
    BY <1>1, <1>3, <2>1 DEF Writes
  <2>2. CASE g = Chunk(id, up[id].sent + 1)
    <3>1. g.id = id /\ g.t = "chunk"
      BY <2>2 DEF Chunk
    <3>2. up'[id].asg = up[id].asg /\ docOf' = docOf /\ id = current[a] /\ id # 0
      BY <1>3 DEF Writes, Uploads
    <3> QED BY <3>1, <3>2, NewestSent DEF NewestFor
  <2> QED BY <1>3, <2>1, <2>2 DEF Writes, Puts
<1>4. ASSUME NEW a \in Asg, NEW id \in UploadIds, NEW ok \in BOOLEAN, Ends(a, id, ok) PROVE NewestFor(g)'
  <2>1. CASE g \in Queued
    BY <1>1, <1>4, <2>1 DEF Ends
  <2>2. CASE g = [t |-> "end", id |-> id, ok |-> ok]
    <3>1. g.id = id /\ g.t = "end"
      BY <2>2
    <3>2. up'[id].asg = up[id].asg /\ docOf' = docOf /\ id = current[a] /\ id # 0
      BY <1>4 DEF Ends, Uploads
    <3> QED BY <3>1, <3>2, NewestSent DEF NewestFor
  <2> QED BY <1>4, <2>1, <2>2 DEF Ends, Puts
<1>5. ASSUME NEW a \in Asg, Leaves(a) PROVE NewestFor(g)'
    BY <1>1, <1>5 DEF Leaves, Puts, NewestFor
<1>6. ASSUME NEW f \in DataFrame, Mounts(f) PROVE NewestFor(g)'
  <2>1. Takes(f) /\ f.t = "call" /\ f \in Queued /\ g \in Queued /\ Before(f, g) /\ up' = up
    BY <1>6, TakenFirst DEF Mounts, Takes, SameUploads
  <2>2. f.id \in UploadIds /\ f.asg = up[f.id].asg /\ up[f.id].asg \in Asg /\ f.id \in Nat
    BY <1>0, <2>1 DEF ResponseInv, FrameInv, Typed, UpTyped
  <2>3. docOf'[f.asg].id = f.id /\ \A b \in Asg \ {f.asg} : docOf'[b] = docOf[b]
    BY <1>0, <1>6, <2>2 DEF Mounts, Typed, BodyTyped
  <2>4. ASSUME g.t # "release" PROVE g.id \in UploadIds /\ up[g.id].asg \in Asg /\ g.id \in Nat /\ (g.t = "call" => g.id # f.id)
    BY <1>0, <2>1, <2>4, CallsAreOthers DEF ResponseInv, FrameInv, Typed, UpTyped
  <2>5. ASSUME g.t # "release", up[g.id].asg = f.asg PROVE f.id <= g.id
    BY <2>1, <2>2, <2>4, <2>5 DEF Before
  <2>6. NewestFor(g)
    BY <2>1 DEF ResponseInv, DocumentInv, DocumentNewest, NewestFor
  <2> QED BY <2>1, <2>3, <2>4, <2>5, <2>6 DEF NewestFor
<1>7. ASSUME NEW f \in DataFrame, NEW ids \in SUBSET UploadIds, Releases(f, ids) PROVE NewestFor(g)'
  <2>1. g \in Queued /\ Before(f, g) /\ up' = up /\ f.t = "release"
    BY <1>7, TakenFirst DEF Releases, SameUploads
  <2>2. \A b \in Asg \ {f.asg} : docOf'[b] = docOf[b]
    BY <1>0, <1>7 DEF Releases, Typed, BodyTyped
  <2>3. g.t # "release" => up[g.id].asg \in Asg /\ up[g.id].asg # f.asg
    BY <1>0, <2>1 DEF Before, ResponseInv, FrameInv, Typed, UpTyped
  <2>4. NewestFor(g)
    BY <2>1 DEF ResponseInv, DocumentInv, DocumentNewest, NewestFor
  <2> QED BY <2>1, <2>2, <2>3, <2>4 DEF NewestFor
<1>8. ASSUME NEW f \in DataFrame, NEW a \in Asg, Feeds(f, a) PROVE NewestFor(g)'
  <2>1. docOf'[a].id = docOf[a].id
    BY <1>8 DEF Feeds
  <2> QED BY <1>1, <1>8, <2>1 DEF Feeds, Takes
<1>9. ASSUME NEW a \in Asg, NEW st, EndsDoc(a, st), g \in Queued PROVE NewestFor(g)'
  <2>1. docOf'[a].id = docOf[a].id
    BY <1>9 DEF EndsDoc
  <2> QED BY <1>1, <1>9, <2>1 DEF EndsDoc
<1>10. ASSUME NEW f \in DataFrame, NEW a \in Asg, Overflows(f, a) PROVE NewestFor(g)'
    BY <1>9, <1>10 DEF Overflows, Takes
<1>11. ASSUME NEW f \in DataFrame, NEW a \in Asg, NEW ok \in BOOLEAN, EndsStream(f, a, ok) PROVE NewestFor(g)'
    BY <1>9, <1>11 DEF EndsStream, Takes
<1>12. ASSUME NEW c \in CancelFrame, NEW a \in Asg, Cuts(c, a) PROVE NewestFor(g)'
    BY <1>9, <1>12 DEF Cuts, Hears
<1>13. ASSUME docOf' = docOf, Queued' \subseteq Queued PROVE NewestFor(g)'
    BY <1>1, <1>13
<1>14. ASSUME NEW a \in Asg, NEW id \in UploadIds, Drops(a, id) \/ Hands(a, id) PROVE NewestFor(g)'
    BY <1>13, <1>14 DEF Drops, Hands, Overtakes, QueuesKept
<1>15. ASSUME NEW f \in DataFrame, Ignores(f) \/ EndsUnknown(f) PROVE NewestFor(g)'
    BY <1>13, <1>15 DEF Ignores, EndsUnknown, Takes
<1>16. ASSUME NEW c \in CancelFrame, Notes(c) PROVE NewestFor(g)'
    BY <1>13, <1>16 DEF Notes, Hears
<1>17. CASE Moves
    BY <1>13, <1>17 DEF Moves, Carries, QueuesKept
<1> QED BY <1>2, <1>3, <1>4, <1>5, <1>6, <1>7, <1>8, <1>10, <1>11, <1>12, <1>14, <1>15, <1>16, <1>17 DEF ResponseStep

(* An open stream has its document, or a later one took its place.          *)
LEMMA DocumentStreamsKept ==
    ASSUME ResponseInv, ResponseStep, ResponseShape'
    PROVE  DocumentStreams'
<1>0. Typed /\ KeepsTabs
    BY ShapeTyped, TabsKept DEF ResponseInv
<1> SUFFICES ASSUME NEW j \in DOMAIN streams' PROVE HasDocument(j)'
    BY DEF DocumentStreams
<1>a. ASSUME j \in DOMAIN streams PROVE HasDocument(j) /\ j \in UploadIds /\ j \in Nat /\ up[j].asg \in Asg /\ up'[j].asg = up[j].asg
    BY <1>0, <1>a DEF ResponseInv, DocumentInv, DocumentStreams, Typed, StreamTyped, UpTyped, KeepsTabs
<1>1. CASE ChildQuiet
  <2>1. j \in DOMAIN streams /\ docOf' = docOf /\ streams' = streams
    BY <1>1 DEF ChildQuiet
  <2> QED BY <1>a, <2>1 DEF HasDocument
<1>2. ASSUME NEW f \in DataFrame, Mounts(f) PROVE HasDocument(j)'
  <2>1. f \in Queued /\ f.t = "call" /\ up' = up
    BY <1>2 DEF Mounts, Takes, SameUploads
  <2>2. f.id \in UploadIds /\ f.asg = up[f.id].asg /\ up[f.id].asg \in Asg /\ f.id \in Nat /\ f.id \notin DOMAIN streams
    BY <1>0, <2>1 DEF ResponseInv, FrameInv, WholeInv, WholeCalls, Typed, UpTyped
  <2>3. docOf'[f.asg] = [id |-> f.id, got |-> 0, st |-> "open"] /\ \A b \in Asg \ {f.asg} : docOf'[b] = docOf[b]
    BY <1>0, <1>2, <2>2 DEF Mounts, Typed, BodyTyped
  <2>4. CASE j = f.id
    <3>1. streams'[f.id].n = 0
      BY <1>2 DEF Mounts
    <3> QED BY <2>1, <2>2, <2>3, <2>4, <3>1 DEF HasDocument
  <2>5. CASE j # f.id
    <3>1. j \in DOMAIN streams /\ streams'[j] = streams[j]
      BY <1>2, <2>5 DEF Mounts
    <3>2. docOf[f.asg].id <= f.id /\ docOf[f.asg].id \in Nat
      BY <1>0, <2>1, <2>2 DEF ResponseInv, DocumentInv, DocumentNewest, Typed, BodyTyped
    <3>3. CASE up[j].asg = f.asg
      <4>1. j <= f.id
        BY <1>a, <2>2, <3>1, <3>2, <3>3 DEF HasDocument
      <4>2. docOf'[f.asg].id = f.id
        BY <2>3
      <4> QED BY <2>1, <2>5, <3>3, <4>1, <4>2 DEF HasDocument
    <3>4. CASE up[j].asg # f.asg
      <4>1. docOf'[up[j].asg] = docOf[up[j].asg]
        BY <1>a, <2>3, <3>1, <3>4
      <4> QED BY <1>a, <2>1, <3>1, <4>1 DEF HasDocument
    <3> QED BY <3>3, <3>4
  <2> QED BY <2>4, <2>5
<1>3. ASSUME NEW f \in DataFrame, NEW ids \in SUBSET UploadIds, Releases(f, ids) PROVE HasDocument(j)'
  <2>1. j \in DOMAIN streams /\ streams'[j] = streams[j] /\ up[j].asg # f.asg
    BY <1>3 DEF Releases, Closed
  <2>2. docOf'[up[j].asg] = docOf[up[j].asg] /\ up' = up
    BY <1>0, <1>3, <1>a, <2>1 DEF Releases, Typed, BodyTyped, SameUploads
  <2> QED BY <1>a, <2>1, <2>2 DEF HasDocument
<1>4. ASSUME NEW f \in DataFrame, NEW a \in Asg, Feeds(f, a) PROVE HasDocument(j)'
  <2>1. j \in DOMAIN streams /\ up' = up /\ a = up[f.id].asg /\ f.id \in DOMAIN streams /\ f \in Queued /\ f.t = "chunk"
    BY <1>4 DEF Feeds, Takes, SameUploads
  <2>2. docOf[a] = [id |-> f.id, got |-> streams[f.id].n, st |-> "open"]
    BY <2>1, OwnBody
  <2>3. docOf'[a] = [id |-> f.id, got |-> streams[f.id].n + 1, st |-> "open"]
    BY <1>4, <2>2 DEF Feeds
  <2>4. CASE j = f.id
    <3>1. streams'[f.id].n = streams[f.id].n + 1
      BY <1>4 DEF Feeds
    <3> QED BY <1>a, <2>1, <2>3, <2>4, <3>1 DEF HasDocument
  <2>5. CASE j # f.id
    <3>1. streams'[j] = streams[j]
      BY <1>4, <2>1, <2>5 DEF Feeds
    <3>2. CASE up[j].asg = a
      BY <1>a, <2>1, <2>2, <2>3, <2>5, <3>2 DEF HasDocument
    <3>3. CASE up[j].asg # a
      <4>1. docOf'[up[j].asg] = docOf[up[j].asg]
        BY <1>4, <1>a, <2>1, <3>3 DEF Feeds
      <4> QED BY <1>a, <2>1, <3>1, <4>1 DEF HasDocument
    <3> QED BY <3>2, <3>3
  <2> QED BY <2>4, <2>5
<1>5. ASSUME NEW id \in DOMAIN streams, NEW st, Closed({id}), EndsDoc(up[id].asg, st), up' = up,
             docOf[up[id].asg] = [id |-> id, got |-> streams[id].n, st |-> "open"]
      PROVE  HasDocument(j)'
  <2>1. j \in DOMAIN streams /\ j # id /\ streams'[j] = streams[j]
    BY <1>5 DEF Closed
  <2>2. docOf[up[id].asg].id = id /\ docOf'[up[id].asg].id = id
    BY <1>5 DEF EndsDoc
  <2>3. CASE up[j].asg = up[id].asg
    BY <1>5, <1>a, <2>1, <2>2, <2>3 DEF HasDocument
  <2>4. CASE up[j].asg # up[id].asg
    <3>1. docOf'[up[j].asg] = docOf[up[j].asg]
      BY <1>5, <1>a, <2>1, <2>4 DEF EndsDoc
    <3> QED BY <1>5, <1>a, <2>1, <3>1 DEF HasDocument
  <2> QED BY <2>3, <2>4
<1>6. ASSUME NEW f \in DataFrame, NEW a \in Asg, Overflows(f, a) PROVE HasDocument(j)'
  <2>1. f \in Queued /\ f.t = "chunk" /\ f.id \in DOMAIN streams /\ a = up[f.id].asg /\ up' = up
    BY <1>6 DEF Overflows, Takes, SameUploads
  <2>2. docOf[a] = [id |-> f.id, got |-> streams[f.id].n, st |-> "open"]
    BY <2>1, OwnBody
  <2> QED BY <1>5, <1>6, <2>1, <2>2 DEF Overflows
<1>7. ASSUME NEW f \in DataFrame, NEW a \in Asg, NEW ok \in BOOLEAN, EndsStream(f, a, ok) PROVE HasDocument(j)'
  <2>1. f \in Queued /\ f.t = "end" /\ f.id \in DOMAIN streams /\ a = up[f.id].asg /\ up' = up
    BY <1>7 DEF EndsStream, Takes, SameUploads
  <2>2. docOf[a] = [id |-> f.id, got |-> streams[f.id].n, st |-> "open"]
    BY <2>1, OwnBody
  <2> QED BY <1>5, <1>7, <2>1, <2>2 DEF EndsStream
<1>8. ASSUME NEW c \in CancelFrame, NEW a \in Asg, Cuts(c, a) PROVE HasDocument(j)'
  <2>1. c \in Cancelled /\ c.id \in DOMAIN streams /\ a = up[c.id].asg /\ up' = up
    BY <1>8 DEF Cuts, Hears, SameUploads
  <2>2. docOf[a] = [id |-> c.id, got |-> streams[c.id].n, st |-> "open"]
    BY <2>1, OwnBody
  <2> QED BY <1>5, <1>8, <2>1, <2>2 DEF Cuts
<1> QED BY <1>1, <1>2, <1>3, <1>4, <1>6, <1>7, <1>8, QuietSteps

(* Answers are due.                                                         *)
LEMMA DueKept ==
    ASSUME ResponseInv, ResponseStep, ResponseShape'
    PROVE  AnswerDue'
<1>0. Typed /\ Typed'
    BY ShapeTyped, ShapeTypedNext DEF ResponseInv
<1>1. ASSUME NEW a \in Asg, NEW id \in UploadIds', Begins(a, id) PROVE AnswerDue'
    BY <1>0, <1>1
       DEF ResponseInv, Typed, AnswerInv, AnswerDue, TombInv, TombOver, StreamTyped,
           FrameInv, CurrentInv, UpTyped, QueueTyped, Begins, Puts
<1>2. ASSUME NEW a \in Asg, NEW id \in UploadIds, Writes(a, id) PROVE AnswerDue'
  <2>1. UploadIds' = UploadIds /\ Queued \subseteq Queued' /\ replies' = replies
    BY <1>2 DEF Writes, Puts, Uploads
  <2>2. up'[id].st = "open" /\ \A j \in UploadIds \ {id} : up'[j] = up[j]
    BY <1>2 DEF Writes, Uploads
  <2> QED BY <2>1, <2>2 DEF ResponseInv, AnswerInv, AnswerDue
<1>3. ASSUME NEW a \in Asg, NEW id \in UploadIds, NEW ok \in BOOLEAN, Ends(a, id, ok) PROVE AnswerDue'
  <2>0. PICK h : h = [t |-> "end", id |-> id, ok |-> ok]
    OBVIOUS
  <2>1. h.t = "end" /\ h.id = id /\ Queued' = Queued \cup {h}
    BY <1>3, <2>0 DEF Ends, Puts
  <2>2. UploadIds' = UploadIds /\ up'[id].st = "ended" /\ replies' = replies /\ \A j \in UploadIds \ {id} : up'[j] = up[j]
    BY <1>3 DEF Ends, Uploads
  <2> QED BY <2>1, <2>2 DEF ResponseInv, AnswerInv, AnswerDue
<1>4. ASSUME NEW a \in Asg, NEW id \in UploadIds, Drops(a, id) PROVE AnswerDue'
  <2>1. /\ UploadIds' = UploadIds /\ up'[id].st = "dropped" /\ replies' = replies /\ Queued' = Queued
        /\ \A j \in UploadIds \ {id} : up'[j] = up[j]
    BY <1>4 DEF Drops, Uploads, Overtakes
  <2> QED BY <2>1 DEF ResponseInv, AnswerInv, AnswerDue
<1>5. ASSUME NEW a \in Asg, NEW id \in UploadIds, Hands(a, id) PROVE AnswerDue'
  <2>1. UploadIds' = UploadIds /\ Queued' = Queued /\ replies' = replies /\ replies[id] # <<>>
    BY <1>5 DEF Hands, QueuesKept, Uploads
  <2>2. \A j \in UploadIds \ {id} : up'[j] = up[j]
    BY <1>5 DEF Hands, Uploads
  <2> QED BY <2>1, <2>2 DEF ResponseInv, AnswerInv, AnswerDue
<1>6. ASSUME NEW a \in Asg, Leaves(a) PROVE AnswerDue'
    BY <1>0, <1>6
       DEF ResponseInv, Typed, AnswerInv, AnswerDue, TombInv, TombOver, StreamTyped,
           FrameInv, CurrentInv, UpTyped, QueueTyped, Leaves, Puts, SameUploads
<1>7. CASE Moves
    BY <1>0, <1>7
       DEF ResponseInv, Typed, AnswerInv, AnswerDue, TombInv, TombOver, StreamTyped,
           FrameInv, CurrentInv, UpTyped, QueueTyped, Moves, Carries, QueuesKept,
           SameUploads
<1>8. ASSUME NEW f \in DataFrame, Ignores(f) PROVE AnswerDue'
    BY <1>0, <1>8
       DEF ResponseInv, Typed, AnswerInv, AnswerDue, TombInv, TombOver, StreamTyped,
           FrameInv, CurrentInv, UpTyped, QueueTyped, Ignores, Takes, SameUploads
<1>9. ASSUME NEW f \in DataFrame, Mounts(f) PROVE AnswerDue'
    BY <1>0, <1>9
       DEF ResponseInv, Typed, AnswerInv, AnswerDue, TombInv, TombOver, StreamTyped,
           FrameInv, CurrentInv, UpTyped, QueueTyped, Mounts, Takes, SameUploads
<1>10. ASSUME NEW f \in DataFrame, NEW a \in Asg, Feeds(f, a) PROVE AnswerDue'
    BY <1>0, <1>10
       DEF ResponseInv, Typed, AnswerInv, AnswerDue, TombInv, TombOver, StreamTyped,
           FrameInv, CurrentInv, UpTyped, QueueTyped, Feeds, Takes, SameUploads
<1>11. ASSUME NEW f \in DataFrame, NEW a \in Asg, Overflows(f, a) PROVE AnswerDue'
  <2>1. /\ UploadIds' = UploadIds /\ up' = up /\ f.t = "chunk" /\ Queued \subseteq Queued' \cup {f}
        /\ replies'[f.id] # <<>> /\ \A j \in UploadIds \ {f.id} : replies'[j] = replies[j]
    BY <1>11 DEF Overflows, SameUploads, Takes, Replied
  <2>2. ASSUME NEW j \in UploadIds
        PROVE  /\ up[j].st = "ended" => replies'[j] # <<>> \/ \E g \in Queued' : g.t = "end" /\ g.id = j
               /\ up[j].st = "answered" => replies'[j] # <<>>
    <3>1. CASE j = f.id
      BY <2>1, <3>1
    <3>2. CASE j # f.id
      BY <2>1, <3>2 DEF ResponseInv, AnswerInv, AnswerDue
    <3> QED BY <3>1, <3>2
  <2> QED BY <2>1, <2>2 DEF AnswerDue
<1>12. ASSUME NEW f \in DataFrame, EndsUnknown(f) PROVE AnswerDue'
    BY <1>0, <1>12
       DEF ResponseInv, Typed, AnswerInv, AnswerDue, TombInv, TombOver, StreamTyped,
           FrameInv, CurrentInv, UpTyped, QueueTyped, EndsUnknown, Takes, SameUploads,
           Replied
<1>13. ASSUME NEW f \in DataFrame, NEW a \in Asg, NEW ok \in BOOLEAN, EndsStream(f, a, ok) PROVE AnswerDue'
    BY <1>0, <1>13
       DEF ResponseInv, Typed, AnswerInv, AnswerDue, TombInv, TombOver, StreamTyped,
           FrameInv, CurrentInv, UpTyped, QueueTyped, EndsStream, Takes, SameUploads,
           Closed, EndsDoc, Replied
<1>14. ASSUME NEW c \in CancelFrame, NEW a \in Asg, Cuts(c, a) PROVE AnswerDue'
    BY <1>0, <1>14
       DEF ResponseInv, Typed, AnswerInv, AnswerDue, TombInv, TombOver, StreamTyped,
           FrameInv, CurrentInv, UpTyped, QueueTyped, Cuts, Hears, SameUploads, Closed,
           EndsDoc, Tombed
<1>15. ASSUME NEW c \in CancelFrame, Notes(c) PROVE AnswerDue'
    BY <1>0, <1>15
       DEF ResponseInv, Typed, AnswerInv, AnswerDue, TombInv, TombOver, StreamTyped,
           FrameInv, CurrentInv, UpTyped, QueueTyped, Notes, Hears, SameUploads, Tombed
<1>16. ASSUME NEW f \in DataFrame, NEW ids \in SUBSET UploadIds, Releases(f, ids) PROVE AnswerDue'
    BY <1>0, <1>16
       DEF ResponseInv, Typed, AnswerInv, AnswerDue, TombInv, TombOver, StreamTyped,
           FrameInv, CurrentInv, UpTyped, QueueTyped, Releases, Takes, SameUploads,
           Closed, Tombed
<1> QED BY <1>1, <1>2, <1>3, <1>4, <1>5, <1>6, <1>7, <1>8, <1>9, <1>10, <1>11, <1>12,
    <1>13, <1>14, <1>15, <1>16 DEF ResponseStep

(* An Ok comes last.                                                        *)
LEMMA LastKept ==
    ASSUME ResponseInv, ResponseStep, ResponseShape'
    PROVE  AnswerLast'
<1>0. Typed /\ Typed'
    BY ShapeTyped, ShapeTypedNext DEF ResponseInv
<1>1. ASSUME NEW a \in Asg, NEW id \in UploadIds', Begins(a, id) PROVE AnswerLast'
  <2>0. PICK h : h = [t |-> "call", id |-> id, asg |-> a]
    OBVIOUS
  <2>1. h.id = id /\ Queued' = Queued \cup {h}
    BY <1>1, <2>0 DEF Begins, Puts
  <2>2. /\ replies'[id] = <<>> /\ UploadIds' = UploadIds \cup {id} /\ id \notin UploadIds
        /\ \A j \in UploadIds : up'[j] = up[j] /\ replies'[j] = replies[j]
    <3>1. \A j \in UploadIds : j \in Nat /\ j < id
      BY <1>0, <1>1 DEF Begins, Typed, UpTyped
    <3>2. id \notin UploadIds
      BY <3>1
    <3> QED BY <1>1, <3>2 DEF Begins
  <2> QED BY <2>1, <2>2 DEF ResponseInv, AnswerInv, AnswerLast
<1>2. ASSUME NEW a \in Asg, NEW id \in UploadIds, Writes(a, id) PROVE AnswerLast'
    BY <1>0, <1>2
       DEF ResponseInv, Typed, AnswerInv, AnswerLast, WholeInv, WholeCalls, StreamTyped,
           FrameInv, CurrentInv, UpTyped, QueueTyped, Writes, Puts, Uploads, Chunk
<1>3. ASSUME NEW a \in Asg, NEW id \in UploadIds, NEW ok \in BOOLEAN, Ends(a, id, ok) PROVE AnswerLast'
    BY <1>0, <1>3
       DEF ResponseInv, Typed, AnswerInv, AnswerLast, WholeInv, WholeCalls, StreamTyped,
           FrameInv, CurrentInv, UpTyped, QueueTyped, Ends, Puts, Uploads
<1>4. ASSUME NEW a \in Asg, NEW id \in UploadIds, Drops(a, id) PROVE AnswerLast'
  <2>1. UploadIds' = UploadIds /\ Queued' = Queued /\ replies' = replies
    BY <1>4 DEF Drops, Overtakes, Uploads
  <2>2. \A j \in UploadIds : up'[j].st = "open" => up[j].st = "open"
    BY <1>4 DEF Drops, Uploads
  <2> QED BY <2>1, <2>2 DEF ResponseInv, AnswerInv, AnswerLast
<1>5. ASSUME NEW a \in Asg, NEW id \in UploadIds, Hands(a, id) PROVE AnswerLast'
    BY <1>0, <1>5
       DEF ResponseInv, Typed, AnswerInv, AnswerLast, WholeInv, WholeCalls, StreamTyped,
           FrameInv, CurrentInv, UpTyped, QueueTyped, Hands, QueuesKept, Uploads
<1>6. ASSUME NEW a \in Asg, Leaves(a) PROVE AnswerLast'
    BY <1>0, <1>6
       DEF ResponseInv, Typed, AnswerInv, AnswerLast, WholeInv, WholeCalls, StreamTyped,
           FrameInv, CurrentInv, UpTyped, QueueTyped, Leaves, Puts, SameUploads
<1>7. CASE Moves
    BY <1>0, <1>7
       DEF ResponseInv, Typed, AnswerInv, AnswerLast, WholeInv, WholeCalls, StreamTyped,
           FrameInv, CurrentInv, UpTyped, QueueTyped, Moves, Carries, QueuesKept,
           SameUploads
<1>8. ASSUME NEW f \in DataFrame, Ignores(f) PROVE AnswerLast'
    BY <1>0, <1>8
       DEF ResponseInv, Typed, AnswerInv, AnswerLast, WholeInv, WholeCalls, StreamTyped,
           FrameInv, CurrentInv, UpTyped, QueueTyped, Ignores, Takes, SameUploads
<1>9. ASSUME NEW f \in DataFrame, Mounts(f) PROVE AnswerLast'
    BY <1>0, <1>9
       DEF ResponseInv, Typed, AnswerInv, AnswerLast, WholeInv, WholeCalls, StreamTyped,
           FrameInv, CurrentInv, UpTyped, QueueTyped, Mounts, Takes, SameUploads
<1>10. ASSUME NEW f \in DataFrame, NEW a \in Asg, Feeds(f, a) PROVE AnswerLast'
    BY <1>0, <1>10
       DEF ResponseInv, Typed, AnswerInv, AnswerLast, WholeInv, WholeCalls, StreamTyped,
           FrameInv, CurrentInv, UpTyped, QueueTyped, Feeds, Takes, SameUploads
<1>11. ASSUME NEW f \in DataFrame, NEW a \in Asg, Overflows(f, a) PROVE AnswerLast'
    BY <1>0, <1>11
       DEF ResponseInv, Typed, AnswerInv, AnswerLast, WholeInv, WholeCalls, StreamTyped,
           FrameInv, CurrentInv, UpTyped, QueueTyped, Overflows, Takes, SameUploads,
           Closed, EndsDoc, Tombed, Replied
<1>12. ASSUME NEW f \in DataFrame, EndsUnknown(f) PROVE AnswerLast'
    BY <1>0, <1>12
       DEF ResponseInv, Typed, AnswerInv, AnswerLast, WholeInv, WholeCalls, StreamTyped,
           FrameInv, CurrentInv, UpTyped, QueueTyped, EndsUnknown, Takes, SameUploads,
           Replied
<1>13. ASSUME NEW f \in DataFrame, NEW a \in Asg, NEW ok \in BOOLEAN, EndsStream(f, a, ok) PROVE AnswerLast'
  <2>1. /\ Takes(f) /\ f \in Queued /\ f.t = "end" /\ UploadIds' = UploadIds /\ up' = up
        /\ \A j \in UploadIds \ {f.id} : replies'[j] = replies[j]
    BY <1>13 DEF EndsStream, SameUploads, Takes, Replied
  <2>2. \A g \in Queued' : g \in Queued
    BY <2>1, TakenFirst
  <2>3. \A g \in Queued' : g.t # "release" => g.id # f.id
    BY <2>1, TakenBefore DEF Sooner
  <2>4. up[f.id].st # "open"
    BY <2>1 DEF ResponseInv, FrameInv
  <2>5. ASSUME NEW j \in UploadIds, replies'[j] # <<>>, replies'[j][1] = "ok"
        PROVE  up[j].st # "open" /\ \A g \in Queued' : g.t # "release" => g.id # j
    <3>1. CASE j = f.id
      BY <2>3, <2>4, <3>1
    <3>2. CASE j # f.id
      BY <2>1, <2>2, <2>5, <3>2 DEF ResponseInv, AnswerInv, AnswerLast
    <3> QED BY <3>1, <3>2
  <2> QED BY <2>1, <2>5 DEF AnswerLast
<1>14. ASSUME NEW c \in CancelFrame, NEW a \in Asg, Cuts(c, a) PROVE AnswerLast'
    BY <1>0, <1>14
       DEF ResponseInv, Typed, AnswerInv, AnswerLast, WholeInv, WholeCalls, StreamTyped,
           FrameInv, CurrentInv, UpTyped, QueueTyped, Cuts, Hears, SameUploads, Closed,
           EndsDoc, Tombed
<1>15. ASSUME NEW c \in CancelFrame, Notes(c) PROVE AnswerLast'
    BY <1>0, <1>15
       DEF ResponseInv, Typed, AnswerInv, AnswerLast, WholeInv, WholeCalls, StreamTyped,
           FrameInv, CurrentInv, UpTyped, QueueTyped, Notes, Hears, SameUploads, Tombed
<1>16. ASSUME NEW f \in DataFrame, NEW ids \in SUBSET UploadIds, Releases(f, ids) PROVE AnswerLast'
    BY <1>0, <1>16
       DEF ResponseInv, Typed, AnswerInv, AnswerLast, WholeInv, WholeCalls, StreamTyped,
           FrameInv, CurrentInv, UpTyped, QueueTyped, Releases, Takes, SameUploads,
           Closed, Tombed
<1> QED BY <1>1, <1>2, <1>3, <1>4, <1>5, <1>6, <1>7, <1>8, <1>9, <1>10, <1>11, <1>12,
    <1>13, <1>14, <1>15, <1>16 DEF ResponseStep

(* Ok means mounted, for an upload that was answered before the step.       *)
Mounted(id) ==
    replies[id] # <<>> /\ replies[id][1] = "ok" =>
        /\ up[id].sent <= BodyLimit
        /\ docOf[up[id].asg].id = id => docOf[up[id].asg] = [id |-> id, got |-> up[id].sent, st |-> "complete"]
SaysOk(id) == replies[id] # <<>> /\ replies[id][1] = "ok"
LEMMA MountedAll == OkMeansMounted = \A id \in UploadIds : Mounted(id)
BY DEF OkMeansMounted, Mounted
LEMMA MountedAllNext == OkMeansMounted' = \A id \in UploadIds' : Mounted(id)'
BY DEF OkMeansMounted, Mounted
LEMMA MountedStays ==
    ASSUME ResponseInv, NEW id \in UploadIds, replies'[id] = replies[id], SaysOk(id) => up'[id].sent = up[id].sent,
           up'[id].asg = up[id].asg,
           SaysOk(id) => \/ docOf'[up[id].asg] = docOf[up[id].asg]
                        \/ docOf'[up[id].asg].id # id
    PROVE  Mounted(id)'
<1>1. Mounted(id)
    BY MountedAll DEF ResponseInv, AnswerInv
<1> QED BY <1>1 DEF Mounted, SaysOk
(* An upload that has its Ok hears and sends nothing more.                  *)
LEMMA OkIsLast ==
    ASSUME ResponseInv, NEW id \in UploadIds, SaysOk(id)
    PROVE  up[id].st # "open" /\ id \notin DOMAIN streams /\ \A g \in Queued : g.t # "release" => g.id # id
BY DEF SaysOk, ResponseInv, AnswerInv, AnswerLast, WholeInv, WholeStreams, StreamWhole

LEMMA MountedKept ==
    ASSUME ResponseInv, ResponseStep, ResponseShape'
    PROVE  OkMeansMounted'
<1>0. Typed /\ KeepsTabs
    BY ShapeTyped, TabsKept DEF ResponseInv
<1> SUFFICES ASSUME NEW j \in UploadIds' PROVE Mounted(j)'
    BY MountedAllNext
<1>a. ASSUME j \in UploadIds PROVE up[j].asg \in Asg /\ j \in Nat \ {0} /\ up'[j].asg = up[j].asg
    BY <1>0, <1>a DEF Typed, UpTyped, KeepsTabs
<1>b. ASSUME j \in UploadIds, replies'[j] = replies[j], docOf' = docOf, SaysOk(j) => up'[j].sent = up[j].sent
      PROVE  Mounted(j)'
    BY <1>b, <1>a, MountedStays
<1>1. ASSUME NEW a \in Asg, NEW id \in UploadIds', Begins(a, id) PROVE Mounted(j)'
  <2>1. CASE j \in UploadIds
    BY <1>1, <1>b, <2>1 DEF Begins
  <2>2. CASE j = id
    BY <1>1, <2>2 DEF Begins, Mounted
  <2> QED BY <1>1, <2>1, <2>2 DEF Begins
<1>2. ASSUME NEW a \in Asg, NEW id \in UploadIds, Writes(a, id) PROVE Mounted(j)'
  <2>1. /\ j \in UploadIds /\ replies' = replies /\ docOf' = docOf /\ up[id].st = "open"
        /\ j # id => up'[j] = up[j]
    BY <1>2 DEF Writes, Uploads
  <2>2. SaysOk(j) => j # id
    BY <2>1, OkIsLast
  <2> QED BY <1>b, <2>1, <2>2
<1>3. ASSUME NEW a \in Asg, NEW id \in UploadIds, NEW ok \in BOOLEAN,
             Ends(a, id, ok) \/ Drops(a, id) \/ Hands(a, id)
      PROVE  Mounted(j)'
  <2>1. j \in UploadIds /\ replies' = replies /\ docOf' = docOf /\ up'[j].sent = up[j].sent
    BY <1>3 DEF Ends, Drops, Hands, Uploads
  <2> QED BY <1>b, <2>1
<1>4. CASE Moves \/ \E a \in Asg : Leaves(a)
    BY <1>4, <1>b DEF Moves, Leaves, SameUploads
<1>5. ASSUME NEW f \in DataFrame, Ignores(f) PROVE Mounted(j)'
    BY <1>5, <1>b DEF Ignores, SameUploads
<1>6. ASSUME NEW c \in CancelFrame, Notes(c) PROVE Mounted(j)'
    BY <1>6, <1>b DEF Notes, SameUploads
<1>7. ASSUME NEW f \in DataFrame, EndsUnknown(f) PROVE Mounted(j)'
  <2>1. f \in Queued /\ f.t = "end" /\ j \in UploadIds /\ up' = up /\ docOf' = docOf
    BY <1>7 DEF EndsUnknown, Takes, SameUploads
  <2>2. CASE j # f.id
    BY <1>7, <1>b, <2>1, <2>2 DEF EndsUnknown, Replied
  <2>3. CASE j = f.id
    <3>1. ~SaysOk(j)
      BY <2>1, <2>3, OkIsLast
    <3>2. replies'[j][1] # "ok"
      BY <1>7, <2>3, <3>1 DEF EndsUnknown, Replied, SaysOk
    <3> QED BY <3>2 DEF Mounted
  <2> QED BY <2>2, <2>3
<1>8. ASSUME NEW f \in DataFrame, Mounts(f) PROVE Mounted(j)'
  <2>1. f \in Queued /\ f.t = "call" /\ j \in UploadIds /\ up' = up /\ replies' = replies
    BY <1>8 DEF Mounts, Takes, SameUploads
  <2>2. f.asg = up[f.id].asg /\ up[f.id].asg \in Asg
    BY <1>0, <2>1 DEF ResponseInv, FrameInv, Typed, UpTyped
  <2>3. docOf'[f.asg].id = f.id /\ \A b \in Asg \ {f.asg} : docOf'[b] = docOf[b]
    BY <1>0, <1>8, <2>2 DEF Mounts, Typed, BodyTyped
  <2>4. SaysOk(j) => j # f.id
    BY <2>1, OkIsLast
  <2> QED BY <1>a, <2>1, <2>3, <2>4, MountedStays
<1>9. ASSUME NEW f \in DataFrame, NEW ids \in SUBSET UploadIds, Releases(f, ids) PROVE Mounted(j)'
  <2>1. j \in UploadIds /\ up' = up /\ replies' = replies
    BY <1>9 DEF Releases, SameUploads
  <2>2. \A b \in Asg \ {f.asg} : docOf'[b] = docOf[b]
    BY <1>0, <1>9 DEF Releases, Typed, BodyTyped
  <2>3. f.asg \in Asg => docOf'[f.asg].id = 0
    BY <1>0, <1>9 DEF Releases, Typed, BodyTyped, NoBody
  <2> QED BY <1>a, <2>1, <2>2, <2>3, MountedStays
<1>10. ASSUME NEW f \in DataFrame, NEW a \in Asg, Feeds(f, a) PROVE Mounted(j)'
  <2>1. /\ j \in UploadIds /\ up' = up /\ replies' = replies /\ a = up[f.id].asg /\ f.id \in DOMAIN streams
        /\ f \in Queued /\ f.t = "chunk" /\ \A b \in Asg \ {a} : docOf'[b] = docOf[b]
    BY <1>10 DEF Feeds, Takes, SameUploads
  <2>2. docOf[a] = [id |-> f.id, got |-> streams[f.id].n, st |-> "open"]
    BY <2>1, OwnBody
  <2>3. docOf'[a].id = f.id
    BY <1>10, <2>2 DEF Feeds
  <2>4. SaysOk(j) => j # f.id
    BY <2>1, OkIsLast
  <2> QED BY <1>a, <2>1, <2>3, <2>4, MountedStays
<1>11. ASSUME NEW id \in DOMAIN streams, NEW st, EndsDoc(up[id].asg, st), up' = up, UploadIds' = UploadIds,
              docOf[up[id].asg] = [id |-> id, got |-> streams[id].n, st |-> "open"], replies'[j] = replies[j]
       PROVE  Mounted(j)'
  <2>1. docOf'[up[id].asg].id = id /\ \A b \in Asg \ {up[id].asg} : docOf'[b] = docOf[b]
    BY <1>11 DEF EndsDoc
  <2>2. SaysOk(j) => j # id
    BY <1>11, OkIsLast
  <2> QED BY <1>11, <1>a, <2>1, <2>2, MountedStays
<1>12. ASSUME NEW f \in DataFrame, NEW a \in Asg, Overflows(f, a) PROVE Mounted(j)'
  <2>1. f \in Queued /\ f.t = "chunk" /\ f.id \in DOMAIN streams /\ a = up[f.id].asg /\ up' = up /\ UploadIds' = UploadIds
    BY <1>12 DEF Overflows, Takes, SameUploads
  <2>2. docOf[a] = [id |-> f.id, got |-> streams[f.id].n, st |-> "open"] /\ replies[f.id] = <<>>
    BY <2>1, OwnBody DEF ResponseInv, WholeInv, WholeStreams, StreamWhole
  <2>3. CASE j # f.id
    <3>1. replies'[j] = replies[j]
      BY <1>12, <2>1, <2>3 DEF Overflows, Replied
    <3> QED BY <1>11, <1>12, <2>1, <2>2, <3>1 DEF Overflows
  <2>4. CASE j = f.id
    <3>1. replies'[j][1] # "ok"
      BY <1>12, <2>2, <2>4 DEF Overflows, Replied
    <3> QED BY <3>1 DEF Mounted
  <2> QED BY <2>3, <2>4
<1>13. ASSUME NEW f \in DataFrame, NEW a \in Asg, NEW ok \in BOOLEAN, EndsStream(f, a, ok) PROVE Mounted(j)'
  <2>1. /\ f \in Queued /\ f.t = "end" /\ f.id \in DOMAIN streams /\ a = up[f.id].asg /\ up' = up /\ UploadIds' = UploadIds
        /\ Takes(f)
    BY <1>13 DEF EndsStream, Takes, SameUploads
  <2>2. docOf[a] = [id |-> f.id, got |-> streams[f.id].n, st |-> "open"] /\ replies[f.id] = <<>>
    BY <2>1, OwnBody DEF ResponseInv, WholeInv, WholeStreams, StreamWhole
  <2>3. CASE j # f.id
    <3>1. replies'[j] = replies[j]
      BY <1>13, <2>1, <2>3 DEF EndsStream, Replied
    <3> QED BY <1>11, <1>13, <2>1, <2>2, <3>1 DEF EndsStream
  <2>4. CASE j = f.id
    <3>1. ok \/ replies'[j][1] # "ok"
      BY <1>13, <2>2, <2>4 DEF EndsStream, Replied
    <3>2. streams[f.id].n = up[f.id].sent /\ up[f.id].sent <= BodyLimit
      BY <1>0, <2>1, EndIsWhole DEF Typed, StreamTyped
    <3>3. ok => docOf'[a] = [id |-> f.id, got |-> up[f.id].sent, st |-> "complete"]
      BY <1>13, <2>2, <3>2 DEF EndsStream, EndsDoc
    <3> QED BY <2>1, <2>4, <3>1, <3>2, <3>3 DEF Mounted
  <2> QED BY <2>3, <2>4
<1>14. ASSUME NEW c \in CancelFrame, NEW a \in Asg, Cuts(c, a) PROVE Mounted(j)'
  <2>1. c \in Cancelled /\ c.id \in DOMAIN streams /\ a = up[c.id].asg /\ up' = up /\ UploadIds' = UploadIds /\ replies' = replies
    BY <1>14 DEF Cuts, Hears, SameUploads
  <2>2. docOf[a] = [id |-> c.id, got |-> streams[c.id].n, st |-> "open"]
    BY <2>1, OwnBody
  <2> QED BY <1>11, <1>14, <2>1, <2>2 DEF Cuts
<1> QED BY <1>1, <1>2, <1>3, <1>4, <1>5, <1>6, <1>7, <1>8, <1>9, <1>10, <1>12, <1>13, <1>14 DEF ResponseStep

(* A dropped upload is remembered.                                          *)
LEMMA DroppedKept ==
    ASSUME ResponseInv, ResponseStep, ResponseShape'
    PROVE  TombDropped'
<1>0. Typed /\ Typed'
    BY ShapeTyped, ShapeTypedNext DEF ResponseInv
<1>1. ASSUME NEW a \in Asg, NEW id \in UploadIds', Begins(a, id) PROVE TombDropped'
  <2>1. /\ UploadIds' = UploadIds \cup {id} /\ Cancelled' = Cancelled /\ tomb' = tomb /\ evicted' = evicted
        /\ \A j \in UploadIds : up'[j] = up[j]
    BY <1>1 DEF Begins, Puts
  <2>2. up'[id].st = "open"
    BY <1>1 DEF Begins
  <2> QED BY <2>1, <2>2 DEF ResponseInv, TombInv, TombDropped, Elems
<1>2. ASSUME NEW a \in Asg, NEW id \in UploadIds, Writes(a, id) PROVE TombDropped'
    BY <1>0, <1>2
       DEF ResponseInv, Typed, TombInv, TombDropped, CancelInv, CancelOwn, StreamTyped,
           FrameInv, CurrentInv, UpTyped, QueueTyped, Writes, Puts, Uploads, Chunk
<1>3. ASSUME NEW a \in Asg, NEW id \in UploadIds, NEW ok \in BOOLEAN, Ends(a, id, ok) PROVE TombDropped'
    BY <1>0, <1>3
       DEF ResponseInv, Typed, TombInv, TombDropped, CancelInv, CancelOwn, StreamTyped,
           FrameInv, CurrentInv, UpTyped, QueueTyped, Ends, Puts, Uploads
<1>4. ASSUME NEW a \in Asg, NEW id \in UploadIds, Drops(a, id) PROVE TombDropped'
  <2>0. PICK c : c = [t |-> "cancel", id |-> id]
    OBVIOUS
  <2>1. /\ c.id = id /\ Cancelled' = Cancelled \cup {c} /\ UploadIds' = UploadIds /\ tomb' = tomb /\ evicted' = evicted
        /\ \A j \in UploadIds \ {id} : up'[j] = up[j]
    BY <1>4, <2>0 DEF Drops, Overtakes, Uploads
  <2> QED BY <2>1 DEF ResponseInv, TombInv, TombDropped, Elems
<1>5. ASSUME NEW a \in Asg, NEW id \in UploadIds, Hands(a, id) PROVE TombDropped'
    BY <1>0, <1>5
       DEF ResponseInv, Typed, TombInv, TombDropped, CancelInv, CancelOwn, StreamTyped,
           FrameInv, CurrentInv, UpTyped, QueueTyped, Hands, QueuesKept, Uploads
<1>6. ASSUME NEW a \in Asg, Leaves(a) PROVE TombDropped'
    BY <1>0, <1>6
       DEF ResponseInv, Typed, TombInv, TombDropped, CancelInv, CancelOwn, StreamTyped,
           FrameInv, CurrentInv, UpTyped, QueueTyped, Leaves, Puts, SameUploads
<1>7. CASE Moves
    BY <1>0, <1>7
       DEF ResponseInv, Typed, TombInv, TombDropped, CancelInv, CancelOwn, StreamTyped,
           FrameInv, CurrentInv, UpTyped, QueueTyped, Moves, Carries, QueuesKept,
           SameUploads
<1>8. ASSUME NEW f \in DataFrame, Ignores(f) PROVE TombDropped'
    BY <1>0, <1>8
       DEF ResponseInv, Typed, TombInv, TombDropped, CancelInv, CancelOwn, StreamTyped,
           FrameInv, CurrentInv, UpTyped, QueueTyped, Ignores, Takes, SameUploads
<1>9. ASSUME NEW f \in DataFrame, Mounts(f) PROVE TombDropped'
    BY <1>0, <1>9
       DEF ResponseInv, Typed, TombInv, TombDropped, CancelInv, CancelOwn, StreamTyped,
           FrameInv, CurrentInv, UpTyped, QueueTyped, Mounts, Takes, SameUploads
<1>10. ASSUME NEW f \in DataFrame, NEW a \in Asg, Feeds(f, a) PROVE TombDropped'
    BY <1>0, <1>10
       DEF ResponseInv, Typed, TombInv, TombDropped, CancelInv, CancelOwn, StreamTyped,
           FrameInv, CurrentInv, UpTyped, QueueTyped, Feeds, Takes, SameUploads
<1>11. ASSUME NEW f \in DataFrame, NEW a \in Asg, Overflows(f, a) PROVE TombDropped'
    BY <1>0, <1>11
       DEF ResponseInv, Typed, TombInv, TombDropped, CancelInv, CancelOwn, StreamTyped,
           FrameInv, CurrentInv, UpTyped, QueueTyped, Overflows, Takes, SameUploads,
           Closed, EndsDoc, Tombed, Replied
<1>12. ASSUME NEW f \in DataFrame, EndsUnknown(f) PROVE TombDropped'
    BY <1>0, <1>12
       DEF ResponseInv, Typed, TombInv, TombDropped, CancelInv, CancelOwn, StreamTyped,
           FrameInv, CurrentInv, UpTyped, QueueTyped, EndsUnknown, Takes, SameUploads,
           Replied
<1>13. ASSUME NEW f \in DataFrame, NEW a \in Asg, NEW ok \in BOOLEAN, EndsStream(f, a, ok) PROVE TombDropped'
    BY <1>0, <1>13
       DEF ResponseInv, Typed, TombInv, TombDropped, CancelInv, CancelOwn, StreamTyped,
           FrameInv, CurrentInv, UpTyped, QueueTyped, EndsStream, Takes, SameUploads,
           Closed, EndsDoc, Replied
<1>14. ASSUME NEW c \in CancelFrame, NEW a \in Asg, Cuts(c, a) PROVE TombDropped'
    BY <1>0, <1>14
       DEF ResponseInv, Typed, TombInv, TombDropped, CancelInv, CancelOwn, StreamTyped,
           FrameInv, CurrentInv, UpTyped, QueueTyped, Cuts, Hears, SameUploads, Closed,
           EndsDoc, Tombed
<1>15. ASSUME NEW c \in CancelFrame, Notes(c) PROVE TombDropped'
    BY <1>0, <1>15
       DEF ResponseInv, Typed, TombInv, TombDropped, CancelInv, CancelOwn, StreamTyped,
           FrameInv, CurrentInv, UpTyped, QueueTyped, Notes, Hears, SameUploads, Tombed
<1>16. ASSUME NEW f \in DataFrame, NEW ids \in SUBSET UploadIds, Releases(f, ids) PROVE TombDropped'
    BY <1>0, <1>16
       DEF ResponseInv, Typed, TombInv, TombDropped, CancelInv, CancelOwn, StreamTyped,
           FrameInv, CurrentInv, UpTyped, QueueTyped, Releases, Takes, SameUploads,
           Closed, Tombed
<1> QED BY <1>1, <1>2, <1>3, <1>4, <1>5, <1>6, <1>7, <1>8, <1>9, <1>10, <1>11, <1>12,
    <1>13, <1>14, <1>15, <1>16 DEF ResponseStep

(* A tombstone is for an upload that is over.                               *)
LEMMA OverKept ==
    ASSUME ResponseInv, ResponseStep, ResponseShape'
    PROVE  TombOver'
<1>0. Typed /\ Typed'
    BY ShapeTyped, ShapeTypedNext DEF ResponseInv
<1>1. ASSUME NEW a \in Asg, NEW id \in UploadIds', Begins(a, id) PROVE TombOver'
    BY <1>0, <1>1
       DEF ResponseInv, Typed, TombInv, TombOver, CancelInv, CancelOwn, StreamTyped,
           ReleaseInv, FrameInv, CurrentInv, UpTyped, QueueTyped, Begins, Puts
<1>2. ASSUME NEW a \in Asg, NEW id \in UploadIds, Writes(a, id) PROVE TombOver'
    BY <1>0, <1>2
       DEF ResponseInv, Typed, TombInv, TombOver, CancelInv, CancelOwn, StreamTyped,
           ReleaseInv, FrameInv, CurrentInv, UpTyped, QueueTyped, Writes, Puts, Uploads,
           Chunk
<1>3. ASSUME NEW a \in Asg, NEW id \in UploadIds, NEW ok \in BOOLEAN, Ends(a, id, ok) PROVE TombOver'
    BY <1>0, <1>3
       DEF ResponseInv, Typed, TombInv, TombOver, CancelInv, CancelOwn, StreamTyped,
           ReleaseInv, FrameInv, CurrentInv, UpTyped, QueueTyped, Ends, Puts, Uploads
<1>4. ASSUME NEW a \in Asg, NEW id \in UploadIds, Drops(a, id) PROVE TombOver'
  <2>1. /\ streams' = streams /\ tomb' = tomb /\ replies' = replies /\ up'[id].st = "dropped"
        /\ \A j \in UploadIds \ {id} : up'[j] = up[j]
    BY <1>4 DEF Drops, Uploads
  <2> QED BY <1>0, <2>1 DEF ResponseInv, TombInv, TombOver, Typed, StreamTyped, Elems
<1>5. ASSUME NEW a \in Asg, NEW id \in UploadIds, Hands(a, id) PROVE TombOver'
    BY <1>0, <1>5
       DEF ResponseInv, Typed, TombInv, TombOver, CancelInv, CancelOwn, StreamTyped,
           ReleaseInv, FrameInv, CurrentInv, UpTyped, QueueTyped, Hands, QueuesKept,
           Uploads
<1>6. ASSUME NEW a \in Asg, Leaves(a) PROVE TombOver'
    BY <1>0, <1>6
       DEF ResponseInv, Typed, TombInv, TombOver, CancelInv, CancelOwn, StreamTyped,
           ReleaseInv, FrameInv, CurrentInv, UpTyped, QueueTyped, Leaves, Puts,
           SameUploads
<1>7. CASE Moves
    BY <1>0, <1>7
       DEF ResponseInv, Typed, TombInv, TombOver, CancelInv, CancelOwn, StreamTyped,
           ReleaseInv, FrameInv, CurrentInv, UpTyped, QueueTyped, Moves, Carries,
           QueuesKept, SameUploads
<1>8. ASSUME NEW f \in DataFrame, Ignores(f) PROVE TombOver'
    BY <1>0, <1>8
       DEF ResponseInv, Typed, TombInv, TombOver, CancelInv, CancelOwn, StreamTyped,
           ReleaseInv, FrameInv, CurrentInv, UpTyped, QueueTyped, Ignores, Takes,
           SameUploads
<1>9. ASSUME NEW f \in DataFrame, Mounts(f) PROVE TombOver'
    BY <1>0, <1>9
       DEF ResponseInv, Typed, TombInv, TombOver, CancelInv, CancelOwn, StreamTyped,
           ReleaseInv, FrameInv, CurrentInv, UpTyped, QueueTyped, Mounts, Takes,
           SameUploads
<1>10. ASSUME NEW f \in DataFrame, NEW a \in Asg, Feeds(f, a) PROVE TombOver'
    BY <1>0, <1>10
       DEF ResponseInv, Typed, TombInv, TombOver, CancelInv, CancelOwn, StreamTyped,
           ReleaseInv, FrameInv, CurrentInv, UpTyped, QueueTyped, Feeds, Takes,
           SameUploads
<1>11. ASSUME NEW f \in DataFrame, NEW a \in Asg, Overflows(f, a) PROVE TombOver'
    BY <1>0, <1>11
       DEF ResponseInv, Typed, TombInv, TombOver, CancelInv, CancelOwn, StreamTyped,
           ReleaseInv, FrameInv, CurrentInv, UpTyped, QueueTyped, Overflows, Takes,
           SameUploads, Closed, EndsDoc, Tombed, Replied
<1>12. ASSUME NEW f \in DataFrame, EndsUnknown(f) PROVE TombOver'
    BY <1>0, <1>12
       DEF ResponseInv, Typed, TombInv, TombOver, CancelInv, CancelOwn, StreamTyped,
           ReleaseInv, FrameInv, CurrentInv, UpTyped, QueueTyped, EndsUnknown, Takes,
           SameUploads, Replied
<1>13. ASSUME NEW f \in DataFrame, NEW a \in Asg, NEW ok \in BOOLEAN, EndsStream(f, a, ok) PROVE TombOver'
    BY <1>0, <1>13
       DEF ResponseInv, Typed, TombInv, TombOver, CancelInv, CancelOwn, StreamTyped,
           ReleaseInv, FrameInv, CurrentInv, UpTyped, QueueTyped, EndsStream, Takes,
           SameUploads, Closed, EndsDoc, Replied
<1>14. ASSUME NEW c \in CancelFrame, NEW a \in Asg, Cuts(c, a) PROVE TombOver'
    BY <1>0, <1>14
       DEF ResponseInv, Typed, TombInv, TombOver, CancelInv, CancelOwn, StreamTyped,
           ReleaseInv, FrameInv, CurrentInv, UpTyped, QueueTyped, Cuts, Hears,
           SameUploads, Closed, EndsDoc, Tombed
<1>15. ASSUME NEW c \in CancelFrame, Notes(c) PROVE TombOver'
    BY <1>0, <1>15
       DEF ResponseInv, Typed, TombInv, TombOver, CancelInv, CancelOwn, StreamTyped,
           ReleaseInv, FrameInv, CurrentInv, UpTyped, QueueTyped, Notes, Hears,
           SameUploads, Tombed
<1>16. ASSUME NEW f \in DataFrame, NEW ids \in SUBSET UploadIds, Releases(f, ids) PROVE TombOver'
    BY <1>0, <1>16
       DEF ResponseInv, Typed, TombInv, TombOver, CancelInv, CancelOwn, StreamTyped,
           ReleaseInv, FrameInv, CurrentInv, UpTyped, QueueTyped, Releases, Takes,
           SameUploads, Closed, Tombed
<1> QED BY <1>1, <1>2, <1>3, <1>4, <1>5, <1>6, <1>7, <1>8, <1>9, <1>10, <1>11, <1>12,
    <1>13, <1>14, <1>15, <1>16 DEF ResponseStep

(* A cancel finds the document of its own upload, or one that is older.     *)
OwnCancel(c) == c.id \in UploadIds /\ up[c.id].st = "dropped" /\ docOf[up[c.id].asg].id <= c.id
LEMMA CancelStays ==
    ASSUME ResponseInv, NEW c \in Cancelled, up'[c.id] = up[c.id], c.id \in UploadIds',
           \A b \in Asg : docOf'[b].id = docOf[b].id
    PROVE  OwnCancel(c)'
<1>1. OwnCancel(c)
    BY DEF ResponseInv, CancelInv, CancelOwn, OwnCancel
<1>2. up[c.id].asg \in Asg
    BY <1>1, ShapeTyped DEF OwnCancel, ResponseInv, Typed, UpTyped
<1> QED BY <1>1, <1>2 DEF OwnCancel

LEMMA CancelOwnKept ==
    ASSUME ResponseInv, ResponseStep, ResponseShape'
    PROVE  CancelOwn'
<1>0. Typed /\ KeepsTabs
    BY ShapeTyped, TabsKept DEF ResponseInv
<1> SUFFICES ASSUME NEW k \in Cancelled' PROVE OwnCancel(k)'
    BY DEF CancelOwn, OwnCancel
<1>a. ASSUME k \in Cancelled PROVE k.id \in UploadIds /\ k.id \in Nat /\ up[k.id].st = "dropped" /\ up[k.id].asg \in Asg /\ OwnCancel(k)
    BY <1>0, <1>a DEF ResponseInv, CancelInv, CancelOwn, OwnCancel, Typed, UpTyped
<1>b. ASSUME k \in Cancelled, up' = up, UploadIds' = UploadIds, \A b \in Asg : docOf'[b].id = docOf[b].id
      PROVE  OwnCancel(k)'
    BY <1>a, <1>b, CancelStays
<1>1. ASSUME NEW a \in Asg, NEW id \in UploadIds', Begins(a, id) PROVE OwnCancel(k)'
  <2>1. k \in Cancelled /\ docOf' = docOf /\ \A j \in UploadIds : j \in UploadIds' /\ up'[j] = up[j]
    BY <1>1 DEF Begins, Puts
  <2> QED BY <1>a, <2>1, CancelStays
<1>2. ASSUME NEW a \in Asg, NEW id \in UploadIds, NEW ok \in BOOLEAN, Writes(a, id) \/ Ends(a, id, ok) \/ Hands(a, id)
      PROVE  OwnCancel(k)'
  <2>1. /\ k \in Cancelled /\ docOf' = docOf /\ UploadIds' = UploadIds /\ up[id].st \in {"open", "ended"}
        /\ \A j \in UploadIds \ {id} : up'[j] = up[j]
    BY <1>2 DEF Writes, Ends, Hands, Puts, QueuesKept, Uploads
  <2>2. k.id # id
    BY <1>a, <2>1
  <2> QED BY <1>a, <2>1, <2>2, CancelStays
<1>3. ASSUME NEW a \in Asg, NEW id \in UploadIds, Drops(a, id) PROVE OwnCancel(k)'
  <2>1. /\ Cancelled' = Cancelled \cup {[t |-> "cancel", id |-> id]} /\ docOf' = docOf /\ UploadIds' = UploadIds
        /\ \A j \in UploadIds \ {id} : up'[j] = up[j] /\ up'[id].st = "dropped" /\ up'[id].asg = up[id].asg
        /\ id = current[a] /\ id # 0
    BY <1>3 DEF Drops, Overtakes, Uploads
  <2>2. up[id].st \in {"open", "ended"} /\ up[id].asg = a /\ docOf[a].id <= id
    BY <2>1, NewestSent DEF ResponseInv, CurrentInv
  <2>3. CASE k \in Cancelled
    <3>1. k.id # id
      BY <1>a, <2>2, <2>3
    <3> QED BY <1>a, <2>1, <2>3, <3>1, CancelStays
  <2>4. CASE k = [t |-> "cancel", id |-> id]
    <3>1. k.id = id
      BY <2>4
    <3>2. up'[id].st = "dropped" /\ up'[id].asg = a
      BY <1>3, <2>2 DEF Drops, Uploads
    <3> QED BY <2>1, <2>2, <3>1, <3>2 DEF OwnCancel
  <2> QED BY <2>1, <2>3, <2>4
<1>4. CASE Moves \/ \E a \in Asg : Leaves(a)
    BY <1>4, <1>b DEF Moves, Leaves, SameUploads, Puts, Carries, QueuesKept
<1>5. ASSUME NEW f \in DataFrame, Ignores(f) \/ EndsUnknown(f) PROVE OwnCancel(k)'
    BY <1>5, <1>b DEF Ignores, EndsUnknown, SameUploads, Takes
<1>6. ASSUME NEW c \in CancelFrame, Notes(c) PROVE OwnCancel(k)'
    BY <1>6, <1>b DEF Notes, SameUploads, Hears
<1>7. ASSUME NEW f \in DataFrame, Mounts(f) PROVE OwnCancel(k)'
  <2>1. /\ f \in Queued /\ f \in Across /\ f.t = "call" /\ up' = up /\ UploadIds' = UploadIds
        /\ k \in Cancelled /\ Cancelled = Behind
    BY <1>7 DEF Mounts, Takes, SameUploads
  <2>2. f.asg = up[f.id].asg /\ up[f.id].asg \in Asg
    BY <1>0, <2>1 DEF ResponseInv, FrameInv, Typed, UpTyped
  <2>3. docOf'[f.asg].id = f.id /\ \A b \in Asg \ {f.asg} : docOf'[b] = docOf[b]
    BY <1>0, <1>7, <2>2 DEF Mounts, Typed, BodyTyped
  <2>4. up[f.id].asg = up[k.id].asg => f.id <= k.id
    BY <2>1 DEF ResponseInv, CancelInv, CancelFirst
  <2> QED BY <1>a, <2>1, <2>2, <2>3, <2>4 DEF OwnCancel
<1>8. ASSUME NEW f \in DataFrame, NEW ids \in SUBSET UploadIds, Releases(f, ids) PROVE OwnCancel(k)'
  <2>1. k \in Cancelled /\ up' = up /\ UploadIds' = UploadIds
    BY <1>8 DEF Releases, Takes, SameUploads
  <2>2. \A b \in Asg \ {f.asg} : docOf'[b] = docOf[b]
    BY <1>0, <1>8 DEF Releases, Typed, BodyTyped
  <2>3. f.asg \in Asg => docOf'[f.asg].id = 0
    BY <1>0, <1>8 DEF Releases, Typed, BodyTyped, NoBody
  <2> QED BY <1>a, <2>1, <2>2, <2>3 DEF OwnCancel
<1>9. ASSUME NEW f \in DataFrame, NEW a \in Asg, Feeds(f, a) PROVE OwnCancel(k)'
  <2>1. docOf'[a].id = docOf[a].id
    BY <1>9 DEF Feeds
  <2> QED BY <1>9, <1>b, <2>1 DEF Feeds, Takes, SameUploads
<1>10. ASSUME NEW a \in Asg, NEW st, EndsDoc(a, st), k \in Cancelled, SameUploads PROVE OwnCancel(k)'
  <2>1. docOf'[a].id = docOf[a].id
    BY <1>10 DEF EndsDoc
  <2> QED BY <1>10, <1>b, <2>1 DEF EndsDoc, SameUploads
<1>11. ASSUME NEW f \in DataFrame, NEW a \in Asg, Overflows(f, a) PROVE OwnCancel(k)'
    BY <1>10, <1>11 DEF Overflows, Takes
<1>12. ASSUME NEW f \in DataFrame, NEW a \in Asg, NEW ok \in BOOLEAN, EndsStream(f, a, ok) PROVE OwnCancel(k)'
    BY <1>10, <1>12 DEF EndsStream, Takes
<1>13. ASSUME NEW c \in CancelFrame, NEW a \in Asg, Cuts(c, a) PROVE OwnCancel(k)'
    BY <1>10, <1>13 DEF Cuts, Hears
<1> QED BY <1>1, <1>2, <1>3, <1>4, <1>5, <1>6, <1>7, <1>8, <1>9, <1>11, <1>12, <1>13 DEF ResponseStep

(* A cancel is before the next upload.                                      *)
LEMMA CancelFirstKept ==
    ASSUME ResponseInv, ResponseStep, ResponseShape'
    PROVE  CancelFirst'
<1>0. Typed /\ Typed'
    BY ShapeTyped, ShapeTypedNext DEF ResponseInv
<1>1. ASSUME NEW a \in Asg, NEW id \in UploadIds', Begins(a, id) PROVE CancelFirst'
    BY <1>0, <1>1
       DEF ResponseInv, Typed, CancelInv, CancelOwn, CancelFirst, FrameInv, CurrentInv,
           UpTyped, QueueTyped, Begins, Puts
<1>2. ASSUME NEW a \in Asg, NEW id \in UploadIds, Writes(a, id) PROVE CancelFirst'
    BY <1>0, <1>2
       DEF ResponseInv, Typed, CancelInv, CancelOwn, CancelFirst, FrameInv, CurrentInv,
           UpTyped, QueueTyped, Writes, Puts, Uploads, Chunk
<1>3. ASSUME NEW a \in Asg, NEW id \in UploadIds, NEW ok \in BOOLEAN, Ends(a, id, ok) PROVE CancelFirst'
    BY <1>0, <1>3
       DEF ResponseInv, Typed, CancelInv, CancelOwn, CancelFirst, FrameInv, CurrentInv,
           UpTyped, QueueTyped, Ends, Puts, Uploads
<1>4. ASSUME NEW a \in Asg, NEW id \in UploadIds, Drops(a, id) PROVE CancelFirst'
    BY <1>0, <1>4
       DEF ResponseInv, Typed, CancelInv, CancelOwn, CancelFirst, FrameInv, CurrentInv,
           UpTyped, QueueTyped, Drops, Overtakes, Uploads
<1>5. ASSUME NEW a \in Asg, NEW id \in UploadIds, Hands(a, id) PROVE CancelFirst'
  <2>1. Behind' = Behind /\ Across' = Across /\ KeepsTabs
    BY <1>5 DEF Hands, QueuesKept, Uploads, KeepsTabs
  <2>2. \A c \in Behind : c.id \in UploadIds
    BY <1>0 DEF Typed, QueueTyped, ResponseInv, CancelInv, CancelOwn
  <2>3. \A f \in Across : f.t # "release" => f.id \in UploadIds
    BY <1>0 DEF Typed, QueueTyped, ResponseInv, FrameInv
  <2> QED BY <2>1, <2>2, <2>3 DEF ResponseInv, CancelInv, CancelFirst, KeepsTabs
<1>6. ASSUME NEW a \in Asg, Leaves(a) PROVE CancelFirst'
    BY <1>0, <1>6
       DEF ResponseInv, Typed, CancelInv, CancelOwn, CancelFirst, FrameInv, CurrentInv,
           UpTyped, QueueTyped, Leaves, Puts, SameUploads
<1>7. CASE Moves
    BY <1>0, <1>7
       DEF ResponseInv, Typed, CancelInv, CancelOwn, CancelFirst, FrameInv, CurrentInv,
           UpTyped, QueueTyped, Moves, Carries, QueuesKept, SameUploads
<1>8. ASSUME NEW f \in DataFrame, Ignores(f) PROVE CancelFirst'
    BY <1>0, <1>8
       DEF ResponseInv, Typed, CancelInv, CancelOwn, CancelFirst, FrameInv, CurrentInv,
           UpTyped, QueueTyped, Ignores, Takes, SameUploads
<1>9. ASSUME NEW f \in DataFrame, Mounts(f) PROVE CancelFirst'
    BY <1>0, <1>9
       DEF ResponseInv, Typed, CancelInv, CancelOwn, CancelFirst, FrameInv, CurrentInv,
           UpTyped, QueueTyped, Mounts, Takes, SameUploads
<1>10. ASSUME NEW f \in DataFrame, NEW a \in Asg, Feeds(f, a) PROVE CancelFirst'
    BY <1>0, <1>10
       DEF ResponseInv, Typed, CancelInv, CancelOwn, CancelFirst, FrameInv, CurrentInv,
           UpTyped, QueueTyped, Feeds, Takes, SameUploads
<1>11. ASSUME NEW f \in DataFrame, NEW a \in Asg, Overflows(f, a) PROVE CancelFirst'
    BY <1>0, <1>11
       DEF ResponseInv, Typed, CancelInv, CancelOwn, CancelFirst, FrameInv, CurrentInv,
           UpTyped, QueueTyped, Overflows, Takes, SameUploads, Closed, EndsDoc, Tombed,
           Replied
<1>12. ASSUME NEW f \in DataFrame, EndsUnknown(f) PROVE CancelFirst'
    BY <1>0, <1>12
       DEF ResponseInv, Typed, CancelInv, CancelOwn, CancelFirst, FrameInv, CurrentInv,
           UpTyped, QueueTyped, EndsUnknown, Takes, SameUploads, Replied
<1>13. ASSUME NEW f \in DataFrame, NEW a \in Asg, NEW ok \in BOOLEAN, EndsStream(f, a, ok) PROVE CancelFirst'
    BY <1>0, <1>13
       DEF ResponseInv, Typed, CancelInv, CancelOwn, CancelFirst, FrameInv, CurrentInv,
           UpTyped, QueueTyped, EndsStream, Takes, SameUploads, Closed, EndsDoc, Replied
<1>14. ASSUME NEW c \in CancelFrame, NEW a \in Asg, Cuts(c, a) PROVE CancelFirst'
    BY <1>0, <1>14
       DEF ResponseInv, Typed, CancelInv, CancelOwn, CancelFirst, FrameInv, CurrentInv,
           UpTyped, QueueTyped, Cuts, Hears, SameUploads, Closed, EndsDoc, Tombed
<1>15. ASSUME NEW c \in CancelFrame, Notes(c) PROVE CancelFirst'
    BY <1>0, <1>15
       DEF ResponseInv, Typed, CancelInv, CancelOwn, CancelFirst, FrameInv, CurrentInv,
           UpTyped, QueueTyped, Notes, Hears, SameUploads, Tombed
<1>16. ASSUME NEW f \in DataFrame, NEW ids \in SUBSET UploadIds, Releases(f, ids) PROVE CancelFirst'
    BY <1>0, <1>16
       DEF ResponseInv, Typed, CancelInv, CancelOwn, CancelFirst, FrameInv, CurrentInv,
           UpTyped, QueueTyped, Releases, Takes, SameUploads, Closed, Tombed
<1> QED BY <1>1, <1>2, <1>3, <1>4, <1>5, <1>6, <1>7, <1>8, <1>9, <1>10, <1>11, <1>12,
    <1>13, <1>14, <1>15, <1>16 DEF ResponseStep

----------------------------------------------------------------------------

LEMMA ResponseInitInv == ResponseInit => ResponseInv
<1> SUFFICES ASSUME ResponseInit PROVE ResponseInv
    OBVIOUS
<1>1. Frames = <<>> /\ Cancels = <<>> /\ outLane.control = <<>> /\ inLane.data = <<>>
    BY DEF ResponseInit, EmptyLanes, Frames, Cancels
<1>2. Queued = {} /\ Cancelled = {} /\ Behind = {} /\ Across = {} /\ Ordered = {}
    BY <1>1 DEF Queued, Cancelled, Behind, Across, Ordered, Pairs, Elems
<1>3. UploadIds = {} /\ DOMAIN streams = {} /\ Elems(tomb) = {}
    BY DEF ResponseInit, UploadIds, Elems
<1>4. ResponseShape
  <2>1. outLane \in Lanes /\ inLane \in Lanes
    BY DEF ResponseInit, EmptyLanes, Lanes
  <2>2. docOf \in [Asg -> BodyRecord]
    BY DEF ResponseInit, NoBody, BodyRecord
  <2>3. streams = [id \in DOMAIN streams |-> streams[id]]
    BY DEF ResponseInit
  <2>4. Len(tomb) <= TombLimit /\ tomb \in Seq(UploadIds)
    BY ResponseAssumption DEF ResponseInit, ResponseAssumption
  <2>5. up \in Seq(UploadRecord) /\ replies \in Seq(Seq({"ok", "error"})) /\ Len(replies) = Len(up)
    BY DEF ResponseInit
  <2> QED BY <1>3, <2>1, <2>2, <2>3, <2>4, <2>5 DEF ResponseShape, ResponseInit
<1>5. CurrentInv /\ ReleaseInv
    BY <1>2, <1>3 DEF ResponseInit, CurrentInv, ReleaseInv
<1>6. FrameInv /\ SentInOrder /\ WholeInv
    BY <1>2, <1>3 DEF FrameInv, SentInOrder, WholeInv, WholeCalls, WholeStreams
<1>7. DocumentInv
    BY <1>2, <1>3 DEF ResponseInit, NoBody, DocumentInv, DocumentOwned, DocumentNewest, DocumentStreams
<1>8. AnswerInv /\ TombInv /\ CancelInv
    BY <1>2, <1>3
    DEF AnswerInv, AnswerDue, AnswerLast, OkMeansMounted, TombInv, TombDropped, TombOver, CancelInv, CancelOwn, CancelFirst
<1> QED BY <1>4, <1>5, <1>6, <1>7, <1>8 DEF ResponseInv

LEMMA ResponseInvNext == ResponseInv /\ [ResponseNext]_responseVars => ResponseInv'
<1> SUFFICES ASSUME ResponseInv, [ResponseNext]_responseVars PROVE ResponseInv'
    OBVIOUS
<1>1. ResponseStep /\ ResponseShape'
    BY EveryResponseStep
<1>2. CurrentInv' /\ FrameInv' /\ ReleaseInv' /\ SentInOrder'
    BY <1>1, CurrentKept, FrameKept, ReleaseKept, OrderKept
<1>3. WholeInv' /\ DocumentInv'
    BY <1>1, CallsKept, StreamsKept, OwnedKept, NewestKept, DocumentStreamsKept DEF WholeInv, DocumentInv
<1>4. AnswerInv' /\ TombInv' /\ CancelInv'
    BY <1>1, DueKept, LastKept, MountedKept, DroppedKept, OverKept, CancelOwnKept, CancelFirstKept
    DEF AnswerInv, TombInv, CancelInv
<1> QED BY <1>1, <1>2, <1>3, <1>4 DEF ResponseInv

(* The inductive invariant of the response streams (child/session.rs): what *)
(* the browser sent and the child waits for is on its way in order, and the *)
(* document of a tab, its stream, its tombstone and its answer agree.       *)
THEOREM ResponseInvariant == ResponseSpec => []ResponseInv
BY ResponseInitInv, ResponseInvNext, PTL DEF ResponseSpec

(* A frame under way is in a lane.                                          *)
LEMMA UnderWay ==
    ASSUME LanesOk, NEW id, (\E f \in Queued : f.id = id) \/ (\E c \in Cancelled : c.id = id)
    PROVE  InFlight(id)
<1>1. ASSUME NEW lane \in {outLane, inLane}, NEW q \in {"control", "data"}, NEW f \in Elems(lane[q]), f.id = id PROVE InFlight(id)
  <2>1. PICK i \in 1..Len(lane[q]) : f = lane[q][i]
    BY <1>1 DEF Elems
  <2>2. lane[q] \in Seq(DataFrame) \/ lane[q] \in Seq(CancelFrame)
    BY <1>1 DEF LanesOk, Lanes
  <2>3. i \in DOMAIN lane[q]
    BY <2>1, <2>2
  <2> QED BY <1>1, <2>1, <2>3 DEF InFlight
<1>2. Cancelled = Elems(inLane["control"]) \cup Elems(outLane["control"]) /\ Queued = Elems(inLane["data"]) \cup Elems(outLane["data"])
    BY QueuedTyped DEF Behind, Across
<1> QED BY <1>1, <1>2

(* handle_host, finish and cancel: at every moment an Ok means the whole    *)
(* body is mounted, an ended upload has its answer or it is under way, no   *)
(* document stays open for a body nobody sends, and a call finds its        *)
(* engine, for any number of tabs and any sizes of lanes and limits.        *)
THEOREM ResponsesAreSafe == ResponseSpec => []ResponsesSafe
<1>1. ResponseInv => ResponsesSafe
  <2> SUFFICES ASSUME ResponseInv PROVE ResponsesSafe
    OBVIOUS
  <2>0. Typed /\ LanesOk
    BY ShapeTyped DEF ResponseInv, ResponseShape, LanesOk
  <2>1. ResponseTypeOK
    <3>1. UploadIds = 1..Len(up) /\ Len(up) \in Nat
      BY DEF ResponseInv, ResponseShape, UploadIds
    <3>2. \A a \in Asg : current[a] \in 0..Len(up)
      BY <2>0, <3>1 DEF ResponseInv, CurrentInv, Typed, UpTyped
    <3>3. \A id \in DOMAIN streams : streams[id].n \in 0..BodyLimit
      BY <2>0 DEF Typed, StreamTyped
    <3> QED BY <3>2, <3>3 DEF ResponseTypeOK, ResponseInv, ResponseShape
  <2>2. ASSUME NEW a \in Asg, docOf[a].st = "open"
        PROVE  docOf[a].id = current[a] \/ InFlight(docOf[a].id) \/ docOf[a].id \in evicted
    <3>1. PICK id : id = docOf[a].id
      OBVIOUS
    <3>2. id \in DOMAIN streams /\ id \in UploadIds /\ up[id].asg = a
      BY <2>0, <2>2, <3>1 DEF ResponseInv, DocumentInv, DocumentOwned, Typed, StreamTyped, UpTyped
    <3>3. up[id].st \in {"open", "ended", "dropped", "answered"}
      BY <2>0, <3>2 DEF Typed, UpTyped
    <3>4. CASE up[id].st \in {"open", "ended"}
      BY <3>1, <3>2, <3>4 DEF ResponseInv, CurrentInv
    <3>5. CASE up[id].st = "dropped"
      <4>1. id \notin Elems(tomb)
        BY <3>2 DEF ResponseInv, TombInv, TombOver
      <4>2. (\E c \in Cancelled : c.id = id) \/ id \in evicted
        BY <3>2, <3>5, <4>1 DEF ResponseInv, TombInv, TombDropped
      <4> QED BY <2>0, <3>1, <4>2, UnderWay
    <3>6. CASE up[id].st = "answered"
      BY <3>2, <3>6 DEF ResponseInv, AnswerInv, AnswerDue, WholeInv, WholeStreams, StreamWhole
    <3> QED BY <3>3, <3>4, <3>5, <3>6
  <2>3. AnswerComes
    BY <2>0, UnderWay DEF AnswerComes, ResponseInv, AnswerInv, AnswerDue
  <2>4. CallFindsEngine
    <3> SUFFICES ASSUME Waiting(inLane), Received.t = "call" PROVE Received.asg \in engines
      BY DEF CallFindsEngine
    <3>1. NextQueue(inLane) = "data"
      <4> SUFFICES ASSUME NextQueue(inLane) # "data" PROVE FALSE
        OBVIOUS
      <4>1. inLane.control # <<>> /\ Received = Head(inLane.control)
        BY DEF NextQueue, Received
      <4>2. Received \in CancelFrame
        BY <2>0, <4>1, QueuedTyped
      <4> QED BY <4>2 DEF CancelFrame
    <3>2. inLane.data # <<>> /\ Received = Head(inLane.data) /\ inLane.data \in Seq(DataFrame)
      BY <2>0, <3>1, QueuedTyped DEF NextQueue, Waiting, Received
    <3>3. Received \in Queued
      BY <2>0, <3>2, QueuedTyped DEF Across, Elems
    <3> QED BY <3>3 DEF ResponseInv, FrameInv
  <2> QED BY <2>1, <2>2, <2>3, <2>4 DEF ResponsesSafe, NoBodyLeftOpen, ResponseInv, AnswerInv
<1> QED BY <1>1, ResponseInvariant, PTL

LEMMA AbortsAreOwn == ResponseInv /\ [ResponseNext]_responseVars => AbortIsOwn
<1> SUFFICES ASSUME ResponseInv, [ResponseNext]_responseVars, NEW a \in Asg, docOf[a].st = "open", docOf'[a].st = "aborted"
             PROVE  up[docOf[a].id].st \in {"dropped", "ended"} \/ up[docOf[a].id].sent > BodyLimit
    BY DEF AbortIsOwn
<1>0. Typed /\ ResponseStep
    BY ShapeTyped, EveryResponseStep DEF ResponseInv
<1>1. CASE ChildQuiet
    BY <1>1 DEF ChildQuiet
<1>2. ASSUME NEW f \in DataFrame, Mounts(f) PROVE FALSE
  <2>1. docOf'[a] = IF a = f.asg THEN [id |-> f.id, got |-> 0, st |-> "open"] ELSE docOf[a]
    BY <1>0, <1>2 DEF Mounts, Typed, BodyTyped
  <2> QED BY <2>1
<1>3. ASSUME NEW f \in DataFrame, NEW ids \in SUBSET UploadIds, Releases(f, ids) PROVE FALSE
  <2>1. docOf'[a] = IF a = f.asg THEN NoBody ELSE docOf[a]
    BY <1>0, <1>3 DEF Releases, Typed, BodyTyped
  <2> QED BY <2>1 DEF NoBody
<1>4. ASSUME NEW f \in DataFrame, NEW b \in Asg, Feeds(f, b) PROVE FALSE
  <2>1. docOf'[a].st = docOf[a].st
    BY <1>4 DEF Feeds
  <2> QED BY <2>1
<1>5. ASSUME NEW f \in DataFrame, NEW b \in Asg, Overflows(f, b)
      PROVE  up[docOf[a].id].sent > BodyLimit
  <2>1. a = b
    BY <1>5 DEF Overflows, EndsDoc
  <2>2. Takes(f) /\ f \in Queued /\ f.t = "chunk" /\ f.id \in DOMAIN streams /\ a = up[f.id].asg
    BY <1>5, <2>1 DEF Overflows, Takes
  <2>3. docOf[a] = [id |-> f.id, got |-> streams[f.id].n, st |-> "open"]
    BY <2>2, OwnBody
  <2>4. docOf[a].id = f.id
    BY <2>3
  <2>5. streams[f.id].n + 1 <= up[f.id].sent
    BY <2>2, NextChunk
  <2>6. streams[f.id].n + 1 > BodyLimit /\ streams[f.id].n \in Nat /\ BodyLimit \in Nat /\ up[f.id].sent \in Nat
    BY <1>0, <1>5, <2>2 DEF Overflows, Typed, StreamTyped, UpTyped
  <2>7. up[f.id].sent > BodyLimit
    BY <2>5, <2>6
  <2> QED BY <2>4, <2>7
<1>6. ASSUME NEW f \in DataFrame, NEW b \in Asg, NEW ok \in BOOLEAN, EndsStream(f, b, ok)
      PROVE  up[docOf[a].id].st \in {"dropped", "ended"}
  <2>1. a = b
    BY <1>6 DEF EndsStream, EndsDoc
  <2>2. f \in Queued /\ f.t = "end" /\ f.id \in DOMAIN streams /\ a = up[f.id].asg
    BY <1>6, <2>1 DEF EndsStream, Takes
  <2>3. docOf[a] = [id |-> f.id, got |-> streams[f.id].n, st |-> "open"]
    BY <2>2, OwnBody
  <2>4. docOf[a].id = f.id
    BY <2>3
  <2>5. f.id \in UploadIds /\ up[f.id].st \in {"ended", "dropped", "answered"}
    BY <1>0, <2>2 DEF ResponseInv, FrameInv, Typed, UpTyped
  <2>6. up[f.id].st # "answered"
    BY <2>2, <2>5 DEF ResponseInv, AnswerInv, AnswerDue, WholeInv, WholeStreams, StreamWhole
  <2> QED BY <2>4, <2>5, <2>6
<1>7. ASSUME NEW c \in CancelFrame, NEW b \in Asg, Cuts(c, b)
      PROVE  up[docOf[a].id].st \in {"dropped", "ended"}
  <2>1. a = b
    BY <1>7 DEF Cuts, EndsDoc
  <2>2. c \in Cancelled /\ c.id \in DOMAIN streams /\ a = up[c.id].asg
    BY <1>7, <2>1 DEF Cuts, Hears
  <2>3. docOf[a] = [id |-> c.id, got |-> streams[c.id].n, st |-> "open"]
    BY <2>2, OwnBody
  <2>4. docOf[a].id = c.id
    BY <2>3
  <2> QED BY <2>2, <2>4 DEF ResponseInv, CancelInv, CancelOwn
<1> QED BY <1>0, <1>1, <1>2, <1>3, <1>4, <1>5, <1>6, <1>7, QuietSteps

(* cancel and finish: no step aborts the document of a tab on behalf of     *)
(* another upload than its own, however late the cancel of an earlier one   *)
(* arrives.                                                                 *)
THEOREM ResponseStepsKept == ResponseSpec => [][AbortIsOwn]_responseVars
BY ResponseInvariant, AbortsAreOwn, PTL DEF ResponseSpec
=============================================================================
