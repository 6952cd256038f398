----------------------------- MODULE TabRegistry -----------------------------
(* The tables the browser task, the tab coordinators and the service tasks  *)
(* of the renderers share (browser/task.rs): open tabs, their names, their  *)
(* openers, the frame records of their documents and their session storage. *)
(* Every table has a lock of its own; one action is one critical section,   *)
(* or several that nobody can tell apart.                                   *)
EXTENDS Naturals, FiniteSets, Sequences

CONSTANTS
    MaxTab,    \* bound on the tabs created in one behaviour
    WindowNames,     \* names of browsing contexts
    Frames,    \* ids a renderer gives to the frames of one document
    Hosted,    \* tabs whose coordinator does something; the others stay blank
    MaxGen,    \* bound on the renderers a tab is given in its life
    NoWindowName

ASSUME RegistryAssumption == /\ MaxTab \in Nat \ {0}
                             /\ MaxGen \in Nat \ {0}
                             /\ NoWindowName \notin WindowNames

Tabs == 1..MaxTab
Name == WindowNames \cup {NoWindowName}
Pair == [live : Name, document : Name]
FromName(n) == [live |-> n, document |-> n]
NoNames == FromName(NoWindowName)

VARIABLES
    next,      \* the next tab id
    tabs,      \* TabRegistry::tabs, the open tabs
    names,     \* the pair of every tab; NoNames stands for no entry
    openers,   \* the opener of every tab, 0 for none
    records,   \* per tab and frame: the renderer that registered it, 0 for none
    sessions,  \* tabs with a session storage namespace
    task,      \* what the browser task is doing
    coord,     \* what the coordinator of each tab is doing
    cur,       \* the renderer assigned to each tab (its number), 0 for none
    born,      \* renderers each tab has been given so far
    shown,     \* the name of the document the renderer shows
    calls,     \* service calls that have been resolved and not yet served
    events,    \* outgoing names of the Navigated events on their way
    late       \* tabs renamed by a document that had been left (history)

browserVars == <<next, tabs, openers, sessions, task>>
rendererVars == <<cur, born, shown, calls, events>>
tabsVars == <<browserVars, names, records, coord, rendererVars, late>>

NoFrames == [f \in Frames |-> 0]
CoordIdle == [at |-> "idle", prev |-> NoNames, known |-> FALSE, inst |-> NoNames, then |-> "none"]
TaskIdle == [op |-> "none", tab |-> 0, opener |-> 0]

TabsInit ==
    /\ next = 1
    /\ tabs = {}
    /\ names = [t \in Tabs |-> NoNames]
    /\ openers = [t \in Tabs |-> 0]
    /\ records = [t \in Tabs |-> NoFrames]
    /\ sessions = {}
    /\ task = TaskIdle
    /\ coord = [t \in Tabs |-> [CoordIdle EXCEPT !.at = "unborn"]]
    /\ cur = [t \in Tabs |-> 0]
    /\ born = [t \in Tabs |-> 0]
    /\ shown = [t \in Tabs |-> NoWindowName]
    /\ calls = {}
    /\ events = [t \in Tabs |-> <<>>]
    /\ late = {}

-----------------------------------------------------------------------------
(* The browser task: one command at a time, each over several locks.        *)
\* create_tab, for CreateTab and for OpenWindow: namespace and name first.
\* The opener named by a window.open may have closed meanwhile.
CreateTab(n, opener) ==
    /\ task = TaskIdle
    /\ next <= MaxTab
    /\ next' = next + 1
    /\ sessions' = sessions \cup {next}
    /\ names' = [names EXCEPT ![next] = FromName(n)]
    /\ task' = [op |-> "create", tab |-> next, opener |-> opener]
    /\ UNCHANGED <<tabs, openers, records, coord, rendererVars, late>>

SetOpener ==
    /\ task.op = "create"
    /\ openers' = [openers EXCEPT ![task.tab] = task.opener]
    /\ task' = [task EXCEPT !.op = "insert"]
    /\ UNCHANGED <<next, tabs, names, records, sessions, coord, rendererVars, late>>

\* The coordinator is spawned, then the tab is inserted; open_window marks
\* it as created by script and copies the namespace of the opener.
InsertTab ==
    /\ task.op = "insert"
    /\ tabs' = tabs \cup {task.tab}
    /\ coord' = [coord EXCEPT ![task.tab] = CoordIdle]
    /\ sessions' = sessions \cup {task.tab}
    /\ task' = TaskIdle
    /\ UNCHANGED <<next, names, openers, records, rendererVars, late>>

\* close_tab: the tab and its names go in one critical section.
RemoveTab(t) ==
    /\ task = TaskIdle
    /\ t \in tabs
    /\ tabs' = tabs \ {t}
    /\ names' = [names EXCEPT ![t] = NoNames]
    /\ task' = [op |-> "unlink", tab |-> t, opener |-> 0]
    /\ UNCHANGED <<next, openers, records, sessions, coord, rendererVars, late>>

\* Mutant: the tabs the closed one has opened lose their opener too.
RemoveOpenerOfAll ==
    /\ task.op = "unlink"
    /\ openers' = [t \in Tabs |-> IF task.tab \in {t, openers[t]} THEN 0 ELSE openers[t]]
    /\ task' = [task EXCEPT !.op = "forget"]
    /\ UNCHANGED <<next, tabs, names, records, sessions, coord, rendererVars, late>>

RemoveOpener ==
    /\ task.op = "unlink"
    /\ openers' = [openers EXCEPT ![task.tab] = 0]
    /\ task' = [task EXCEPT !.op = "forget"]
    /\ UNCHANGED <<next, tabs, names, records, sessions, coord, rendererVars, late>>

\* remove_sandbox, the spawned shutdown, and the end of the namespace.
ForgetTab ==
    /\ task.op = "forget"
    /\ records' = [records EXCEPT ![task.tab] = NoFrames]
    /\ sessions' = sessions \ {task.tab}
    /\ task' = TaskIdle
    /\ UNCHANGED <<next, tabs, names, openers, coord, rendererVars, late>>

\* group_root: the end of the opener chain. Openers are older than their tabs.
GroupRoot(t) ==
    LET root[u \in Tabs] == IF openers[u] = 0 THEN u ELSE root[openers[u]]
    IN root[t]

BrowserStep == \/ \E n \in Name, o \in 0..MaxTab : o < next /\ CreateTab(n, o)
               \/ SetOpener \/ InsertTab \/ RemoveOpener \/ ForgetTab
               \/ \E t \in Tabs : RemoveTab(t)

-----------------------------------------------------------------------------
(* A coordinator: commits driven by the browser. The name is installed      *)
(* before the mount, and taken back when the mount fails.                   *)
CoordAt(t, at) == coord[t].at = at
Coord(t, at) == coord' = [coord EXCEPT ![t].at = at]

\* commit_state and install_commit. A tab that closed meanwhile installs nothing.
BeginCommit(t, n) ==
    /\ CoordAt(t, "idle")
    /\ coord' = [coord EXCEPT ![t] = [at |-> "mount", prev |-> names[t], known |-> t \in tabs,
                                      inst |-> FromName(n), then |-> "abort"]]
    /\ names' = IF t \in tabs THEN [names EXCEPT ![t] = FromName(n)] ELSE names
    /\ UNCHANGED <<browserVars, records, rendererVars, late>>

\* mount_virtual: a tab without a renderer mounts a blank document under its
\* own name, and there is nothing to take back.
MountVirtual(t) ==
    /\ CoordAt(t, "idle")
    /\ cur[t] = 0
    /\ coord' = [coord EXCEPT ![t] = [CoordIdle EXCEPT !.at = "mount", !.inst = FromName(names[t].live)]]
    /\ UNCHANGED <<browserVars, names, records, rendererVars, late>>

\* A document is there under the name it was mounted with.
Mounted(t) ==
    /\ shown' = [shown EXCEPT ![t] = coord[t].inst.live]
    /\ coord' = [coord EXCEPT ![t] = CoordIdle]
    /\ late' = IF names[t].live = coord[t].inst.live THEN late \ {t} ELSE late
    /\ UNCHANGED <<browserVars, names, records, cur, born, calls, events>>

Blocked(t) == \E c \in calls : c.tab = t /\ c.gen = cur[t]

\* The renderer that is there takes the document, between two of its calls.
MountSame(t) ==
    /\ CoordAt(t, "mount")
    /\ cur[t] # 0
    /\ ~Blocked(t)
    /\ Mounted(t)

\* acquire failed: nothing was dropped.
MountUnavailable(t) ==
    /\ CoordAt(t, "mount")
    /\ Coord(t, IF coord[t].then = "abort" THEN "restore" ELSE "idle")
    /\ UNCHANGED <<browserVars, names, records, rendererVars, late>>

\* drop_renderer clears the frame records and then lets go of the assignment:
\* because another renderer takes over, or because a mount failed.
ClearFor(t, then) ==
    /\ records' = [records EXCEPT ![t] = NoFrames]
    /\ coord' = [coord EXCEPT ![t].at = then]
    /\ UNCHANGED <<browserVars, names, rendererVars, late>>

SwitchRenderer(t) == CoordAt(t, "mount") /\ born[t] < MaxGen /\ ClearFor(t, "attach")
TabMountFails(t) ==
    \/ CoordAt(t, "mount") /\ cur[t] # 0 /\ ClearFor(t, "release")
    \/ CoordAt(t, "fresh") /\ ClearFor(t, "release")
\* A failed request, or the end of the event channel, outside of a commit.
RendererLost(t) == CoordAt(t, "idle") /\ cur[t] # 0 /\ ClearFor(t, "release")
Shutdown(t) == CoordAt(t, "idle") /\ t \notin tabs /\ ClearFor(t, "end")

Attach(t) ==
    /\ CoordAt(t, "attach")
    /\ born' = [born EXCEPT ![t] = @ + 1]
    /\ cur' = [cur EXCEPT ![t] = born'[t]]
    /\ events' = [events EXCEPT ![t] = <<>>]
    /\ Coord(t, "fresh")
    /\ UNCHANGED <<browserVars, names, records, shown, calls, late>>

MountFresh(t) ==
    /\ CoordAt(t, "fresh")
    /\ Mounted(t)

Release(t) ==
    /\ coord[t].at \in {"release", "end"}
    /\ cur' = [cur EXCEPT ![t] = 0]
    /\ events' = [events EXCEPT ![t] = <<>>]
    /\ Coord(t, IF CoordAt(t, "end") THEN "gone"
                ELSE IF coord[t].then = "abort" THEN "restore" ELSE "idle")
    /\ UNCHANGED <<browserVars, names, records, born, shown, calls, late>>

\* restore_commit, a compare-and-set on the pair that was installed.
RestoreCommit(t) ==
    /\ CoordAt(t, "restore")
    /\ names' = IF coord[t].known /\ t \in tabs /\ names[t] = coord[t].inst
                THEN [names EXCEPT ![t] = coord[t].prev] ELSE names
    /\ coord' = [coord EXCEPT ![t] = CoordIdle]
    /\ UNCHANGED <<browserVars, records, rendererVars, late>>

\* The end of a closed tab whose coordinator does not answer in time: it is
\* aborted where it waits, and its fields are dropped without drop_renderer.
AbortCoordinator(t) ==
    /\ t \notin tabs
    /\ coord[t].at \in {"mount", "fresh"}
    /\ Coord(t, "gone")
    /\ cur' = [cur EXCEPT ![t] = 0]
    /\ events' = [events EXCEPT ![t] = <<>>]
    /\ UNCHANGED <<browserVars, names, records, born, shown, calls, late>>

-----------------------------------------------------------------------------
(* Commits driven by the renderer: the coordinator reads the live name and  *)
(* settles the document's one in a second critical section.                 *)
ReadName(t) ==
    /\ CoordAt(t, "idle")
    /\ events[t] # <<>>
    /\ coord' = [coord EXCEPT ![t] = [CoordIdle EXCEPT !.at = "settle", !.prev = FromName(Head(events[t])),
                                                  !.inst = FromName(names[t].live)]]
    /\ events' = [events EXCEPT ![t] = Tail(@)]
    /\ UNCHANGED <<browserVars, names, records, cur, born, shown, calls, late>>

SettleDocumentName(t) ==
    /\ CoordAt(t, "settle")
    /\ names' = IF t \in tabs /\ names[t].document = coord[t].prev.document
                THEN [names EXCEPT ![t].document = coord[t].inst.document] ELSE names
    /\ coord' = [coord EXCEPT ![t] = CoordIdle]
    /\ UNCHANGED <<browserVars, records, rendererVars, late>>

CoordStep(t) ==
    \/ \E n \in Name : BeginCommit(t, n)
    \/ MountVirtual(t) \/ MountSame(t) \/ MountUnavailable(t) \/ SwitchRenderer(t)
    \/ TabMountFails(t) \/ RendererLost(t) \/ Shutdown(t) \/ Attach(t) \/ MountFresh(t)
    \/ Release(t) \/ RestoreCommit(t) \/ AbortCoordinator(t)
    \/ ReadName(t) \/ SettleDocumentName(t)

-----------------------------------------------------------------------------
(* A renderer makes one call at a time and waits for the answer. The        *)
(* service task resolves the assignment, and holds it while it serves.      *)

Running(t) == cur[t] # 0 /\ ~Blocked(t) /\ ~CoordAt(t, "fresh")
Call(t, what, arg) == calls' = calls \cup {[tab |-> t, gen |-> cur[t], what |-> what, arg |-> arg]}

AssignName(t, n) ==
    /\ Running(t)
    /\ Call(t, "assign", n)
    /\ shown' = [shown EXCEPT ![t] = n]
    /\ UNCHANGED <<browserVars, names, records, coord, cur, born, events, late>>

\* A navigation inside the renderer: across origins the name is reset first.
NavigateSelf(t, reset) ==
    /\ Running(t)
    /\ events[t] = <<>>
    /\ IF reset
       THEN /\ Call(t, "reset", shown[t])
            /\ shown' = [shown EXCEPT ![t] = NoWindowName]
            /\ UNCHANGED events
       ELSE /\ events' = [events EXCEPT ![t] = Append(@, shown[t])]
            /\ UNCHANGED <<calls, shown>>
    /\ UNCHANGED <<browserVars, names, records, coord, cur, born, late>>

CreateFrame(t, f) ==
    /\ Running(t)
    /\ records[t][f] # cur[t]
    /\ Call(t, "frame", f)
    /\ UNCHANGED <<browserVars, names, records, coord, cur, born, shown, events, late>>

DestroyFrame(t, f) ==
    /\ Running(t)
    /\ records[t][f] = cur[t]
    /\ Call(t, "destroy", f)
    /\ UNCHANGED <<browserVars, names, records, coord, cur, born, shown, events, late>>

Left(c) == c.gen # cur[c.tab] \/ coord[c.tab].at \in {"mount", "attach", "fresh", "release", "restore"}
Renamed(c) == late' = IF Left(c) THEN late \cup {c.tab} ELSE late \ {c.tab}

\* Mutant: rename does not look whether the tab is still open.
RenameUnchecked(c, pair) ==
    /\ names' = [names EXCEPT ![c.tab] = pair]
    /\ Renamed(c)

Rename(c, pair) ==
    IF c.tab \in tabs THEN names' = [names EXCEPT ![c.tab] = pair] /\ Renamed(c)
                      ELSE UNCHANGED <<names, late>>

\* register_frame refuses a frame that has a record; the refusal is a
\* violation, and the process is killed for it.
RegisterFrame(c) ==
    records' = IF records[c.tab][c.arg] # 0 THEN records
               ELSE [records EXCEPT ![c.tab][c.arg] = c.gen]

Serve(c) ==
    /\ c \in calls
    /\ calls' = calls \ {c}
    /\ \/ /\ c.what = "assign"
          /\ Rename(c, FromName(c.arg))
          /\ UNCHANGED <<records, events>>
       \/ /\ c.what = "reset"
          /\ Rename(c, [names[c.tab] EXCEPT !.live = NoWindowName])
          /\ events' = IF c.gen = cur[c.tab] THEN [events EXCEPT ![c.tab] = Append(@, c.arg)] ELSE events
          /\ UNCHANGED <<records>>
       \/ /\ c.what = "frame"
          /\ RegisterFrame(c)
          /\ UNCHANGED <<names, late, events>>
       \/ /\ c.what = "destroy"
          /\ records' = [records EXCEPT ![c.tab][c.arg] = 0]
          /\ UNCHANGED <<names, late, events>>
    /\ UNCHANGED <<browserVars, coord, cur, born, shown>>

RendererStep(t) ==
    \/ \E n \in Name : AssignName(t, n)
    \/ \E r \in BOOLEAN : NavigateSelf(t, r)
    \/ \E f \in Frames : CreateFrame(t, f) \/ DestroyFrame(t, f)

TabsNext ==
    \/ BrowserStep
    \/ \E t \in Tabs \cap Hosted : CoordStep(t) \/ RendererStep(t)
    \/ \E c \in calls : Serve(c)

TabsSpec == TabsInit /\ [][TabsNext]_tabsVars

-----------------------------------------------------------------------------
TabsTypeOK ==
    /\ next \in 1..(MaxTab + 1)
    /\ tabs \subseteq 1..(next - 1)
    /\ names \in [Tabs -> Pair]
    /\ openers \in [Tabs -> 0..MaxTab]
    /\ records \in [Tabs -> [Frames -> 0..MaxGen]]
    /\ sessions \subseteq Tabs
    /\ cur \in [Tabs -> 0..MaxGen]
    /\ born \in [Tabs -> 0..MaxGen]
    /\ shown \in [Tabs -> Name]
    /\ \A t \in Tabs : Len(events[t]) <= 2
    /\ \A c, d \in calls : c.tab = d.tab /\ c.gen = d.gen => c = d

Building == IF task.op \in {"create", "insert"} THEN {task.tab} ELSE {}
Closing == IF task.op \in {"unlink", "forget"} THEN {task.tab} ELSE {}

(* A name never outlives its tab, however renames, commits and their undoing *)
(* race the close ("A name that outlived its tab would make the next         *)
(* window.open answer a WindowProxy for a closed context").                  *)
NamesOpen == \A t \in Tabs : names[t] # NoNames => t \in tabs \cup Building

(* Exactly the open tabs have a session storage namespace.                   *)
SessionsOpen == sessions \ Closing = tabs \cup Building

(* The group of an open tab keeps its identity when its root closes; only   *)
(* the end of a tab between the two moves it (find_by_name searches by it). *)
GroupKept ==
    [][\A t \in tabs \cap tabs' :
          GroupRoot(t)' = GroupRoot(t) \/ (task.op = "unlink" /\ openers[task.tab] # 0)]_tabsVars

(* At rest the registry and the renderer agree on the name of the browsing   *)
(* context (the compare-and-set of restore_commit), unless a document that   *)
(* was being left has renamed it since the commit began.                     *)
Resting(t) ==
    /\ t \in tabs
    /\ CoordAt(t, "idle")
    /\ cur[t] # 0
    /\ events[t] = <<>>
    /\ \A c \in calls : c.tab # t
NamesAgree == \A t \in Tabs : Resting(t) /\ t \notin late => names[t].live = shown[t]

\* The tables of the browser task agree with the tabs that are open, whatever
\* opens, renames, commits and closes meanwhile.
TabsSafe ==
    TabsTypeOK /\ NamesOpen /\ SessionsOpen /\ NamesAgree
=============================================================================
