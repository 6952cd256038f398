-------------------------- MODULE TabRegistryProofs --------------------------
(***************************************************************************)
(* The safety property of TabRegistry, for every number of tabs and of      *)
(* renderers, and every set of names, frames and hosted tabs.               *)
(*                                                                         *)
(* The argument for the names: the registry and the document disagree only  *)
(* while something is on its way that settles it. It is the service call of *)
(* the renderer in place (its argument is the name shown), the commit whose *)
(* name is installed before its mount (the pair is the installed one), or   *)
(* the commit that failed and has its old pair to put back (the old live    *)
(* name is the one shown). A call served while its document is being left   *)
(* breaks the last two, which is what `late' records.                       *)
(***************************************************************************)
EXTENDS TabRegistry, TLAPS

CoordStates == {"unborn", "idle", "mount", "attach", "fresh", "release", "restore",
                "settle", "end", "gone"}
CoordRecord == [at : CoordStates, prev : Pair, known : BOOLEAN, inst : Pair,
                then : {"none", "abort"}]
TaskRecord == [op : {"none", "create", "insert", "unlink", "forget"},
               tab : 0..MaxTab, opener : 0..MaxTab]
CallRecord == [tab : Tabs, gen : 1..MaxGen, what : {"assign", "reset"}, arg : Name]
              \cup [tab : Tabs, gen : 1..MaxGen, what : {"frame", "destroy"}, arg : Frames]

(* The types of the variables, the records of the actors included. *)
TabsShape ==
    /\ next \in 1..(MaxTab + 1)
    /\ tabs \subseteq 1..(next - 1)
    /\ names \in [Tabs -> Pair]
    /\ openers \in [Tabs -> 0..MaxTab]
    /\ records \in [Tabs -> [Frames -> 0..MaxGen]]
    /\ sessions \subseteq Tabs
    /\ task \in TaskRecord
    /\ coord \in [Tabs -> CoordRecord]
    /\ cur \in [Tabs -> 0..MaxGen]
    /\ born \in [Tabs -> 0..MaxGen]
    /\ shown \in [Tabs -> Name]
    /\ calls \subseteq CallRecord
    /\ events \in [Tabs -> Seq(Name)]

(* The command of the browser task names a tab that was created, and one it *)
(* is still building has no coordinator yet.                                *)
TaskInv ==
    /\ task.op # "none" => task.tab \in 1..(next - 1)
    /\ task.op \in {"create", "insert"} => CoordAt(task.tab, "unborn")

(* The call the renderer of t waits for. *)
CallOf(t, c) == c \in calls /\ c.tab = t /\ c.gen = cur[t]
Renaming(t) == \E c \in calls : CallOf(t, c) /\ c.what \in {"assign", "reset"}

(* A tab is given its renderers one after the other; each makes one call at *)
(* a time, and none before its first document is mounted.                   *)
GenInv(t) ==
    /\ t >= next => CoordAt(t, "unborn")
    /\ CoordAt(t, "unborn") => cur[t] = 0
    /\ CoordAt(t, "attach") => born[t] < MaxGen
    /\ cur[t] <= born[t]
    /\ CoordAt(t, "fresh") => ~Blocked(t)
    /\ \A c \in calls : c.tab = t => c.gen <= born[t]
    /\ \A c, d \in calls : c.tab = t /\ d.tab = t /\ c.gen = d.gen => c = d

(* At most one Navigated event is on its way, and none while the reset that *)
(* will send one is.                                                        *)
EventInv(t) ==
    /\ Len(events[t]) <= 1
    /\ \A c \in calls : CallOf(t, c) /\ c.what = "reset" => events[t] = <<>>

(* A call on its way carries the name its document shows already. *)
CallNameInv(t) ==
    \A c \in calls : CallOf(t, c) =>
        /\ c.what = "assign" => shown[t] = c.arg
        /\ c.what = "reset" => shown[t] = NoWindowName

(* There is something to undo exactly while a commit of the browser is      *)
(* under way; the virtual mount has no renderer to disagree with.           *)
ThenInv(t) ==
    /\ coord[t].at \in {"unborn", "idle", "settle"} => coord[t].then = "none"
    /\ CoordAt(t, "mount") /\ coord[t].then = "none" => cur[t] = 0
    /\ CoordAt(t, "restore") => coord[t].then = "abort"

(* Where the name of an open tab stands that no document left behind has    *)
(* renamed: with the document, with the commit, or with the commit to undo. *)
NameInv(t) == t \in tabs /\ t \notin late =>
    /\ coord[t].at \in {"idle", "settle"} /\ cur[t] # 0 /\ ~Renaming(t) =>
          names[t].live = shown[t]
    /\ coord[t].at \in {"mount", "attach", "fresh"} => names[t].live = coord[t].inst.live
    /\ coord[t].at \in {"mount", "attach", "fresh", "release", "restore"} /\ coord[t].then = "abort" =>
          coord[t].known /\ names[t] = coord[t].inst
    /\ coord[t].at \in {"mount", "restore"} /\ coord[t].then = "abort" /\ cur[t] # 0 /\ ~Renaming(t) =>
          coord[t].prev.live = shown[t]

TabInv(t) == GenInv(t) /\ EventInv(t) /\ CallNameInv(t) /\ ThenInv(t) /\ NameInv(t)

TabsInv ==
    /\ TabsShape
    /\ TaskInv
    /\ NamesOpen
    /\ SessionsOpen
    /\ \A t \in Tabs : TabInv(t)

-----------------------------------------------------------------------------
(* A step that leaves a tab, its renderer and its calls alone keeps what is *)
(* known of them; the tab may be closed, or renamed by a document left.     *)
LEMMA OtherTab ==
  ASSUME NEW u \in Tabs, TabInv(u), next' >= next, next \in Nat, next' \in Nat,
         u \in tabs' => u \in tabs, u \in late => u \in late',
         names'[u] = names[u], coord'[u] = coord[u], cur'[u] = cur[u], born'[u] = born[u],
         shown'[u] = shown[u], events'[u] = events[u],
         calls \subseteq CallRecord, calls' \subseteq CallRecord,
         \A c \in CallRecord : c.tab = u => (c \in calls' <=> c \in calls)
  PROVE  TabInv(u)'
<1>1. GenInv(u)'
    BY DEF TabInv, GenInv, Blocked, CoordAt, Tabs
<1>2. EventInv(u)' /\ CallNameInv(u)'
    BY DEF TabInv, EventInv, CallNameInv, CallOf
<1>3. ThenInv(u)'
    BY DEF TabInv, ThenInv, CoordAt
<1>4. Renaming(u)' <=> Renaming(u)
    BY DEF Renaming, CallOf
<1>5. NameInv(u)'
    BY <1>4 DEF TabInv, NameInv
<1> QED BY <1>1, <1>2, <1>3, <1>5 DEF TabInv

(* Records of a coordinator and of a call. *)
LEMMA CoordTyped ==
  ASSUME NEW r \in CoordRecord, NEW a \in CoordStates
  PROVE  [r EXCEPT !.at = a] \in CoordRecord
BY DEF CoordRecord

LEMMA PairTyped ==
  /\ \A n \in Name : FromName(n) \in Pair
  /\ \A p \in Pair : p.live \in Name /\ p.document \in Name
  /\ NoNames \in Pair
BY DEF NoNames, FromName, Pair, Name

LEMMA CoordBuilt ==
  /\ CoordIdle \in CoordRecord
  /\ \A p, q \in Pair, k \in BOOLEAN :
        [at |-> "mount", prev |-> p, known |-> k, inst |-> q, then |-> "abort"] \in CoordRecord
  /\ \A q \in Pair : [CoordIdle EXCEPT !.at = "mount", !.inst = q] \in CoordRecord
  /\ \A p, q \in Pair : [CoordIdle EXCEPT !.at = "settle", !.prev = p, !.inst = q] \in CoordRecord
BY PairTyped DEF CoordRecord, CoordStates, CoordIdle

LEMMA CallTyped ==
  ASSUME NEW t \in Tabs, NEW g \in 1..MaxGen
  PROVE  /\ \A n \in Name, w \in {"assign", "reset"} :
               [tab |-> t, gen |-> g, what |-> w, arg |-> n] \in CallRecord
         /\ \A f \in Frames, w \in {"frame", "destroy"} :
               [tab |-> t, gen |-> g, what |-> w, arg |-> f] \in CallRecord
BY DEF CallRecord

LEMMA CallFields ==
  ASSUME NEW c \in CallRecord
  PROVE  /\ c.tab \in Tabs
         /\ c.gen \in 1..MaxGen
         /\ \/ c.what \in {"assign", "reset"} /\ c.arg \in Name
            \/ c.what \in {"frame", "destroy"} /\ c.arg \in Frames
BY DEF CallRecord

(* commit_state and install_commit: the pair that was there is to be put back. *)
LEMMA BeginCommitStep ==
  ASSUME TabsInv, NEW t \in Tabs, NEW n \in Name, BeginCommit(t, n)
  PROVE  TabsInv'
<1>1. TabsShape'
  <2>1. coord' \in [Tabs -> CoordRecord]
    <3>1. (t \in tabs) \in BOOLEAN
        OBVIOUS
    <3>2. FromName(n) \in Pair /\ names[t] \in Pair
        BY PairTyped DEF TabsInv, TabsShape
    <3>3. [at |-> "mount", prev |-> names[t], known |-> t \in tabs, inst |-> FromName(n),
           then |-> "abort"] \in CoordRecord
        BY <3>1, <3>2, CoordBuilt
    <3> QED BY <3>3 DEF TabsInv, TabsShape, BeginCommit
  <2> QED
      BY <2>1, RegistryAssumption
         DEF RegistryAssumption, TabsInv, TabsShape, TabInv, GenInv, CoordAt, Pair,
             Name, FromName, CoordRecord, BeginCommit, browserVars, rendererVars
<1>2. TaskInv' /\ NamesOpen' /\ SessionsOpen'
    BY <1>1
       DEF TabsInv, TabsShape, TaskInv, NamesOpen, SessionsOpen, Building, Closing,
           CoordAt, CoordRecord, TaskRecord, Tabs, BeginCommit, CoordIdle, FromName,
           NoNames, browserVars, rendererVars, Pair
<1>3. ASSUME NEW u \in Tabs, u # t PROVE TabInv(u)'
  <2>1. /\ u \in tabs' => u \in tabs
        /\ u \in late => u \in late'
        /\ names'[u] = names[u]
        /\ coord'[u] = coord[u]
        /\ cur'[u] = cur[u] /\ born'[u] = born[u]
        /\ shown'[u] = shown[u] /\ events'[u] = events[u]
      BY <1>3
         DEF TabsInv, TabsShape, BeginCommit, CoordIdle, FromName, NoNames, browserVars,
             rendererVars, Pair
  <2>2. \A c \in CallRecord : c.tab = u => (c \in calls' <=> c \in calls)
      BY <1>3
         DEF BeginCommit, CoordIdle, FromName, NoNames, browserVars, rendererVars, Pair
  <2>3. next' >= next /\ next \in Nat /\ next' \in Nat
      BY RegistryAssumption
         DEF RegistryAssumption, TabsInv, TabsShape, BeginCommit, CoordIdle, FromName,
             NoNames, browserVars, rendererVars, Pair
  <2> QED BY <1>1, <2>1, <2>2, <2>3, OtherTab DEF TabsInv, TabsShape
<1>4. TabInv(t)'
  <2>1. GenInv(t)'
      BY <1>1
         DEF TabsInv, TabsShape, TabInv, CoordRecord, Tabs, CoordAt, CallRecord, GenInv,
             Blocked, BeginCommit, CoordIdle, FromName, NoNames, browserVars,
             rendererVars, Pair
  <2>2. EventInv(t)'
      BY <1>1
         DEF TabsInv, TabsShape, TabInv, CoordRecord, Tabs, CoordAt, CallRecord,
             EventInv, CallOf, BeginCommit, CoordIdle, FromName, NoNames, browserVars,
             rendererVars, Pair
  <2>3. CallNameInv(t)'
      BY <1>1
         DEF TabsInv, TabsShape, TabInv, CoordRecord, Tabs, CoordAt, CallRecord,
             CallNameInv, CallOf, BeginCommit, CoordIdle, FromName, NoNames,
             browserVars, rendererVars, Pair
  <2>4. ThenInv(t)'
      BY <1>1
         DEF TabsInv, TabsShape, TabInv, CoordRecord, Tabs, CoordAt, CallRecord,
             ThenInv, GenInv, BeginCommit, CoordIdle, FromName, NoNames, browserVars,
             rendererVars, Pair
  <2>5. NameInv(t)'
      BY <1>1
         DEF TabsInv, TabsShape, TabInv, CoordRecord, Tabs, CoordAt, CallRecord,
             NameInv, Renaming, CallOf, ThenInv, BeginCommit, CoordIdle, FromName,
             NoNames, browserVars, rendererVars, Pair
  <2> QED BY <2>1, <2>2, <2>3, <2>4, <2>5 DEF TabInv
<1> QED BY <1>1, <1>2, <1>3, <1>4 DEF TabsInv

(* mount_virtual: no renderer, and the name stays. *)
LEMMA MountVirtualStep ==
  ASSUME TabsInv, NEW t \in Tabs, MountVirtual(t)
  PROVE  TabsInv'
<1>1. TabsShape'
  <2>1. coord' \in [Tabs -> CoordRecord]
      BY CoordBuilt, PairTyped DEF TabsInv, TabsShape, CoordStates, MountVirtual
  <2> QED
      BY <2>1, RegistryAssumption
         DEF RegistryAssumption, TabsInv, TabsShape, TabInv, GenInv, CoordAt, Pair,
             Name, FromName, CoordRecord, MountVirtual, browserVars, rendererVars
<1>2. TaskInv' /\ NamesOpen' /\ SessionsOpen'
    BY <1>1
       DEF TabsInv, TabsShape, TaskInv, NamesOpen, SessionsOpen, Building, Closing,
           CoordAt, CoordRecord, TaskRecord, Tabs, MountVirtual, CoordIdle, FromName,
           NoNames, browserVars, rendererVars, Pair
<1>3. ASSUME NEW u \in Tabs, u # t PROVE TabInv(u)'
  <2>1. /\ u \in tabs' => u \in tabs
        /\ u \in late => u \in late'
        /\ names'[u] = names[u]
        /\ coord'[u] = coord[u]
        /\ cur'[u] = cur[u] /\ born'[u] = born[u]
        /\ shown'[u] = shown[u] /\ events'[u] = events[u]
      BY <1>3
         DEF TabsInv, TabsShape, MountVirtual, CoordIdle, FromName, NoNames,
             browserVars, rendererVars, Pair
  <2>2. \A c \in CallRecord : c.tab = u => (c \in calls' <=> c \in calls)
      BY <1>3
         DEF MountVirtual, CoordIdle, FromName, NoNames, browserVars, rendererVars, Pair
  <2>3. next' >= next /\ next \in Nat /\ next' \in Nat
      BY RegistryAssumption
         DEF RegistryAssumption, TabsInv, TabsShape, MountVirtual, CoordIdle, FromName,
             NoNames, browserVars, rendererVars, Pair
  <2> QED BY <1>1, <2>1, <2>2, <2>3, OtherTab DEF TabsInv, TabsShape
<1>4. TabInv(t)'
  <2>1. GenInv(t)'
      BY <1>1
         DEF TabsInv, TabsShape, TabInv, CoordRecord, Tabs, CoordAt, CallRecord, GenInv,
             Blocked, MountVirtual, CoordIdle, FromName, NoNames, browserVars,
             rendererVars, Pair
  <2>2. EventInv(t)'
      BY <1>1
         DEF TabsInv, TabsShape, TabInv, CoordRecord, Tabs, CoordAt, CallRecord,
             EventInv, CallOf, MountVirtual, CoordIdle, FromName, NoNames, browserVars,
             rendererVars, Pair
  <2>3. CallNameInv(t)'
      BY <1>1
         DEF TabsInv, TabsShape, TabInv, CoordRecord, Tabs, CoordAt, CallRecord,
             CallNameInv, CallOf, MountVirtual, CoordIdle, FromName, NoNames,
             browserVars, rendererVars, Pair
  <2>4. ThenInv(t)'
      BY <1>1
         DEF TabsInv, TabsShape, TabInv, CoordRecord, Tabs, CoordAt, CallRecord,
             ThenInv, GenInv, MountVirtual, CoordIdle, FromName, NoNames, browserVars,
             rendererVars, Pair
  <2>5. NameInv(t)'
      BY <1>1
         DEF TabsInv, TabsShape, TabInv, CoordRecord, Tabs, CoordAt, CallRecord,
             NameInv, Renaming, CallOf, ThenInv, MountVirtual, CoordIdle, FromName,
             NoNames, browserVars, rendererVars, Pair
  <2> QED BY <2>1, <2>2, <2>3, <2>4, <2>5 DEF TabInv
<1> QED BY <1>1, <1>2, <1>3, <1>4 DEF TabsInv

(* The renderer in place takes the document between two calls. *)
LEMMA MountSameStep ==
  ASSUME TabsInv, NEW t \in Tabs, MountSame(t)
  PROVE  TabsInv'
<1>1. TabsShape'
  <2>1. coord' \in [Tabs -> CoordRecord]
      BY CoordBuilt, PairTyped DEF TabsInv, TabsShape, CoordStates, MountSame, Mounted
  <2> QED
      BY <2>1, RegistryAssumption
         DEF RegistryAssumption, TabsInv, TabsShape, TabInv, GenInv, CoordAt, Pair,
             Name, FromName, CoordRecord, MountSame, Mounted, Blocked, browserVars,
             rendererVars
<1>2. TaskInv' /\ NamesOpen' /\ SessionsOpen'
    BY <1>1
       DEF TabsInv, TabsShape, TaskInv, NamesOpen, SessionsOpen, Building, Closing,
           CoordAt, CoordRecord, TaskRecord, Tabs, MountSame, Mounted, Blocked,
           CoordIdle, FromName, NoNames, browserVars, rendererVars, Pair
<1>3. ASSUME NEW u \in Tabs, u # t PROVE TabInv(u)'
  <2>1. /\ u \in tabs' => u \in tabs
        /\ u \in late => u \in late'
        /\ names'[u] = names[u]
        /\ coord'[u] = coord[u]
        /\ cur'[u] = cur[u] /\ born'[u] = born[u]
        /\ shown'[u] = shown[u] /\ events'[u] = events[u]
      BY <1>3
         DEF TabsInv, TabsShape, MountSame, Mounted, Blocked, CoordIdle, FromName,
             NoNames, browserVars, rendererVars, Pair
  <2>2. \A c \in CallRecord : c.tab = u => (c \in calls' <=> c \in calls)
      BY <1>3
         DEF MountSame, Mounted, Blocked, CoordIdle, FromName, NoNames, browserVars,
             rendererVars, Pair
  <2>3. next' >= next /\ next \in Nat /\ next' \in Nat
      BY RegistryAssumption
         DEF RegistryAssumption, TabsInv, TabsShape, MountSame, Mounted, Blocked,
             CoordIdle, FromName, NoNames, browserVars, rendererVars, Pair
  <2> QED BY <1>1, <2>1, <2>2, <2>3, OtherTab DEF TabsInv, TabsShape
<1>4. TabInv(t)'
  <2>1. GenInv(t)'
      BY <1>1
         DEF TabsInv, TabsShape, TabInv, CoordRecord, Tabs, CoordAt, CallRecord, GenInv,
             Blocked, MountSame, Mounted, CoordIdle, FromName, NoNames, browserVars,
             rendererVars, Pair
  <2>2. EventInv(t)'
      BY <1>1
         DEF TabsInv, TabsShape, TabInv, CoordRecord, Tabs, CoordAt, CallRecord,
             EventInv, CallOf, MountSame, Mounted, Blocked, CoordIdle, FromName,
             NoNames, browserVars, rendererVars, Pair
  <2>3. CallNameInv(t)'
      BY <1>1
         DEF TabsInv, TabsShape, TabInv, CoordRecord, Tabs, CoordAt, CallRecord,
             CallNameInv, CallOf, MountSame, Mounted, Blocked, CoordIdle, FromName,
             NoNames, browserVars, rendererVars, Pair
  <2>4. ThenInv(t)'
      BY <1>1
         DEF TabsInv, TabsShape, TabInv, CoordRecord, Tabs, CoordAt, CallRecord,
             ThenInv, GenInv, MountSame, Mounted, Blocked, CoordIdle, FromName, NoNames,
             browserVars, rendererVars, Pair
  <2>5. NameInv(t)'
      BY <1>1
         DEF TabsInv, TabsShape, TabInv, CoordRecord, Tabs, CoordAt, CallRecord,
             NameInv, Renaming, CallOf, ThenInv, MountSame, Mounted, Blocked, CoordIdle,
             FromName, NoNames, browserVars, rendererVars, Pair
  <2> QED BY <2>1, <2>2, <2>3, <2>4, <2>5 DEF TabInv
<1> QED BY <1>1, <1>2, <1>3, <1>4 DEF TabsInv

(* A failed acquire has dropped nothing. *)
LEMMA MountUnavailableStep ==
  ASSUME TabsInv, NEW t \in Tabs, MountUnavailable(t)
  PROVE  TabsInv'
<1>1. TabsShape'
  <2>1. coord' \in [Tabs -> CoordRecord]
      BY CoordTyped DEF TabsInv, TabsShape, CoordStates, MountUnavailable, Coord
  <2> QED
      BY <2>1, RegistryAssumption
         DEF RegistryAssumption, TabsInv, TabsShape, TabInv, GenInv, CoordAt, Pair,
             Name, FromName, CoordRecord, MountUnavailable, Coord, browserVars,
             rendererVars
<1>2. TaskInv' /\ NamesOpen' /\ SessionsOpen'
    BY <1>1
       DEF TabsInv, TabsShape, TaskInv, NamesOpen, SessionsOpen, Building, Closing,
           CoordAt, CoordRecord, TaskRecord, Tabs, MountUnavailable, Coord, CoordIdle,
           FromName, NoNames, browserVars, rendererVars, Pair
<1>3. ASSUME NEW u \in Tabs, u # t PROVE TabInv(u)'
  <2>1. /\ u \in tabs' => u \in tabs
        /\ u \in late => u \in late'
        /\ names'[u] = names[u]
        /\ coord'[u] = coord[u]
        /\ cur'[u] = cur[u] /\ born'[u] = born[u]
        /\ shown'[u] = shown[u] /\ events'[u] = events[u]
      BY <1>3
         DEF TabsInv, TabsShape, MountUnavailable, Coord, CoordIdle, FromName, NoNames,
             browserVars, rendererVars, Pair
  <2>2. \A c \in CallRecord : c.tab = u => (c \in calls' <=> c \in calls)
      BY <1>3
         DEF MountUnavailable, Coord, CoordIdle, FromName, NoNames, browserVars,
             rendererVars, Pair
  <2>3. next' >= next /\ next \in Nat /\ next' \in Nat
      BY RegistryAssumption
         DEF RegistryAssumption, TabsInv, TabsShape, MountUnavailable, Coord, CoordIdle,
             FromName, NoNames, browserVars, rendererVars, Pair
  <2> QED BY <1>1, <2>1, <2>2, <2>3, OtherTab DEF TabsInv, TabsShape
<1>4. TabInv(t)'
  <2>1. GenInv(t)'
      BY <1>1
         DEF TabsInv, TabsShape, TabInv, CoordRecord, Tabs, CoordAt, CallRecord, GenInv,
             Blocked, MountUnavailable, Coord, CoordIdle, FromName, NoNames,
             browserVars, rendererVars, Pair
  <2>2. EventInv(t)'
      BY <1>1
         DEF TabsInv, TabsShape, TabInv, CoordRecord, Tabs, CoordAt, CallRecord,
             EventInv, CallOf, MountUnavailable, Coord, CoordIdle, FromName, NoNames,
             browserVars, rendererVars, Pair
  <2>3. CallNameInv(t)'
      BY <1>1
         DEF TabsInv, TabsShape, TabInv, CoordRecord, Tabs, CoordAt, CallRecord,
             CallNameInv, CallOf, MountUnavailable, Coord, CoordIdle, FromName, NoNames,
             browserVars, rendererVars, Pair
  <2>4. ThenInv(t)'
      BY <1>1
         DEF TabsInv, TabsShape, TabInv, CoordRecord, Tabs, CoordAt, CallRecord,
             ThenInv, GenInv, MountUnavailable, Coord, CoordIdle, FromName, NoNames,
             browserVars, rendererVars, Pair
  <2>5. NameInv(t)'
      BY <1>1
         DEF TabsInv, TabsShape, TabInv, CoordRecord, Tabs, CoordAt, CallRecord,
             NameInv, Renaming, CallOf, ThenInv, MountUnavailable, Coord, CoordIdle,
             FromName, NoNames, browserVars, rendererVars, Pair
  <2> QED BY <2>1, <2>2, <2>3, <2>4, <2>5 DEF TabInv
<1> QED BY <1>1, <1>2, <1>3, <1>4 DEF TabsInv

(* Another renderer is to take over. *)
LEMMA SwitchRendererStep ==
  ASSUME TabsInv, NEW t \in Tabs, SwitchRenderer(t)
  PROVE  TabsInv'
<1>1. TabsShape'
  <2>1. coord' \in [Tabs -> CoordRecord]
      BY CoordTyped DEF TabsInv, TabsShape, CoordStates, SwitchRenderer, ClearFor
  <2> QED
      BY <2>1, RegistryAssumption
         DEF RegistryAssumption, TabsInv, TabsShape, TabInv, GenInv, CoordAt, Pair,
             Name, FromName, CoordRecord, SwitchRenderer, ClearFor, NoFrames,
             browserVars, rendererVars
<1>2. TaskInv' /\ NamesOpen' /\ SessionsOpen'
    BY <1>1
       DEF TabsInv, TabsShape, TaskInv, NamesOpen, SessionsOpen, Building, Closing,
           CoordAt, CoordRecord, TaskRecord, Tabs, SwitchRenderer, ClearFor, NoFrames,
           CoordIdle, FromName, NoNames, browserVars, rendererVars, Pair
<1>3. ASSUME NEW u \in Tabs, u # t PROVE TabInv(u)'
  <2>1. /\ u \in tabs' => u \in tabs
        /\ u \in late => u \in late'
        /\ names'[u] = names[u]
        /\ coord'[u] = coord[u]
        /\ cur'[u] = cur[u] /\ born'[u] = born[u]
        /\ shown'[u] = shown[u] /\ events'[u] = events[u]
      BY <1>3
         DEF TabsInv, TabsShape, SwitchRenderer, ClearFor, NoFrames, CoordIdle,
             FromName, NoNames, browserVars, rendererVars, Pair
  <2>2. \A c \in CallRecord : c.tab = u => (c \in calls' <=> c \in calls)
      BY <1>3
         DEF SwitchRenderer, ClearFor, NoFrames, CoordIdle, FromName, NoNames,
             browserVars, rendererVars, Pair
  <2>3. next' >= next /\ next \in Nat /\ next' \in Nat
      BY RegistryAssumption
         DEF RegistryAssumption, TabsInv, TabsShape, SwitchRenderer, ClearFor, NoFrames,
             CoordIdle, FromName, NoNames, browserVars, rendererVars, Pair
  <2> QED BY <1>1, <2>1, <2>2, <2>3, OtherTab DEF TabsInv, TabsShape
<1>4. TabInv(t)'
  <2>1. GenInv(t)'
      BY <1>1
         DEF TabsInv, TabsShape, TabInv, CoordRecord, Tabs, CoordAt, CallRecord, GenInv,
             Blocked, SwitchRenderer, ClearFor, NoFrames, CoordIdle, FromName, NoNames,
             browserVars, rendererVars, Pair
  <2>2. EventInv(t)'
      BY <1>1
         DEF TabsInv, TabsShape, TabInv, CoordRecord, Tabs, CoordAt, CallRecord,
             EventInv, CallOf, SwitchRenderer, ClearFor, NoFrames, CoordIdle, FromName,
             NoNames, browserVars, rendererVars, Pair
  <2>3. CallNameInv(t)'
      BY <1>1
         DEF TabsInv, TabsShape, TabInv, CoordRecord, Tabs, CoordAt, CallRecord,
             CallNameInv, CallOf, SwitchRenderer, ClearFor, NoFrames, CoordIdle,
             FromName, NoNames, browserVars, rendererVars, Pair
  <2>4. ThenInv(t)'
      BY <1>1
         DEF TabsInv, TabsShape, TabInv, CoordRecord, Tabs, CoordAt, CallRecord,
             ThenInv, GenInv, SwitchRenderer, ClearFor, NoFrames, CoordIdle, FromName,
             NoNames, browserVars, rendererVars, Pair
  <2>5. NameInv(t)'
      BY <1>1
         DEF TabsInv, TabsShape, TabInv, CoordRecord, Tabs, CoordAt, CallRecord,
             NameInv, Renaming, CallOf, ThenInv, SwitchRenderer, ClearFor, NoFrames,
             CoordIdle, FromName, NoNames, browserVars, rendererVars, Pair
  <2> QED BY <2>1, <2>2, <2>3, <2>4, <2>5 DEF TabInv
<1> QED BY <1>1, <1>2, <1>3, <1>4 DEF TabsInv

(* drop_renderer after a mount that failed, or when the renderer is lost. *)
LEMMA LetGoStep ==
  ASSUME TabsInv, NEW t \in Tabs, coord[t].at \in {"idle", "mount", "fresh"}, ClearFor(t, "release")
  PROVE  TabsInv'
<1>1. TabsShape'
  <2>1. coord' \in [Tabs -> CoordRecord]
      BY CoordTyped DEF TabsInv, TabsShape, CoordStates, ClearFor
  <2> QED
      BY <2>1, RegistryAssumption
         DEF RegistryAssumption, TabsInv, TabsShape, TabInv, GenInv, CoordAt, Pair,
             Name, FromName, CoordRecord, ClearFor, NoFrames, browserVars, rendererVars
<1>2. TaskInv' /\ NamesOpen' /\ SessionsOpen'
    BY <1>1
       DEF TabsInv, TabsShape, TaskInv, NamesOpen, SessionsOpen, Building, Closing,
           CoordAt, CoordRecord, TaskRecord, Tabs, ClearFor, NoFrames, CoordIdle,
           FromName, NoNames, browserVars, rendererVars, Pair
<1>3. ASSUME NEW u \in Tabs, u # t PROVE TabInv(u)'
  <2>1. /\ u \in tabs' => u \in tabs
        /\ u \in late => u \in late'
        /\ names'[u] = names[u]
        /\ coord'[u] = coord[u]
        /\ cur'[u] = cur[u] /\ born'[u] = born[u]
        /\ shown'[u] = shown[u] /\ events'[u] = events[u]
      BY <1>3
         DEF TabsInv, TabsShape, ClearFor, NoFrames, CoordIdle, FromName, NoNames,
             browserVars, rendererVars, Pair
  <2>2. \A c \in CallRecord : c.tab = u => (c \in calls' <=> c \in calls)
      BY <1>3
         DEF ClearFor, NoFrames, CoordIdle, FromName, NoNames, browserVars,
             rendererVars, Pair
  <2>3. next' >= next /\ next \in Nat /\ next' \in Nat
      BY RegistryAssumption
         DEF RegistryAssumption, TabsInv, TabsShape, ClearFor, NoFrames, CoordIdle,
             FromName, NoNames, browserVars, rendererVars, Pair
  <2> QED BY <1>1, <2>1, <2>2, <2>3, OtherTab DEF TabsInv, TabsShape
<1>4. TabInv(t)'
  <2>1. GenInv(t)'
      BY <1>1
         DEF TabsInv, TabsShape, TabInv, CoordRecord, Tabs, CoordAt, CallRecord, GenInv,
             Blocked, ClearFor, NoFrames, CoordIdle, FromName, NoNames, browserVars,
             rendererVars, Pair
  <2>2. EventInv(t)'
      BY <1>1
         DEF TabsInv, TabsShape, TabInv, CoordRecord, Tabs, CoordAt, CallRecord,
             EventInv, CallOf, ClearFor, NoFrames, CoordIdle, FromName, NoNames,
             browserVars, rendererVars, Pair
  <2>3. CallNameInv(t)'
      BY <1>1
         DEF TabsInv, TabsShape, TabInv, CoordRecord, Tabs, CoordAt, CallRecord,
             CallNameInv, CallOf, ClearFor, NoFrames, CoordIdle, FromName, NoNames,
             browserVars, rendererVars, Pair
  <2>4. ThenInv(t)'
      BY <1>1
         DEF TabsInv, TabsShape, TabInv, CoordRecord, Tabs, CoordAt, CallRecord,
             ThenInv, GenInv, ClearFor, NoFrames, CoordIdle, FromName, NoNames,
             browserVars, rendererVars, Pair
  <2>5. NameInv(t)'
      BY <1>1
         DEF TabsInv, TabsShape, TabInv, CoordRecord, Tabs, CoordAt, CallRecord,
             NameInv, Renaming, CallOf, ThenInv, ClearFor, NoFrames, CoordIdle,
             FromName, NoNames, browserVars, rendererVars, Pair
  <2> QED BY <2>1, <2>2, <2>3, <2>4, <2>5 DEF TabInv
<1> QED BY <1>1, <1>2, <1>3, <1>4 DEF TabsInv

(* The coordinator of a closed tab ends. *)
LEMMA ShutdownStep ==
  ASSUME TabsInv, NEW t \in Tabs, Shutdown(t)
  PROVE  TabsInv'
<1>1. TabsShape'
  <2>1. coord' \in [Tabs -> CoordRecord]
      BY CoordTyped DEF TabsInv, TabsShape, CoordStates, Shutdown, ClearFor
  <2> QED
      BY <2>1, RegistryAssumption
         DEF RegistryAssumption, TabsInv, TabsShape, TabInv, GenInv, CoordAt, Pair,
             Name, FromName, CoordRecord, Shutdown, ClearFor, NoFrames, browserVars,
             rendererVars
<1>2. TaskInv' /\ NamesOpen' /\ SessionsOpen'
    BY <1>1
       DEF TabsInv, TabsShape, TaskInv, NamesOpen, SessionsOpen, Building, Closing,
           CoordAt, CoordRecord, TaskRecord, Tabs, Shutdown, ClearFor, NoFrames,
           CoordIdle, FromName, NoNames, browserVars, rendererVars, Pair
<1>3. ASSUME NEW u \in Tabs, u # t PROVE TabInv(u)'
  <2>1. /\ u \in tabs' => u \in tabs
        /\ u \in late => u \in late'
        /\ names'[u] = names[u]
        /\ coord'[u] = coord[u]
        /\ cur'[u] = cur[u] /\ born'[u] = born[u]
        /\ shown'[u] = shown[u] /\ events'[u] = events[u]
      BY <1>3
         DEF TabsInv, TabsShape, Shutdown, ClearFor, NoFrames, CoordIdle, FromName,
             NoNames, browserVars, rendererVars, Pair
  <2>2. \A c \in CallRecord : c.tab = u => (c \in calls' <=> c \in calls)
      BY <1>3
         DEF Shutdown, ClearFor, NoFrames, CoordIdle, FromName, NoNames, browserVars,
             rendererVars, Pair
  <2>3. next' >= next /\ next \in Nat /\ next' \in Nat
      BY RegistryAssumption
         DEF RegistryAssumption, TabsInv, TabsShape, Shutdown, ClearFor, NoFrames,
             CoordIdle, FromName, NoNames, browserVars, rendererVars, Pair
  <2> QED BY <1>1, <2>1, <2>2, <2>3, OtherTab DEF TabsInv, TabsShape
<1>4. TabInv(t)'
  <2>1. GenInv(t)'
      BY <1>1
         DEF TabsInv, TabsShape, TabInv, CoordRecord, Tabs, CoordAt, CallRecord, GenInv,
             Blocked, Shutdown, ClearFor, NoFrames, CoordIdle, FromName, NoNames,
             browserVars, rendererVars, Pair
  <2>2. EventInv(t)'
      BY <1>1
         DEF TabsInv, TabsShape, TabInv, CoordRecord, Tabs, CoordAt, CallRecord,
             EventInv, CallOf, Shutdown, ClearFor, NoFrames, CoordIdle, FromName,
             NoNames, browserVars, rendererVars, Pair
  <2>3. CallNameInv(t)'
      BY <1>1
         DEF TabsInv, TabsShape, TabInv, CoordRecord, Tabs, CoordAt, CallRecord,
             CallNameInv, CallOf, Shutdown, ClearFor, NoFrames, CoordIdle, FromName,
             NoNames, browserVars, rendererVars, Pair
  <2>4. ThenInv(t)'
      BY <1>1
         DEF TabsInv, TabsShape, TabInv, CoordRecord, Tabs, CoordAt, CallRecord,
             ThenInv, GenInv, Shutdown, ClearFor, NoFrames, CoordIdle, FromName,
             NoNames, browserVars, rendererVars, Pair
  <2>5. NameInv(t)'
      BY <1>1
         DEF TabsInv, TabsShape, TabInv, CoordRecord, Tabs, CoordAt, CallRecord,
             NameInv, Renaming, CallOf, ThenInv, Shutdown, ClearFor, NoFrames,
             CoordIdle, FromName, NoNames, browserVars, rendererVars, Pair
  <2> QED BY <2>1, <2>2, <2>3, <2>4, <2>5 DEF TabInv
<1> QED BY <1>1, <1>2, <1>3, <1>4 DEF TabsInv

(* A renderer of a new generation: no call of it exists. *)
LEMMA AttachStep ==
  ASSUME TabsInv, NEW t \in Tabs, Attach(t)
  PROVE  TabsInv'
<1>1. TabsShape'
  <2>1. coord' \in [Tabs -> CoordRecord]
      BY CoordTyped DEF TabsInv, TabsShape, CoordStates, Attach, Coord
  <2> QED
      BY <2>1, RegistryAssumption
         DEF RegistryAssumption, TabsInv, TabsShape, TabInv, GenInv, CoordAt, Pair,
             Name, FromName, CoordRecord, Attach, Coord, Blocked, browserVars,
             rendererVars
<1>2. TaskInv' /\ NamesOpen' /\ SessionsOpen'
    BY <1>1
       DEF TabsInv, TabsShape, TaskInv, NamesOpen, SessionsOpen, Building, Closing,
           CoordAt, CoordRecord, TaskRecord, Tabs, Attach, Coord, Blocked, CoordIdle,
           FromName, NoNames, browserVars, rendererVars, Pair
<1>3. ASSUME NEW u \in Tabs, u # t PROVE TabInv(u)'
  <2>1. /\ u \in tabs' => u \in tabs
        /\ u \in late => u \in late'
        /\ names'[u] = names[u]
        /\ coord'[u] = coord[u]
        /\ cur'[u] = cur[u] /\ born'[u] = born[u]
        /\ shown'[u] = shown[u] /\ events'[u] = events[u]
      BY <1>3
         DEF TabsInv, TabsShape, Attach, Coord, Blocked, CoordIdle, FromName, NoNames,
             browserVars, rendererVars, Pair
  <2>2. \A c \in CallRecord : c.tab = u => (c \in calls' <=> c \in calls)
      BY <1>3
         DEF Attach, Coord, Blocked, CoordIdle, FromName, NoNames, browserVars,
             rendererVars, Pair
  <2>3. next' >= next /\ next \in Nat /\ next' \in Nat
      BY RegistryAssumption
         DEF RegistryAssumption, TabsInv, TabsShape, Attach, Coord, Blocked, CoordIdle,
             FromName, NoNames, browserVars, rendererVars, Pair
  <2> QED BY <1>1, <2>1, <2>2, <2>3, OtherTab DEF TabsInv, TabsShape
<1>4. TabInv(t)'
  <2>0. \A c \in calls : c.tab = t => c.gen # cur'[t]
      BY CallFields, RegistryAssumption
         DEF RegistryAssumption, TabsInv, TabsShape, TabInv, GenInv, CoordAt, Attach
  <2>1. GenInv(t)'
      BY <1>1, <2>0, CallFields, RegistryAssumption
         DEF RegistryAssumption, TabsInv, TabsShape, TabInv, CoordRecord, Tabs, CoordAt,
             GenInv, Blocked, Attach, Coord, CoordIdle, FromName, NoNames, browserVars,
             rendererVars, Pair
  <2>2. EventInv(t)'
      BY <1>1, <2>0
         DEF TabsInv, TabsShape, TabInv, CoordRecord, Tabs, CoordAt, EventInv, CallOf,
             Attach, Coord, Blocked, CoordIdle, FromName, NoNames, browserVars,
             rendererVars, Pair
  <2>3. CallNameInv(t)'
      BY <1>1, <2>0
         DEF TabsInv, TabsShape, TabInv, CoordRecord, Tabs, CoordAt, CallNameInv,
             CallOf, Attach, Coord, Blocked, CoordIdle, FromName, NoNames, browserVars,
             rendererVars, Pair
  <2>4. ThenInv(t)'
      BY <1>1, <2>0
         DEF TabsInv, TabsShape, TabInv, CoordRecord, Tabs, CoordAt, ThenInv, GenInv,
             Attach, Coord, Blocked, CoordIdle, FromName, NoNames, browserVars,
             rendererVars, Pair
  <2>5. NameInv(t)'
      BY <1>1, <2>0
         DEF TabsInv, TabsShape, TabInv, CoordRecord, Tabs, CoordAt, NameInv, Renaming,
             CallOf, ThenInv, Attach, Coord, Blocked, CoordIdle, FromName, NoNames,
             browserVars, rendererVars, Pair
  <2> QED BY <2>1, <2>2, <2>3, <2>4, <2>5 DEF TabInv
<1> QED BY <1>1, <1>2, <1>3, <1>4 DEF TabsInv

(* The first document of a new renderer. *)
LEMMA MountFreshStep ==
  ASSUME TabsInv, NEW t \in Tabs, MountFresh(t)
  PROVE  TabsInv'
<1>1. TabsShape'
  <2>1. coord' \in [Tabs -> CoordRecord]
      BY CoordBuilt, PairTyped DEF TabsInv, TabsShape, CoordStates, MountFresh, Mounted
  <2> QED
      BY <2>1, RegistryAssumption
         DEF RegistryAssumption, TabsInv, TabsShape, TabInv, GenInv, CoordAt, Pair,
             Name, FromName, CoordRecord, MountFresh, Mounted, Blocked, browserVars,
             rendererVars
<1>2. TaskInv' /\ NamesOpen' /\ SessionsOpen'
    BY <1>1
       DEF TabsInv, TabsShape, TaskInv, NamesOpen, SessionsOpen, Building, Closing,
           CoordAt, CoordRecord, TaskRecord, Tabs, MountFresh, Mounted, Blocked,
           CoordIdle, FromName, NoNames, browserVars, rendererVars, Pair
<1>3. ASSUME NEW u \in Tabs, u # t PROVE TabInv(u)'
  <2>1. /\ u \in tabs' => u \in tabs
        /\ u \in late => u \in late'
        /\ names'[u] = names[u]
        /\ coord'[u] = coord[u]
        /\ cur'[u] = cur[u] /\ born'[u] = born[u]
        /\ shown'[u] = shown[u] /\ events'[u] = events[u]
      BY <1>3
         DEF TabsInv, TabsShape, MountFresh, Mounted, Blocked, CoordIdle, FromName,
             NoNames, browserVars, rendererVars, Pair
  <2>2. \A c \in CallRecord : c.tab = u => (c \in calls' <=> c \in calls)
      BY <1>3
         DEF MountFresh, Mounted, Blocked, CoordIdle, FromName, NoNames, browserVars,
             rendererVars, Pair
  <2>3. next' >= next /\ next \in Nat /\ next' \in Nat
      BY RegistryAssumption
         DEF RegistryAssumption, TabsInv, TabsShape, MountFresh, Mounted, Blocked,
             CoordIdle, FromName, NoNames, browserVars, rendererVars, Pair
  <2> QED BY <1>1, <2>1, <2>2, <2>3, OtherTab DEF TabsInv, TabsShape
<1>4. TabInv(t)'
  <2>1. GenInv(t)'
      BY <1>1
         DEF TabsInv, TabsShape, TabInv, CoordRecord, Tabs, CoordAt, CallRecord, GenInv,
             Blocked, MountFresh, Mounted, CoordIdle, FromName, NoNames, browserVars,
             rendererVars, Pair
  <2>2. EventInv(t)'
      BY <1>1
         DEF TabsInv, TabsShape, TabInv, CoordRecord, Tabs, CoordAt, CallRecord,
             EventInv, CallOf, GenInv, MountFresh, Mounted, Blocked, CoordIdle,
             FromName, NoNames, browserVars, rendererVars, Pair
  <2>3. CallNameInv(t)'
      BY <1>1
         DEF TabsInv, TabsShape, TabInv, CoordRecord, Tabs, CoordAt, CallRecord,
             CallNameInv, CallOf, GenInv, MountFresh, Mounted, Blocked, CoordIdle,
             FromName, NoNames, browserVars, rendererVars, Pair
  <2>4. ThenInv(t)'
      BY <1>1
         DEF TabsInv, TabsShape, TabInv, CoordRecord, Tabs, CoordAt, CallRecord,
             ThenInv, GenInv, MountFresh, Mounted, Blocked, CoordIdle, FromName,
             NoNames, browserVars, rendererVars, Pair
  <2>5. NameInv(t)'
      BY <1>1
         DEF TabsInv, TabsShape, TabInv, CoordRecord, Tabs, CoordAt, CallRecord,
             NameInv, Renaming, CallOf, ThenInv, GenInv, MountFresh, Mounted, Blocked,
             CoordIdle, FromName, NoNames, browserVars, rendererVars, Pair
  <2> QED BY <2>1, <2>2, <2>3, <2>4, <2>5 DEF TabInv
<1> QED BY <1>1, <1>2, <1>3, <1>4 DEF TabsInv

(* The assignment is dropped, and its events with it. *)
LEMMA ReleaseStep ==
  ASSUME TabsInv, NEW t \in Tabs, Release(t)
  PROVE  TabsInv'
<1>1. TabsShape'
  <2>1. coord' \in [Tabs -> CoordRecord]
      BY CoordTyped DEF TabsInv, TabsShape, CoordStates, Release, Coord
  <2> QED
      BY <2>1, RegistryAssumption
         DEF RegistryAssumption, TabsInv, TabsShape, TabInv, GenInv, CoordAt, Pair,
             Name, FromName, CoordRecord, Release, Coord, Blocked, browserVars,
             rendererVars
<1>2. TaskInv' /\ NamesOpen' /\ SessionsOpen'
    BY <1>1
       DEF TabsInv, TabsShape, TaskInv, NamesOpen, SessionsOpen, Building, Closing,
           CoordAt, CoordRecord, TaskRecord, Tabs, Release, Coord, Blocked, CoordIdle,
           FromName, NoNames, browserVars, rendererVars, Pair
<1>3. ASSUME NEW u \in Tabs, u # t PROVE TabInv(u)'
  <2>1. /\ u \in tabs' => u \in tabs
        /\ u \in late => u \in late'
        /\ names'[u] = names[u]
        /\ coord'[u] = coord[u]
        /\ cur'[u] = cur[u] /\ born'[u] = born[u]
        /\ shown'[u] = shown[u] /\ events'[u] = events[u]
      BY <1>3
         DEF TabsInv, TabsShape, Release, Coord, Blocked, CoordIdle, FromName, NoNames,
             browserVars, rendererVars, Pair
  <2>2. \A c \in CallRecord : c.tab = u => (c \in calls' <=> c \in calls)
      BY <1>3
         DEF Release, Coord, Blocked, CoordIdle, FromName, NoNames, browserVars,
             rendererVars, Pair
  <2>3. next' >= next /\ next \in Nat /\ next' \in Nat
      BY RegistryAssumption
         DEF RegistryAssumption, TabsInv, TabsShape, Release, Coord, Blocked, CoordIdle,
             FromName, NoNames, browserVars, rendererVars, Pair
  <2> QED BY <1>1, <2>1, <2>2, <2>3, OtherTab DEF TabsInv, TabsShape
<1>4. TabInv(t)'
  <2>0. \A c \in calls : c.tab = t => c.gen # cur'[t]
      BY CallFields, RegistryAssumption
         DEF RegistryAssumption, TabsInv, TabsShape, TabInv, GenInv, CoordAt, Release
  <2>1. GenInv(t)'
      BY <1>1, <2>0, CallFields, RegistryAssumption
         DEF RegistryAssumption, TabsInv, TabsShape, TabInv, CoordRecord, Tabs, CoordAt,
             GenInv, Blocked, Release, Coord, CoordIdle, FromName, NoNames, browserVars,
             rendererVars, Pair
  <2>2. EventInv(t)'
      BY <1>1, <2>0
         DEF TabsInv, TabsShape, TabInv, CoordRecord, Tabs, CoordAt, EventInv, CallOf,
             Release, Coord, Blocked, CoordIdle, FromName, NoNames, browserVars,
             rendererVars, Pair
  <2>3. CallNameInv(t)'
      BY <1>1, <2>0
         DEF TabsInv, TabsShape, TabInv, CoordRecord, Tabs, CoordAt, CallNameInv,
             CallOf, Release, Coord, Blocked, CoordIdle, FromName, NoNames, browserVars,
             rendererVars, Pair
  <2>4. ThenInv(t)'
      BY <1>1, <2>0
         DEF TabsInv, TabsShape, TabInv, CoordRecord, Tabs, CoordAt, ThenInv, GenInv,
             Release, Coord, Blocked, CoordIdle, FromName, NoNames, browserVars,
             rendererVars, Pair
  <2>5. NameInv(t)'
      BY <1>1, <2>0
         DEF TabsInv, TabsShape, TabInv, CoordRecord, Tabs, CoordAt, NameInv, Renaming,
             CallOf, ThenInv, Release, Coord, Blocked, CoordIdle, FromName, NoNames,
             browserVars, rendererVars, Pair
  <2> QED BY <2>1, <2>2, <2>3, <2>4, <2>5 DEF TabInv
<1> QED BY <1>1, <1>2, <1>3, <1>4 DEF TabsInv

(* restore_commit puts back the name the renderer still shows. *)
LEMMA RestoreCommitStep ==
  ASSUME TabsInv, NEW t \in Tabs, RestoreCommit(t)
  PROVE  TabsInv'
<1>1. TabsShape'
  <2>1. coord' \in [Tabs -> CoordRecord]
      BY CoordBuilt, PairTyped DEF TabsInv, TabsShape, CoordStates, RestoreCommit
  <2> QED
      BY <2>1, RegistryAssumption
         DEF RegistryAssumption, TabsInv, TabsShape, TabInv, GenInv, CoordAt, Pair,
             Name, FromName, CoordRecord, RestoreCommit, browserVars, rendererVars
<1>2. TaskInv' /\ NamesOpen' /\ SessionsOpen'
    BY <1>1
       DEF TabsInv, TabsShape, TaskInv, NamesOpen, SessionsOpen, Building, Closing,
           CoordAt, CoordRecord, TaskRecord, Tabs, RestoreCommit, CoordIdle, FromName,
           NoNames, browserVars, rendererVars, Pair
<1>3. ASSUME NEW u \in Tabs, u # t PROVE TabInv(u)'
  <2>1. /\ u \in tabs' => u \in tabs
        /\ u \in late => u \in late'
        /\ names'[u] = names[u]
        /\ coord'[u] = coord[u]
        /\ cur'[u] = cur[u] /\ born'[u] = born[u]
        /\ shown'[u] = shown[u] /\ events'[u] = events[u]
      BY <1>3
         DEF TabsInv, TabsShape, RestoreCommit, CoordIdle, FromName, NoNames,
             browserVars, rendererVars, Pair
  <2>2. \A c \in CallRecord : c.tab = u => (c \in calls' <=> c \in calls)
      BY <1>3
         DEF RestoreCommit, CoordIdle, FromName, NoNames, browserVars, rendererVars,
             Pair
  <2>3. next' >= next /\ next \in Nat /\ next' \in Nat
      BY RegistryAssumption
         DEF RegistryAssumption, TabsInv, TabsShape, RestoreCommit, CoordIdle, FromName,
             NoNames, browserVars, rendererVars, Pair
  <2> QED BY <1>1, <2>1, <2>2, <2>3, OtherTab DEF TabsInv, TabsShape
<1>4. TabInv(t)'
  <2>1. GenInv(t)'
      BY <1>1
         DEF TabsInv, TabsShape, TabInv, CoordRecord, Tabs, CoordAt, CallRecord, GenInv,
             Blocked, RestoreCommit, CoordIdle, FromName, NoNames, browserVars,
             rendererVars, Pair
  <2>2. EventInv(t)'
      BY <1>1
         DEF TabsInv, TabsShape, TabInv, CoordRecord, Tabs, CoordAt, CallRecord,
             EventInv, CallOf, RestoreCommit, CoordIdle, FromName, NoNames, browserVars,
             rendererVars, Pair
  <2>3. CallNameInv(t)'
      BY <1>1
         DEF TabsInv, TabsShape, TabInv, CoordRecord, Tabs, CoordAt, CallRecord,
             CallNameInv, CallOf, RestoreCommit, CoordIdle, FromName, NoNames,
             browserVars, rendererVars, Pair
  <2>4. ThenInv(t)'
      BY <1>1
         DEF TabsInv, TabsShape, TabInv, CoordRecord, Tabs, CoordAt, CallRecord,
             ThenInv, GenInv, RestoreCommit, CoordIdle, FromName, NoNames, browserVars,
             rendererVars, Pair
  <2>5. NameInv(t)'
      BY <1>1
         DEF TabsInv, TabsShape, TabInv, CoordRecord, Tabs, CoordAt, CallRecord,
             NameInv, Renaming, CallOf, ThenInv, RestoreCommit, CoordIdle, FromName,
             NoNames, browserVars, rendererVars, Pair
  <2> QED BY <2>1, <2>2, <2>3, <2>4, <2>5 DEF TabInv
<1> QED BY <1>1, <1>2, <1>3, <1>4 DEF TabsInv

(* An aborted coordinator belongs to a closed tab. *)
LEMMA AbortCoordinatorStep ==
  ASSUME TabsInv, NEW t \in Tabs, AbortCoordinator(t)
  PROVE  TabsInv'
<1>1. TabsShape'
  <2>1. coord' \in [Tabs -> CoordRecord]
      BY CoordTyped DEF TabsInv, TabsShape, CoordStates, AbortCoordinator, Coord
  <2> QED
      BY <2>1, RegistryAssumption
         DEF RegistryAssumption, TabsInv, TabsShape, TabInv, GenInv, CoordAt, Pair,
             Name, FromName, CoordRecord, AbortCoordinator, Coord, Blocked, browserVars,
             rendererVars
<1>2. TaskInv' /\ NamesOpen' /\ SessionsOpen'
    BY <1>1
       DEF TabsInv, TabsShape, TaskInv, NamesOpen, SessionsOpen, Building, Closing,
           CoordAt, CoordRecord, TaskRecord, Tabs, AbortCoordinator, Coord, Blocked,
           CoordIdle, FromName, NoNames, browserVars, rendererVars, Pair
<1>3. ASSUME NEW u \in Tabs, u # t PROVE TabInv(u)'
  <2>1. /\ u \in tabs' => u \in tabs
        /\ u \in late => u \in late'
        /\ names'[u] = names[u]
        /\ coord'[u] = coord[u]
        /\ cur'[u] = cur[u] /\ born'[u] = born[u]
        /\ shown'[u] = shown[u] /\ events'[u] = events[u]
      BY <1>3
         DEF TabsInv, TabsShape, AbortCoordinator, Coord, Blocked, CoordIdle, FromName,
             NoNames, browserVars, rendererVars, Pair
  <2>2. \A c \in CallRecord : c.tab = u => (c \in calls' <=> c \in calls)
      BY <1>3
         DEF AbortCoordinator, Coord, Blocked, CoordIdle, FromName, NoNames,
             browserVars, rendererVars, Pair
  <2>3. next' >= next /\ next \in Nat /\ next' \in Nat
      BY RegistryAssumption
         DEF RegistryAssumption, TabsInv, TabsShape, AbortCoordinator, Coord, Blocked,
             CoordIdle, FromName, NoNames, browserVars, rendererVars, Pair
  <2> QED BY <1>1, <2>1, <2>2, <2>3, OtherTab DEF TabsInv, TabsShape
<1>4. TabInv(t)'
  <2>0. \A c \in calls : c.tab = t => c.gen # cur'[t]
      BY CallFields, RegistryAssumption
         DEF RegistryAssumption, TabsInv, TabsShape, TabInv, GenInv, CoordAt,
             AbortCoordinator
  <2>1. GenInv(t)'
      BY <1>1, <2>0, CallFields, RegistryAssumption
         DEF RegistryAssumption, TabsInv, TabsShape, TabInv, CoordRecord, Tabs, CoordAt,
             GenInv, Blocked, AbortCoordinator, Coord, CoordIdle, FromName, NoNames,
             browserVars, rendererVars, Pair
  <2>2. EventInv(t)'
      BY <1>1, <2>0
         DEF TabsInv, TabsShape, TabInv, CoordRecord, Tabs, CoordAt, EventInv, CallOf,
             AbortCoordinator, Coord, Blocked, CoordIdle, FromName, NoNames,
             browserVars, rendererVars, Pair
  <2>3. CallNameInv(t)'
      BY <1>1, <2>0
         DEF TabsInv, TabsShape, TabInv, CoordRecord, Tabs, CoordAt, CallNameInv,
             CallOf, AbortCoordinator, Coord, Blocked, CoordIdle, FromName, NoNames,
             browserVars, rendererVars, Pair
  <2>4. ThenInv(t)'
      BY <1>1, <2>0
         DEF TabsInv, TabsShape, TabInv, CoordRecord, Tabs, CoordAt, ThenInv, GenInv,
             AbortCoordinator, Coord, Blocked, CoordIdle, FromName, NoNames,
             browserVars, rendererVars, Pair
  <2>5. NameInv(t)'
      BY <1>1, <2>0
         DEF TabsInv, TabsShape, TabInv, CoordRecord, Tabs, CoordAt, NameInv, Renaming,
             CallOf, ThenInv, AbortCoordinator, Coord, Blocked, CoordIdle, FromName,
             NoNames, browserVars, rendererVars, Pair
  <2> QED BY <2>1, <2>2, <2>3, <2>4, <2>5 DEF TabInv
<1> QED BY <1>1, <1>2, <1>3, <1>4 DEF TabsInv

(* The coordinator takes a Navigated event. *)
LEMMA ReadNameStep ==
  ASSUME TabsInv, NEW t \in Tabs, ReadName(t)
  PROVE  TabsInv'
<1>1. TabsShape'
  <2>1. coord' \in [Tabs -> CoordRecord]
    <3>1. Head(events[t]) \in Name /\ names[t].live \in Name
        BY PairTyped DEF TabsInv, TabsShape, ReadName
    <3>2. FromName(Head(events[t])) \in Pair /\ FromName(names[t].live) \in Pair
        BY <3>1, PairTyped
    <3>3. [CoordIdle EXCEPT !.at = "settle", !.prev = FromName(Head(events[t])),
                            !.inst = FromName(names[t].live)] \in CoordRecord
        BY <3>2, CoordBuilt
    <3> QED BY <3>3 DEF TabsInv, TabsShape, ReadName
  <2> QED
      BY <2>1, RegistryAssumption
         DEF RegistryAssumption, TabsInv, TabsShape, TabInv, GenInv, CoordAt, Pair,
             Name, FromName, CoordRecord, ReadName, browserVars, rendererVars
<1>2. TaskInv' /\ NamesOpen' /\ SessionsOpen'
    BY <1>1
       DEF TabsInv, TabsShape, TaskInv, NamesOpen, SessionsOpen, Building, Closing,
           CoordAt, CoordRecord, TaskRecord, Tabs, ReadName, CoordIdle, FromName,
           NoNames, browserVars, rendererVars, Pair
<1>3. ASSUME NEW u \in Tabs, u # t PROVE TabInv(u)'
  <2>1. /\ u \in tabs' => u \in tabs
        /\ u \in late => u \in late'
        /\ names'[u] = names[u]
        /\ coord'[u] = coord[u]
        /\ cur'[u] = cur[u] /\ born'[u] = born[u]
        /\ shown'[u] = shown[u] /\ events'[u] = events[u]
      BY <1>3
         DEF TabsInv, TabsShape, ReadName, CoordIdle, FromName, NoNames, browserVars,
             rendererVars, Pair
  <2>2. \A c \in CallRecord : c.tab = u => (c \in calls' <=> c \in calls)
      BY <1>3
         DEF ReadName, CoordIdle, FromName, NoNames, browserVars, rendererVars, Pair
  <2>3. next' >= next /\ next \in Nat /\ next' \in Nat
      BY RegistryAssumption
         DEF RegistryAssumption, TabsInv, TabsShape, ReadName, CoordIdle, FromName,
             NoNames, browserVars, rendererVars, Pair
  <2> QED BY <1>1, <2>1, <2>2, <2>3, OtherTab DEF TabsInv, TabsShape
<1>4. TabInv(t)'
  <2>1. GenInv(t)'
      BY <1>1
         DEF TabsInv, TabsShape, TabInv, CoordRecord, Tabs, CoordAt, CallRecord, GenInv,
             Blocked, ReadName, CoordIdle, FromName, NoNames, browserVars, rendererVars,
             Pair
  <2>2. EventInv(t)'
      BY <1>1
         DEF TabsInv, TabsShape, TabInv, CoordRecord, Tabs, CoordAt, CallRecord,
             EventInv, CallOf, ReadName, CoordIdle, FromName, NoNames, browserVars,
             rendererVars, Pair
  <2>3. CallNameInv(t)'
      BY <1>1
         DEF TabsInv, TabsShape, TabInv, CoordRecord, Tabs, CoordAt, CallRecord,
             CallNameInv, CallOf, ReadName, CoordIdle, FromName, NoNames, browserVars,
             rendererVars, Pair
  <2>4. ThenInv(t)'
      BY <1>1
         DEF TabsInv, TabsShape, TabInv, CoordRecord, Tabs, CoordAt, CallRecord,
             ThenInv, GenInv, ReadName, CoordIdle, FromName, NoNames, browserVars,
             rendererVars, Pair
  <2>5. NameInv(t)'
      BY <1>1
         DEF TabsInv, TabsShape, TabInv, CoordRecord, Tabs, CoordAt, CallRecord,
             NameInv, Renaming, CallOf, ThenInv, ReadName, CoordIdle, FromName, NoNames,
             browserVars, rendererVars, Pair
  <2> QED BY <2>1, <2>2, <2>3, <2>4, <2>5 DEF TabInv
<1> QED BY <1>1, <1>2, <1>3, <1>4 DEF TabsInv

(* Settling the name of the document leaves the live one alone. *)
LEMMA SettleDocumentNameStep ==
  ASSUME TabsInv, NEW t \in Tabs, SettleDocumentName(t)
  PROVE  TabsInv'
<1>1. TabsShape'
  <2>1. coord' \in [Tabs -> CoordRecord]
      BY CoordBuilt, PairTyped DEF TabsInv, TabsShape, CoordStates, SettleDocumentName
  <2> QED
    <3>1. coord[t].inst.document \in Name
        BY PairTyped DEF TabsInv, TabsShape, CoordRecord
    <3>2. [names[t] EXCEPT !.document = coord[t].inst.document] \in Pair
        BY <3>1 DEF TabsInv, TabsShape, Pair
    <3>3. names' \in [Tabs -> Pair]
        BY <3>2 DEF TabsInv, TabsShape, SettleDocumentName
    <3> QED BY <2>1, <3>3 DEF TabsInv, TabsShape, SettleDocumentName, browserVars, rendererVars
<1>2. TaskInv' /\ NamesOpen' /\ SessionsOpen'
    BY <1>1
       DEF TabsInv, TabsShape, TaskInv, NamesOpen, SessionsOpen, Building, Closing,
           CoordAt, CoordRecord, TaskRecord, Tabs, SettleDocumentName, CoordIdle,
           FromName, NoNames, browserVars, rendererVars, Pair
<1>3. ASSUME NEW u \in Tabs, u # t PROVE TabInv(u)'
  <2>1. /\ u \in tabs' => u \in tabs
        /\ u \in late => u \in late'
        /\ names'[u] = names[u]
        /\ coord'[u] = coord[u]
        /\ cur'[u] = cur[u] /\ born'[u] = born[u]
        /\ shown'[u] = shown[u] /\ events'[u] = events[u]
      BY <1>3
         DEF TabsInv, TabsShape, SettleDocumentName, CoordIdle, FromName, NoNames,
             browserVars, rendererVars, Pair
  <2>2. \A c \in CallRecord : c.tab = u => (c \in calls' <=> c \in calls)
      BY <1>3
         DEF SettleDocumentName, CoordIdle, FromName, NoNames, browserVars,
             rendererVars, Pair
  <2>3. next' >= next /\ next \in Nat /\ next' \in Nat
      BY RegistryAssumption
         DEF RegistryAssumption, TabsInv, TabsShape, SettleDocumentName, CoordIdle,
             FromName, NoNames, browserVars, rendererVars, Pair
  <2> QED BY <1>1, <2>1, <2>2, <2>3, OtherTab DEF TabsInv, TabsShape
<1>4. TabInv(t)'
  <2>1. GenInv(t)'
      BY <1>1
         DEF TabsInv, TabsShape, TabInv, CoordRecord, Tabs, CoordAt, CallRecord, GenInv,
             Blocked, SettleDocumentName, CoordIdle, FromName, NoNames, browserVars,
             rendererVars, Pair
  <2>2. EventInv(t)'
      BY <1>1
         DEF TabsInv, TabsShape, TabInv, CoordRecord, Tabs, CoordAt, CallRecord,
             EventInv, CallOf, SettleDocumentName, CoordIdle, FromName, NoNames,
             browserVars, rendererVars, Pair
  <2>3. CallNameInv(t)'
      BY <1>1
         DEF TabsInv, TabsShape, TabInv, CoordRecord, Tabs, CoordAt, CallRecord,
             CallNameInv, CallOf, SettleDocumentName, CoordIdle, FromName, NoNames,
             browserVars, rendererVars, Pair
  <2>4. ThenInv(t)'
      BY <1>1
         DEF TabsInv, TabsShape, TabInv, CoordRecord, Tabs, CoordAt, CallRecord,
             ThenInv, GenInv, SettleDocumentName, CoordIdle, FromName, NoNames,
             browserVars, rendererVars, Pair
  <2>5. NameInv(t)'
      BY <1>1
         DEF TabsInv, TabsShape, TabInv, CoordRecord, Tabs, CoordAt, CallRecord,
             NameInv, Renaming, CallOf, ThenInv, SettleDocumentName, CoordIdle,
             FromName, NoNames, browserVars, rendererVars, Pair
  <2> QED BY <2>1, <2>2, <2>3, <2>4, <2>5 DEF TabInv
<1> QED BY <1>1, <1>2, <1>3, <1>4 DEF TabsInv

(* A script sets window.name: the call carries what the document shows. *)
LEMMA AssignNameStep ==
  ASSUME TabsInv, NEW t \in Tabs, NEW n \in Name, AssignName(t, n)
  PROVE  TabsInv'
<1>1. TabsShape'
  <2>0. cur[t] \in 1..MaxGen
      BY RegistryAssumption
         DEF RegistryAssumption, TabsInv, TabsShape, AssignName, Running, Blocked, Call,
             browserVars
  <2>1. calls' \subseteq CallRecord
      BY <2>0, CallTyped
         DEF TabsInv, TabsShape, AssignName, Running, Blocked, Call, browserVars
  <2> QED
      BY <2>1, RegistryAssumption
         DEF RegistryAssumption, TabsInv, TabsShape, Name, AssignName, Running, Blocked,
             Call, browserVars
<1>2. TaskInv' /\ NamesOpen' /\ SessionsOpen'
    BY <1>1
       DEF TabsInv, TabsShape, TaskInv, NamesOpen, SessionsOpen, Building, Closing,
           CoordAt, CoordRecord, TaskRecord, Tabs, AssignName, Running, Blocked, Call,
           browserVars
<1>3. ASSUME NEW u \in Tabs, u # t PROVE TabInv(u)'
  <2>1. /\ u \in tabs' => u \in tabs
        /\ u \in late => u \in late'
        /\ names'[u] = names[u]
        /\ coord'[u] = coord[u]
        /\ cur'[u] = cur[u] /\ born'[u] = born[u]
        /\ shown'[u] = shown[u] /\ events'[u] = events[u]
      BY <1>3 DEF TabsInv, TabsShape, AssignName, Running, Blocked, Call, browserVars
  <2>2. \A c \in CallRecord : c.tab = u => (c \in calls' <=> c \in calls)
      BY <1>3 DEF AssignName, Running, Blocked, Call, browserVars
  <2>3. next' >= next /\ next \in Nat /\ next' \in Nat
      BY RegistryAssumption
         DEF RegistryAssumption, TabsInv, TabsShape, AssignName, Running, Blocked, Call,
             browserVars
  <2> QED BY <1>1, <2>1, <2>2, <2>3, OtherTab DEF TabsInv, TabsShape
<1>4. TabInv(t)'
  <2>1. GenInv(t)'
      BY <1>1
         DEF TabsInv, TabsShape, TabInv, CoordRecord, Tabs, CoordAt, CallRecord, GenInv,
             Blocked, AssignName, Running, Call, browserVars
  <2>2. EventInv(t)'
      BY <1>1
         DEF TabsInv, TabsShape, TabInv, CoordRecord, Tabs, CoordAt, CallRecord,
             EventInv, CallOf, AssignName, Running, Blocked, Call, browserVars
  <2>3. CallNameInv(t)'
      BY <1>1
         DEF TabsInv, TabsShape, TabInv, CoordRecord, Tabs, CoordAt, CallRecord,
             CallNameInv, CallOf, AssignName, Running, Blocked, Call, browserVars
  <2>4. ThenInv(t)'
      BY <1>1
         DEF TabsInv, TabsShape, TabInv, CoordRecord, Tabs, CoordAt, CallRecord,
             ThenInv, GenInv, AssignName, Running, Blocked, Call, browserVars
  <2>5. NameInv(t)'
      BY <1>1
         DEF TabsInv, TabsShape, TabInv, CoordRecord, Tabs, CoordAt, CallRecord,
             NameInv, Renaming, CallOf, ThenInv, AssignName, Running, Blocked, Call,
             browserVars
  <2> QED BY <2>1, <2>2, <2>3, <2>4, <2>5 DEF TabInv
<1> QED BY <1>1, <1>2, <1>3, <1>4 DEF TabsInv

(* A navigation in the renderer, within its origin: the name stays. *)
LEMMA NavigateWithinStep ==
  ASSUME TabsInv, NEW t \in Tabs, NavigateSelf(t, FALSE)
  PROVE  TabsInv'
<1>1. TabsShape'
  <2>0. cur[t] \in 1..MaxGen
      BY RegistryAssumption
         DEF RegistryAssumption, TabsInv, TabsShape, NavigateSelf, Running, Blocked,
             Call, browserVars
  <2>1. calls' \subseteq CallRecord
      BY <2>0, CallTyped
         DEF TabsInv, TabsShape, NavigateSelf, Running, Blocked, Call, browserVars
  <2> QED
    <3>1. events' = [events EXCEPT ![t] = Append(events[t], shown[t])]
        BY DEF NavigateSelf
    <3>2. Append(events[t], shown[t]) \in Seq(Name)
        BY DEF TabsInv, TabsShape
    <3>3. events' \in [Tabs -> Seq(Name)]
        BY <3>1, <3>2 DEF TabsInv, TabsShape
    <3> QED BY <2>1, <3>3 DEF TabsInv, TabsShape, NavigateSelf, browserVars
<1>2. TaskInv' /\ NamesOpen' /\ SessionsOpen'
    BY <1>1
       DEF TabsInv, TabsShape, TaskInv, NamesOpen, SessionsOpen, Building, Closing,
           CoordAt, CoordRecord, TaskRecord, Tabs, NavigateSelf, Running, Blocked, Call,
           browserVars
<1>3. ASSUME NEW u \in Tabs, u # t PROVE TabInv(u)'
  <2>1. /\ u \in tabs' => u \in tabs
        /\ u \in late => u \in late'
        /\ names'[u] = names[u]
        /\ coord'[u] = coord[u]
        /\ cur'[u] = cur[u] /\ born'[u] = born[u]
        /\ shown'[u] = shown[u] /\ events'[u] = events[u]
      BY <1>3 DEF TabsInv, TabsShape, NavigateSelf, Running, Blocked, Call, browserVars
  <2>2. \A c \in CallRecord : c.tab = u => (c \in calls' <=> c \in calls)
      BY <1>3 DEF NavigateSelf, Running, Blocked, Call, browserVars
  <2>3. next' >= next /\ next \in Nat /\ next' \in Nat
      BY RegistryAssumption
         DEF RegistryAssumption, TabsInv, TabsShape, NavigateSelf, Running, Blocked,
             Call, browserVars
  <2> QED BY <1>1, <2>1, <2>2, <2>3, OtherTab DEF TabsInv, TabsShape
<1>4. TabInv(t)'
  <2>1. GenInv(t)'
      BY <1>1
         DEF TabsInv, TabsShape, TabInv, CoordRecord, Tabs, CoordAt, CallRecord, GenInv,
             Blocked, NavigateSelf, Running, Call, browserVars
  <2>2. EventInv(t)'
    <3>1. events[t] = <<>> /\ events'[t] = Append(events[t], shown[t])
        BY DEF TabsInv, TabsShape, NavigateSelf
    <3>2. Len(events'[t]) = 1
        BY <3>1 DEF TabsInv, TabsShape
    <3>3. \A c \in calls' : ~ CallOf(t, c)'
        BY DEF NavigateSelf, Running, Blocked, CallOf
    <3> QED BY <3>2, <3>3 DEF EventInv
  <2>3. CallNameInv(t)'
      BY <1>1
         DEF TabsInv, TabsShape, TabInv, CoordRecord, Tabs, CoordAt, CallRecord,
             CallNameInv, CallOf, NavigateSelf, Running, Blocked, Call, browserVars
  <2>4. ThenInv(t)'
      BY <1>1
         DEF TabsInv, TabsShape, TabInv, CoordRecord, Tabs, CoordAt, CallRecord,
             ThenInv, GenInv, NavigateSelf, Running, Blocked, Call, browserVars
  <2>5. NameInv(t)'
      BY <1>1
         DEF TabsInv, TabsShape, TabInv, CoordRecord, Tabs, CoordAt, CallRecord,
             NameInv, Renaming, CallOf, ThenInv, NavigateSelf, Running, Blocked, Call,
             browserVars
  <2> QED BY <2>1, <2>2, <2>3, <2>4, <2>5 DEF TabInv
<1> QED BY <1>1, <1>2, <1>3, <1>4 DEF TabsInv

(* Across origins the name is reset, by a call that carries the old one. *)
LEMMA NavigateAcrossStep ==
  ASSUME TabsInv, NEW t \in Tabs, NavigateSelf(t, TRUE)
  PROVE  TabsInv'
<1>1. TabsShape'
  <2>0. cur[t] \in 1..MaxGen
      BY RegistryAssumption
         DEF RegistryAssumption, TabsInv, TabsShape, NavigateSelf, Running, Blocked,
             Call, browserVars
  <2>1. calls' \subseteq CallRecord
    <3>1. shown[t] \in Name
        BY DEF TabsInv, TabsShape
    <3>2. [tab |-> t, gen |-> cur[t], what |-> "reset", arg |-> shown[t]] \in CallRecord
        BY <2>0, <3>1, CallTyped
    <3> QED BY <3>2 DEF TabsInv, TabsShape, NavigateSelf, Call
  <2> QED
      BY <2>1, RegistryAssumption
         DEF RegistryAssumption, TabsInv, TabsShape, Name, NavigateSelf, Running,
             Blocked, Call, browserVars
<1>2. TaskInv' /\ NamesOpen' /\ SessionsOpen'
    BY <1>1
       DEF TabsInv, TabsShape, TaskInv, NamesOpen, SessionsOpen, Building, Closing,
           CoordAt, CoordRecord, TaskRecord, Tabs, NavigateSelf, Running, Blocked, Call,
           browserVars
<1>3. ASSUME NEW u \in Tabs, u # t PROVE TabInv(u)'
  <2>1. /\ u \in tabs' => u \in tabs
        /\ u \in late => u \in late'
        /\ names'[u] = names[u]
        /\ coord'[u] = coord[u]
        /\ cur'[u] = cur[u] /\ born'[u] = born[u]
        /\ shown'[u] = shown[u] /\ events'[u] = events[u]
      BY <1>3 DEF TabsInv, TabsShape, NavigateSelf, Running, Blocked, Call, browserVars
  <2>2. \A c \in CallRecord : c.tab = u => (c \in calls' <=> c \in calls)
      BY <1>3 DEF NavigateSelf, Running, Blocked, Call, browserVars
  <2>3. next' >= next /\ next \in Nat /\ next' \in Nat
      BY RegistryAssumption
         DEF RegistryAssumption, TabsInv, TabsShape, NavigateSelf, Running, Blocked,
             Call, browserVars
  <2> QED BY <1>1, <2>1, <2>2, <2>3, OtherTab DEF TabsInv, TabsShape
<1>4. TabInv(t)'
  <2>1. GenInv(t)'
      BY <1>1
         DEF TabsInv, TabsShape, TabInv, CoordRecord, Tabs, CoordAt, CallRecord, GenInv,
             Blocked, NavigateSelf, Running, Call, browserVars
  <2>2. EventInv(t)'
      BY <1>1
         DEF TabsInv, TabsShape, TabInv, CoordRecord, Tabs, CoordAt, CallRecord,
             EventInv, CallOf, NavigateSelf, Running, Blocked, Call, browserVars
  <2>3. CallNameInv(t)'
      BY <1>1
         DEF TabsInv, TabsShape, TabInv, CoordRecord, Tabs, CoordAt, CallRecord,
             CallNameInv, CallOf, NavigateSelf, Running, Blocked, Call, browserVars
  <2>4. ThenInv(t)'
      BY <1>1
         DEF TabsInv, TabsShape, TabInv, CoordRecord, Tabs, CoordAt, CallRecord,
             ThenInv, GenInv, NavigateSelf, Running, Blocked, Call, browserVars
  <2>5. NameInv(t)'
    <3>1. Renaming(t)'
        <4>1. [tab |-> t, gen |-> cur[t], what |-> "reset", arg |-> shown[t]] \in calls'
            BY DEF NavigateSelf, Call
        <4>2. cur'[t] = cur[t]
            BY DEF NavigateSelf
        <4> QED BY <4>1, <4>2 DEF Renaming, CallOf
    <3> QED BY <3>1 DEF TabsInv, TabInv, NameInv, NavigateSelf, browserVars
  <2> QED BY <2>1, <2>2, <2>3, <2>4, <2>5 DEF TabInv
<1> QED BY <1>1, <1>2, <1>3, <1>4 DEF TabsInv

(* A call for a new frame renames nothing. *)
LEMMA CreateFrameStep ==
  ASSUME TabsInv, NEW t \in Tabs, NEW f \in Frames, CreateFrame(t, f)
  PROVE  TabsInv'
<1>1. TabsShape'
  <2>0. cur[t] \in 1..MaxGen
      BY RegistryAssumption
         DEF RegistryAssumption, TabsInv, TabsShape, CreateFrame, Running, Blocked,
             Call, browserVars
  <2>1. calls' \subseteq CallRecord
      BY <2>0, CallTyped
         DEF TabsInv, TabsShape, CreateFrame, Running, Blocked, Call, browserVars
  <2> QED
      BY <2>1, RegistryAssumption
         DEF RegistryAssumption, TabsInv, TabsShape, Name, CreateFrame, Running,
             Blocked, Call, browserVars
<1>2. TaskInv' /\ NamesOpen' /\ SessionsOpen'
    BY <1>1
       DEF TabsInv, TabsShape, TaskInv, NamesOpen, SessionsOpen, Building, Closing,
           CoordAt, CoordRecord, TaskRecord, Tabs, CreateFrame, Running, Blocked, Call,
           browserVars
<1>3. ASSUME NEW u \in Tabs, u # t PROVE TabInv(u)'
  <2>1. /\ u \in tabs' => u \in tabs
        /\ u \in late => u \in late'
        /\ names'[u] = names[u]
        /\ coord'[u] = coord[u]
        /\ cur'[u] = cur[u] /\ born'[u] = born[u]
        /\ shown'[u] = shown[u] /\ events'[u] = events[u]
      BY <1>3 DEF TabsInv, TabsShape, CreateFrame, Running, Blocked, Call, browserVars
  <2>2. \A c \in CallRecord : c.tab = u => (c \in calls' <=> c \in calls)
      BY <1>3 DEF CreateFrame, Running, Blocked, Call, browserVars
  <2>3. next' >= next /\ next \in Nat /\ next' \in Nat
      BY RegistryAssumption
         DEF RegistryAssumption, TabsInv, TabsShape, CreateFrame, Running, Blocked,
             Call, browserVars
  <2> QED BY <1>1, <2>1, <2>2, <2>3, OtherTab DEF TabsInv, TabsShape
<1>4. TabInv(t)'
  <2>1. GenInv(t)'
      BY <1>1
         DEF TabsInv, TabsShape, TabInv, CoordRecord, Tabs, CoordAt, CallRecord, GenInv,
             Blocked, CreateFrame, Running, Call, browserVars
  <2>2. EventInv(t)'
      BY <1>1
         DEF TabsInv, TabsShape, TabInv, CoordRecord, Tabs, CoordAt, CallRecord,
             EventInv, CallOf, CreateFrame, Running, Blocked, Call, browserVars
  <2>3. CallNameInv(t)'
      BY <1>1
         DEF TabsInv, TabsShape, TabInv, CoordRecord, Tabs, CoordAt, CallRecord,
             CallNameInv, CallOf, CreateFrame, Running, Blocked, Call, browserVars
  <2>4. ThenInv(t)'
      BY <1>1
         DEF TabsInv, TabsShape, TabInv, CoordRecord, Tabs, CoordAt, CallRecord,
             ThenInv, GenInv, CreateFrame, Running, Blocked, Call, browserVars
  <2>5. NameInv(t)'
      BY <1>1
         DEF TabsInv, TabsShape, TabInv, CoordRecord, Tabs, CoordAt, CallRecord,
             NameInv, Renaming, CallOf, ThenInv, CreateFrame, Running, Blocked, Call,
             browserVars
  <2> QED BY <2>1, <2>2, <2>3, <2>4, <2>5 DEF TabInv
<1> QED BY <1>1, <1>2, <1>3, <1>4 DEF TabsInv

(* Nor does the call that ends one. *)
LEMMA DestroyFrameStep ==
  ASSUME TabsInv, NEW t \in Tabs, NEW f \in Frames, DestroyFrame(t, f)
  PROVE  TabsInv'
<1>1. TabsShape'
  <2>0. cur[t] \in 1..MaxGen
      BY RegistryAssumption
         DEF RegistryAssumption, TabsInv, TabsShape, DestroyFrame, Running, Blocked,
             Call, browserVars
  <2>1. calls' \subseteq CallRecord
      BY <2>0, CallTyped
         DEF TabsInv, TabsShape, DestroyFrame, Running, Blocked, Call, browserVars
  <2> QED
      BY <2>1, RegistryAssumption
         DEF RegistryAssumption, TabsInv, TabsShape, Name, DestroyFrame, Running,
             Blocked, Call, browserVars
<1>2. TaskInv' /\ NamesOpen' /\ SessionsOpen'
    BY <1>1
       DEF TabsInv, TabsShape, TaskInv, NamesOpen, SessionsOpen, Building, Closing,
           CoordAt, CoordRecord, TaskRecord, Tabs, DestroyFrame, Running, Blocked, Call,
           browserVars
<1>3. ASSUME NEW u \in Tabs, u # t PROVE TabInv(u)'
  <2>1. /\ u \in tabs' => u \in tabs
        /\ u \in late => u \in late'
        /\ names'[u] = names[u]
        /\ coord'[u] = coord[u]
        /\ cur'[u] = cur[u] /\ born'[u] = born[u]
        /\ shown'[u] = shown[u] /\ events'[u] = events[u]
      BY <1>3 DEF TabsInv, TabsShape, DestroyFrame, Running, Blocked, Call, browserVars
  <2>2. \A c \in CallRecord : c.tab = u => (c \in calls' <=> c \in calls)
      BY <1>3 DEF DestroyFrame, Running, Blocked, Call, browserVars
  <2>3. next' >= next /\ next \in Nat /\ next' \in Nat
      BY RegistryAssumption
         DEF RegistryAssumption, TabsInv, TabsShape, DestroyFrame, Running, Blocked,
             Call, browserVars
  <2> QED BY <1>1, <2>1, <2>2, <2>3, OtherTab DEF TabsInv, TabsShape
<1>4. TabInv(t)'
  <2>1. GenInv(t)'
      BY <1>1
         DEF TabsInv, TabsShape, TabInv, CoordRecord, Tabs, CoordAt, CallRecord, GenInv,
             Blocked, DestroyFrame, Running, Call, browserVars
  <2>2. EventInv(t)'
      BY <1>1
         DEF TabsInv, TabsShape, TabInv, CoordRecord, Tabs, CoordAt, CallRecord,
             EventInv, CallOf, DestroyFrame, Running, Blocked, Call, browserVars
  <2>3. CallNameInv(t)'
      BY <1>1
         DEF TabsInv, TabsShape, TabInv, CoordRecord, Tabs, CoordAt, CallRecord,
             CallNameInv, CallOf, DestroyFrame, Running, Blocked, Call, browserVars
  <2>4. ThenInv(t)'
      BY <1>1
         DEF TabsInv, TabsShape, TabInv, CoordRecord, Tabs, CoordAt, CallRecord,
             ThenInv, GenInv, DestroyFrame, Running, Blocked, Call, browserVars
  <2>5. NameInv(t)'
      BY <1>1
         DEF TabsInv, TabsShape, TabInv, CoordRecord, Tabs, CoordAt, CallRecord,
             NameInv, Renaming, CallOf, ThenInv, DestroyFrame, Running, Blocked, Call,
             browserVars
  <2> QED BY <2>1, <2>2, <2>3, <2>4, <2>5 DEF TabInv
<1> QED BY <1>1, <1>2, <1>3, <1>4 DEF TabsInv

-----------------------------------------------------------------------------
(* The steps of the browser task: each looks at one tab, and only opening   *)
(* and closing it bears on its name.                                        *)
LEMMA BrowserShape ==
  ASSUME TabsInv, BrowserStep
  PROVE  /\ TabsShape'
         /\ next' >= next /\ next \in Nat /\ next' \in Nat
<1> USE RegistryAssumption DEF RegistryAssumption
<1>1. next \in Nat /\ MaxTab \in Nat /\ 0 \in 0..MaxTab /\ 0 \in 0..MaxGen
    BY DEF TabsInv, TabsShape
<1>2. ASSUME NEW n \in Name, NEW o \in 0..MaxTab, CreateTab(n, o) PROVE TabsShape' /\ next' >= next
  <2>1. next \in Tabs /\ next' = next + 1 /\ next' \in 1..(MaxTab + 1)
      BY <1>1, <1>2 DEF TabsInv, TabsShape, CreateTab, Tabs
  <2>2. task' \in TaskRecord
      BY <1>1, <1>2, <2>1 DEF CreateTab, TaskRecord, Tabs
  <2>3. names' \in [Tabs -> Pair]
      BY <1>2, <2>1, PairTyped DEF TabsInv, TabsShape, CreateTab
  <2>4. tabs' \subseteq 1..(next' - 1)
      BY <1>1, <1>2, <2>1 DEF TabsInv, TabsShape, CreateTab
  <2> QED BY <1>1, <1>2, <2>1, <2>2, <2>3, <2>4 DEF TabsInv, TabsShape, CreateTab, rendererVars
<1>3. CASE SetOpener
  <2>1. task' \in TaskRecord /\ openers' \in [Tabs -> 0..MaxTab]
      BY <1>3 DEF TabsInv, TabsShape, SetOpener, TaskRecord
  <2> QED BY <1>1, <1>3, <2>1 DEF TabsInv, TabsShape, SetOpener, rendererVars
<1>4. CASE InsertTab
  <2>1. task.tab \in 1..(next - 1) /\ task.tab \in Tabs
      BY <1>1, <1>4 DEF TabsInv, TabsShape, TaskInv, InsertTab, Tabs
  <2>2. coord' \in [Tabs -> CoordRecord]
      BY <1>4, CoordBuilt DEF TabsInv, TabsShape, InsertTab
  <2>3. task' \in TaskRecord
      BY <1>1, <1>4 DEF InsertTab, TaskIdle, TaskRecord
  <2>4. tabs' \subseteq 1..(next' - 1) /\ sessions' \subseteq Tabs
      BY <1>4, <2>1 DEF TabsInv, TabsShape, InsertTab
  <2> QED BY <1>1, <1>4, <2>2, <2>3, <2>4 DEF TabsInv, TabsShape, InsertTab, rendererVars
<1>5. ASSUME NEW t \in Tabs, RemoveTab(t) PROVE TabsShape' /\ next' >= next
  <2>1. task' \in TaskRecord
      BY <1>1, <1>5 DEF RemoveTab, TaskRecord, Tabs
  <2>2. names' \in [Tabs -> Pair]
      BY <1>5, PairTyped DEF TabsInv, TabsShape, RemoveTab
  <2> QED BY <1>1, <1>5, <2>1, <2>2 DEF TabsInv, TabsShape, RemoveTab, rendererVars
<1>6. CASE RemoveOpener
  <2>1. task' \in TaskRecord
      BY <1>6 DEF TabsInv, TabsShape, RemoveOpener, TaskRecord
  <2>2. openers' \in [Tabs -> 0..MaxTab]
      BY <1>1, <1>6 DEF TabsInv, TabsShape, RemoveOpener
  <2> QED BY <1>1, <1>6, <2>1, <2>2 DEF TabsInv, TabsShape, RemoveOpener, rendererVars
<1>7. CASE ForgetTab
  <2>1. task' \in TaskRecord
      BY <1>1, <1>7 DEF ForgetTab, TaskIdle, TaskRecord
  <2>2. NoFrames \in [Frames -> 0..MaxGen]
      BY <1>1 DEF NoFrames
  <2>3. records' \in [Tabs -> [Frames -> 0..MaxGen]]
      BY <1>7, <2>2 DEF TabsInv, TabsShape, ForgetTab
  <2> QED BY <1>1, <1>7, <2>1, <2>3 DEF TabsInv, TabsShape, ForgetTab, rendererVars
<1>8. TabsShape' /\ next' >= next
    BY <1>2, <1>3, <1>4, <1>5, <1>6, <1>7 DEF BrowserStep
<1>9. next' \in 1..(MaxTab + 1)
    BY <1>8 DEF TabsShape
<1> QED BY <1>1, <1>8, <1>9

LEMMA BrowserTables ==
  ASSUME TabsInv, BrowserStep, TabsShape'
  PROVE  TaskInv' /\ NamesOpen' /\ SessionsOpen'
<1> USE DEF TaskInv, NamesOpen, SessionsOpen, Building, Closing, CoordAt
<1>1. ASSUME NEW n \in Name, NEW o \in 0..MaxTab, CreateTab(n, o)
      PROVE  TaskInv' /\ NamesOpen' /\ SessionsOpen'
  <2>1. next \in Tabs /\ next \in 1..(next' - 1)
      BY <1>1, RegistryAssumption DEF RegistryAssumption, TabsInv, TabsShape, CreateTab, Tabs
  <2>2. CoordAt(next, "unborn")
      BY <2>1 DEF TabsInv, TabInv, GenInv, Tabs
  <2> QED BY <1>1, <2>1, <2>2 DEF TabsInv, TabsShape, CreateTab, TaskIdle
<1>2. CASE SetOpener
    BY <1>2 DEF TabsInv, TabsShape, SetOpener, TaskRecord
<1>3. CASE InsertTab
    BY <1>3 DEF TabsInv, TabsShape, InsertTab, TaskIdle
<1>4. ASSUME NEW t \in Tabs, RemoveTab(t) PROVE TaskInv' /\ NamesOpen' /\ SessionsOpen'
    BY <1>4 DEF TabsInv, TabsShape, RemoveTab, TaskIdle
<1>5. CASE RemoveOpener
    BY <1>5 DEF TabsInv, TabsShape, RemoveOpener, TaskRecord
<1>6. CASE ForgetTab
    BY <1>6 DEF TabsInv, TabsShape, ForgetTab, TaskIdle
<1> QED BY <1>1, <1>2, <1>3, <1>4, <1>5, <1>6 DEF BrowserStep

(* A tab without a coordinator and without a renderer: its name is free. *)
LEMMA UnbornTab ==
  ASSUME NEW u \in Tabs, TabInv(u), next' >= next, next \in Nat, next' \in Nat,
         CoordAt(u, "unborn"), u < next',
         coord'[u] = coord[u] \/ coord'[u] = CoordIdle,
         UNCHANGED rendererVars
  PROVE  TabInv(u)'
<1>1. cur[u] = 0 /\ cur'[u] = 0
    BY DEF TabInv, GenInv, rendererVars
<1>2. CoordAt(u, "unborn")' \/ CoordAt(u, "idle")'
    BY DEF CoordAt, CoordIdle
<1>3. coord'[u].then = "none"
    BY DEF TabInv, ThenInv, CoordAt, CoordIdle
<1>4. GenInv(u)'
    BY <1>1, <1>2 DEF TabInv, GenInv, CoordAt, Tabs, rendererVars
<1>5. EventInv(u)' /\ CallNameInv(u)'
    BY DEF TabInv, EventInv, CallNameInv, CallOf, rendererVars
<1>6. ThenInv(u)' /\ NameInv(u)'
    BY <1>1, <1>2, <1>3 DEF ThenInv, NameInv, CoordAt
<1> QED BY <1>4, <1>5, <1>6 DEF TabInv

LEMMA BrowserTabs ==
  ASSUME TabsInv, BrowserStep, TabsShape', next' >= next, next \in Nat, next' \in Nat,
         NEW u \in Tabs
  PROVE  TabInv(u)'
<1>1. TabInv(u)
    BY DEF TabsInv
<1>2. \A c \in CallRecord : c.tab = u => (c \in calls' <=> c \in calls)
    BY DEF BrowserStep, CreateTab, SetOpener, InsertTab, RemoveTab, RemoveOpener, ForgetTab,
           rendererVars
<1> DEFINE Same == /\ u \in tabs' => u \in tabs
                   /\ u \in late => u \in late'
                   /\ names'[u] = names[u] /\ coord'[u] = coord[u]
                   /\ cur'[u] = cur[u] /\ born'[u] = born[u]
                   /\ shown'[u] = shown[u] /\ events'[u] = events[u]
<1>3. CASE Same
    BY <1>1, <1>2, <1>3, OtherTab DEF TabsInv, TabsShape
<1>4. ASSUME NEW n \in Name, NEW o \in 0..MaxTab, CreateTab(n, o) PROVE TabInv(u)'
  <2>1. CASE u = next
    <3>1. CoordAt(u, "unborn") /\ u < next' /\ coord' = coord /\ UNCHANGED rendererVars
        BY <1>1, <1>4, <2>1 DEF TabInv, GenInv, CreateTab
    <3> QED BY <1>1, <3>1, UnbornTab
  <2>2. CASE u # next
    <3>1. Same
        BY <1>4, <2>2 DEF TabsInv, TabsShape, CreateTab, rendererVars
    <3> QED BY <1>3, <3>1
  <2> QED BY <2>1, <2>2
<1>5. CASE InsertTab
  <2>1. CASE u = task.tab
    <3>1. CoordAt(u, "unborn") /\ u < next' /\ coord'[u] = CoordIdle /\ UNCHANGED rendererVars
        BY <1>5, <2>1 DEF TabsInv, TabsShape, TaskInv, InsertTab
    <3> QED BY <1>1, <3>1, UnbornTab
  <2>2. CASE u # task.tab
    <3>1. Same
        BY <1>5, <2>2 DEF TabsInv, TabsShape, InsertTab, rendererVars
    <3> QED BY <1>3, <3>1
  <2> QED BY <2>1, <2>2
<1>6. ASSUME NEW t \in Tabs, RemoveTab(t) PROVE TabInv(u)'
  <2>1. CASE u = t
    <3>1. /\ u \notin tabs' /\ UNCHANGED <<coord, next>> /\ UNCHANGED rendererVars
        BY <1>6, <2>1 DEF RemoveTab
    <3> QED BY <1>1, <3>1
            DEF TabInv, GenInv, EventInv, CallNameInv, ThenInv, NameInv, CallOf, CoordAt, Blocked,
                rendererVars
  <2>2. CASE u # t
    <3>1. Same
        BY <1>6, <2>2 DEF TabsInv, TabsShape, RemoveTab, rendererVars
    <3> QED BY <1>3, <3>1
  <2> QED BY <2>1, <2>2
<1>7. CASE SetOpener \/ RemoveOpener \/ ForgetTab
  <2>1. Same
      BY <1>7 DEF SetOpener, RemoveOpener, ForgetTab, rendererVars
  <2> QED BY <1>3, <2>1
<1> QED BY <1>4, <1>5, <1>6, <1>7 DEF BrowserStep

LEMMA BrowserKeeps ==
  ASSUME TabsInv, BrowserStep
  PROVE  TabsInv'
BY BrowserShape, BrowserTables, BrowserTabs DEF TabsInv

-----------------------------------------------------------------------------
(* A service task serves a call: of the renderer in place, or of one whose  *)
(* document has been left.                                                  *)
LEMMA ServeShape ==
  ASSUME TabsInv, NEW c \in calls, Serve(c)
  PROVE  TabsShape'
<1>1. c \in CallRecord
    BY DEF TabsInv, TabsShape
<1>2. c.tab \in Tabs /\ c.gen \in 0..MaxGen
    BY <1>1, CallFields, RegistryAssumption DEF RegistryAssumption
<1>3. names' \in [Tabs -> Pair]
  <2>1. CASE c.what = "assign"
    <3>1. FromName(c.arg) \in Pair
        BY <1>1, <2>1, CallFields, PairTyped
    <3> QED BY <1>2, <2>1, <3>1 DEF TabsInv, TabsShape, Serve, Rename
  <2>2. CASE c.what = "reset"
    <3>1. [names[c.tab] EXCEPT !.live = NoWindowName] \in Pair
        BY <1>2 DEF TabsInv, TabsShape, Pair, Name
    <3> QED BY <1>2, <2>2, <3>1 DEF TabsInv, TabsShape, Serve, Rename
  <2> QED BY <2>1, <2>2 DEF TabsInv, TabsShape, Serve
<1>4. records' \in [Tabs -> [Frames -> 0..MaxGen]]
  <2>1. CASE c.what \in {"frame", "destroy"}
    <3>1. c.arg \in Frames
        BY <1>1, <2>1, CallFields
    <3>2. 0 \in 0..MaxGen
        BY RegistryAssumption DEF RegistryAssumption
    <3>3. ASSUME NEW g \in 0..MaxGen
          PROVE  [records EXCEPT ![c.tab][c.arg] = g] \in [Tabs -> [Frames -> 0..MaxGen]]
        BY <1>2, <3>1 DEF TabsInv, TabsShape
    <3>4. records \in [Tabs -> [Frames -> 0..MaxGen]]
        BY DEF TabsInv, TabsShape
    <3> QED BY <1>2, <2>1, <3>2, <3>3, <3>4 DEF Serve, RegisterFrame
  <2> QED BY <2>1 DEF TabsInv, TabsShape, Serve
<1>5. events' \in [Tabs -> Seq(Name)]
  <2>1. CASE c.what = "reset"
    <3>1. c.arg \in Name
        BY <1>1, <2>1, CallFields
    <3>2. Append(events[c.tab], c.arg) \in Seq(Name)
        BY <1>2, <3>1 DEF TabsInv, TabsShape
    <3> QED BY <1>2, <2>1, <3>2 DEF TabsInv, TabsShape, Serve
  <2> QED BY <2>1 DEF TabsInv, TabsShape, Serve
<1>6. /\ calls' \subseteq calls
      /\ UNCHANGED <<browserVars, coord, cur, born, shown>>
    BY DEF Serve
<1> QED BY <1>3, <1>4, <1>5, <1>6 DEF TabsInv, TabsShape, browserVars

LEMMA ServeTab ==
  ASSUME TabsInv, NEW c \in calls, Serve(c), TabsShape', NEW t \in Tabs, t = c.tab
  PROVE  TabInv(t)'
<1>1. /\ TabInv(t) /\ c \in CallRecord
      /\ calls' = calls \ {c}
      /\ next' = next /\ tabs' = tabs
      /\ coord' = coord /\ cur' = cur /\ born' = born /\ shown' = shown
    BY DEF TabsInv, TabsShape, Serve, browserVars
<1>2. GenInv(t)'
    BY <1>1 DEF TabInv, GenInv, CoordAt, Blocked
<1>3. CallNameInv(t)' /\ ThenInv(t)'
    BY <1>1 DEF TabInv, CallNameInv, ThenInv, CallOf, CoordAt
<1>4. ASSUME c.gen = cur[t] PROVE \A d \in calls' : ~ CallOf(t, d)'
    BY <1>1, <1>4 DEF TabInv, GenInv, CallOf
<1>5. ASSUME c.gen # cur[t] PROVE \A d \in calls : CallOf(t, d) => d \in calls' /\ CallOf(t, d)'
    BY <1>1, <1>5 DEF CallOf
<1>6. EventInv(t)'
  <2>1. CASE c.what = "reset" /\ c.gen = cur[t]
    <3>1. events[t] = <<>> /\ c.arg \in Name
        BY <1>1, <2>1, CallFields DEF TabInv, EventInv, CallOf
    <3>2. events'[t] = Append(events[t], c.arg)
        BY <2>1 DEF TabsInv, TabsShape, Serve
    <3>3. Len(events'[t]) = 1
        BY <3>1, <3>2 DEF TabsInv, TabsShape
    <3> QED BY <1>4, <2>1, <3>3 DEF EventInv
  <2>2. CASE ~ (c.what = "reset" /\ c.gen = cur[t])
    <3>1. events' = events
        BY <2>2 DEF Serve
    <3> QED BY <1>1, <3>1 DEF TabInv, EventInv, CallOf
  <2> QED BY <2>1, <2>2
<1>7. NameInv(t)'
  <2>1. CASE c.what \in {"assign", "reset"} /\ t \in tabs
    <3>1. CASE Left(c)
      <4>1. t \in late'
          BY <2>1, <3>1 DEF Serve, Rename, Renamed
      <4> QED BY <4>1 DEF NameInv
    <3>2. CASE ~ Left(c)
      <4>1. CallOf(t, c) /\ coord[t].at \notin {"mount", "attach", "fresh", "release", "restore"}
          BY <3>2 DEF Left, CallOf
      <4>2. names'[t].live = shown[t]
        <5>1. CASE c.what = "assign"
            BY <1>1, <2>1, <4>1, <5>1
               DEF TabsInv, TabsShape, TabInv, CallNameInv, Serve, Rename, FromName
        <5>2. CASE c.what = "reset"
            BY <1>1, <2>1, <4>1, <5>2
               DEF TabsInv, TabsShape, TabInv, CallNameInv, Serve, Rename, Pair
        <5> QED BY <2>1, <5>1, <5>2
      <4> QED BY <1>1, <4>1, <4>2 DEF NameInv
    <3> QED BY <3>1, <3>2
  <2>2. CASE t \notin tabs
      BY <1>1, <2>2 DEF NameInv
  <2>3. CASE c.what \notin {"assign", "reset"}
    <3>1. names' = names /\ late' = late
        BY <2>3 DEF Serve
    <3>2. Renaming(t) => Renaming(t)'
        BY <1>1, <2>3 DEF Renaming, CallOf
    <3> QED BY <1>1, <3>1, <3>2 DEF TabInv, NameInv
  <2> QED BY <2>1, <2>2, <2>3
<1> QED BY <1>2, <1>3, <1>6, <1>7 DEF TabInv

LEMMA ServeKeeps ==
  ASSUME TabsInv, NEW c \in calls, Serve(c)
  PROVE  TabsInv'
<1>1. TabsShape'
    BY ServeShape
<1>2. c \in CallRecord /\ c.tab \in Tabs
    BY CallFields DEF TabsInv, TabsShape
<1>3. TaskInv' /\ SessionsOpen'
    BY DEF TabsInv, TaskInv, SessionsOpen, Building, Closing, CoordAt, Serve, browserVars
<1>4. NamesOpen'
    BY <1>2 DEF TabsInv, TabsShape, NamesOpen, Building, Serve, Rename, browserVars
<1>5. ASSUME NEW u \in Tabs, u # c.tab PROVE TabInv(u)'
  <2>1. /\ u \in tabs' => u \in tabs
        /\ u \in late => u \in late'
        /\ names'[u] = names[u]
        /\ coord'[u] = coord[u]
        /\ cur'[u] = cur[u] /\ born'[u] = born[u]
        /\ shown'[u] = shown[u] /\ events'[u] = events[u]
      BY <1>2, <1>5 DEF TabsInv, TabsShape, Serve, Rename, Renamed, browserVars
  <2>2. \A d \in CallRecord : d.tab = u => (d \in calls' <=> d \in calls)
      BY <1>5 DEF Serve
  <2>3. next' >= next /\ next \in Nat /\ next' \in Nat
      BY RegistryAssumption DEF RegistryAssumption, TabsInv, TabsShape, Serve, browserVars
  <2> QED BY <1>1, <2>1, <2>2, <2>3, OtherTab DEF TabsInv, TabsShape
<1>6. \A t \in Tabs : TabInv(t)'
    BY <1>1, <1>5, ServeTab
<1> QED BY <1>1, <1>3, <1>4, <1>6 DEF TabsInv

-----------------------------------------------------------------------------
(* No tab yet: every table is empty. *)
LEMMA TabsInitial == TabsInit => TabsInv
<1> SUFFICES ASSUME TabsInit PROVE TabsInv
    OBVIOUS
<1> USE RegistryAssumption DEF RegistryAssumption
<1>0. "unborn" \in CoordStates /\ 0 \in 0..MaxTab
    BY DEF CoordStates
<1>1. [CoordIdle EXCEPT !.at = "unborn"] \in CoordRecord /\ TaskIdle \in TaskRecord
  <2>1. TaskIdle \in TaskRecord
      BY <1>0 DEF TaskIdle, TaskRecord
  <2> QED BY <1>0, <2>1, CoordBuilt, CoordTyped
<1>2. NoWindowName \in Name /\ NoNames \in Pair
    BY PairTyped DEF Name
<1>3. TabsShape
    BY <1>1, <1>2 DEF TabsInit, TabsShape, NoFrames
<1>4. TaskInv /\ NamesOpen /\ SessionsOpen
    BY DEF TabsInit, TaskInv, NamesOpen, SessionsOpen, Building, Closing, TaskIdle
<1>5. ASSUME NEW t \in Tabs PROVE TabInv(t)
  <2>1. /\ coord[t].at = "unborn" /\ coord[t].then = "none"
        /\ cur[t] = 0 /\ born[t] = 0 /\ events[t] = <<>> /\ calls = {} /\ tabs = {}
      BY DEF TabsInit, CoordIdle
  <2> QED BY <2>1 DEF TabInv, GenInv, EventInv, CallNameInv, ThenInv, NameInv, CoordAt, Tabs
<1> QED BY <1>3, <1>4, <1>5 DEF TabsInv

(* A coordinator and a renderer, whatever they do. *)
LEMMA CoordKeeps ==
  ASSUME TabsInv, NEW t \in Tabs, CoordStep(t)
  PROVE  TabsInv'
<1>1. CASE TabMountFails(t) \/ RendererLost(t)
  <2>1. coord[t].at \in {"idle", "mount", "fresh"} /\ ClearFor(t, "release")
      BY <1>1 DEF TabMountFails, RendererLost, CoordAt
  <2> QED BY <2>1, LetGoStep
<1> QED BY <1>1, BeginCommitStep, MountVirtualStep, MountSameStep, MountUnavailableStep,
           SwitchRendererStep, ShutdownStep, AttachStep, MountFreshStep, ReleaseStep,
           RestoreCommitStep, AbortCoordinatorStep, ReadNameStep, SettleDocumentNameStep
        DEF CoordStep

LEMMA RendererKeeps ==
  ASSUME TabsInv, NEW t \in Tabs, RendererStep(t)
  PROVE  TabsInv'
<1>1. ASSUME NEW r \in BOOLEAN, NavigateSelf(t, r) PROVE TabsInv'
  <2>1. CASE r = TRUE
      BY <1>1, <2>1, NavigateAcrossStep
  <2>2. CASE r = FALSE
      BY <1>1, <2>2, NavigateWithinStep
  <2> QED BY <2>1, <2>2
<1> QED BY <1>1, AssignNameStep, CreateFrameStep, DestroyFrameStep DEF RendererStep

LEMMA IdleKeeps ==
  ASSUME TabsInv, UNCHANGED tabsVars
  PROVE  TabsInv'
<1>1. TabsShape' /\ TaskInv' /\ NamesOpen' /\ SessionsOpen'
    BY DEF TabsInv, TabsShape, TaskInv, NamesOpen, SessionsOpen, Building, Closing, CoordAt,
           tabsVars, browserVars, rendererVars
<1>2. ASSUME NEW u \in Tabs PROVE TabInv(u)'
    BY DEF TabsInv, TabInv, GenInv, EventInv, CallNameInv, ThenInv, NameInv, Renaming, CallOf,
           CoordAt, Blocked, tabsVars, browserVars, rendererVars
<1> QED BY <1>1, <1>2 DEF TabsInv

(* The invariant the theorems below are read off. *)
THEOREM TabsInvariant == TabsSpec => []TabsInv
<1>1. TabsInv /\ [TabsNext]_tabsVars => TabsInv'
    BY BrowserKeeps, CoordKeeps, RendererKeeps, ServeKeeps, IdleKeeps DEF TabsNext
<1> QED BY TabsInitial, <1>1, PTL DEF TabsSpec

(* TabRegistry keeps its tables in their types, its events few and one call *)
(* per renderer.                                                            *)
THEOREM TabsTypeCorrect == TabsSpec => []TabsTypeOK
<1>1. TabsInv => TabsTypeOK
  <2> SUFFICES ASSUME TabsInv PROVE TabsTypeOK
      OBVIOUS
  <2>1. \A t \in Tabs : Len(events[t]) <= 2
    <3>1. ASSUME NEW t \in Tabs PROVE Len(events[t]) <= 2
      <4>1. Len(events[t]) \in Nat /\ Len(events[t]) <= 1
          BY DEF TabsInv, TabsShape, TabInv, EventInv
      <4> QED BY <4>1
    <3> QED BY <3>1
  <2>2. \A c, d \in calls : c.tab = d.tab /\ c.gen = d.gen => c = d
      BY CallFields DEF TabsInv, TabsShape, TabInv, GenInv
  <2> QED BY <2>1, <2>2 DEF TabsInv, TabsShape, TabsTypeOK
<1> QED BY <1>1, TabsInvariant, PTL

(* close_tab against renames, commits and their undoing: a name never       *)
(* outlives its tab.                                                        *)
THEOREM NamesOfOpenTabs == TabsSpec => []NamesOpen
<1>1. TabsInv => NamesOpen
    BY DEF TabsInv
<1> QED BY <1>1, TabsInvariant, PTL

(* create_tab, open_window and close_tab: exactly the open tabs have a      *)
(* session storage namespace.                                               *)
THEOREM SessionsOfOpenTabs == TabsSpec => []SessionsOpen
<1>1. TabsInv => SessionsOpen
    BY DEF TabsInv
<1> QED BY <1>1, TabsInvariant, PTL

(* install_commit, restore_commit and the service calls: at rest the        *)
(* registry and the document agree on the name of the browsing context.     *)
THEOREM NamesInAgreement == TabsSpec => []NamesAgree
<1>1. TabsInv => NamesAgree
    BY DEF TabsInv, TabInv, NameInv, NamesAgree, Resting, Renaming, CallOf, CoordAt
<1> QED BY <1>1, TabsInvariant, PTL

(* The tables of the browser task agree with the tabs that are open.        *)
THEOREM TabsAreSafe == TabsSpec => []TabsSafe
BY TabsTypeCorrect, NamesOfOpenTabs, SessionsOfOpenTabs, NamesInAgreement, PTL DEF TabsSafe

=============================================================================
