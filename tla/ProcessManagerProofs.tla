------------------------ MODULE ProcessManagerProofs ------------------------
(***************************************************************************)
(* Proofs about the renderer process manager, for every number of tabs,    *)
(* sites, processes, assignments and fill_spare tasks and every budget.    *)
(***************************************************************************)
EXTENDS ProcessManager, FiniteSetTheorems, TLAPS

(***************************************************************************)
(* The inductive invariant.                                                *)
(***************************************************************************)

(* Where a tab is inside acquire fixes what it holds. *)
TabShape ==
    /\ \A t \in Tabs :
        /\ tpc[t] \in {"idle", "wait"} => hold[t] = NoProc
        /\ tpc[t] \in {"spawn", "notify", "fail"} => hold[t] \in Procs
        /\ tpc[t] = "notify" <=> new[t] # NoAsg
        /\ tpc[t] = "notify" => aproc[new[t]] = hold[t]
        /\ tpc[t] \in {"wait", "spawn", "notify"} => want[t] \in Sites
        /\ tpc[t] = "spawn" => lock = t /\ site[hold[t]] = want[t]
    /\ lock # NoTab => tpc[lock] = "spawn"

(* Every assignment a tab refers to is held, and by that tab only. *)
Ownership ==
    /\ \A t \in Tabs : cur[t] # NoAsg => aphase[cur[t]] = "held"
    /\ \A t \in Tabs : new[t] # NoAsg => aphase[new[t]] = "held"
    /\ \A t, u \in Tabs : cur[t] # NoAsg => cur[t] # new[u]
    /\ \A t, u \in Tabs : t # u /\ cur[t] # NoAsg => cur[t] # cur[u]
    /\ \A t, u \in Tabs : t # u /\ new[t] # NoAsg => new[t] # new[u]

(* A live record names a process locked to its site. *)
AsgShape ==
    \A a \in Asgs :
        IF aphase[a] = "free" THEN aproc[a] = NoProc
        ELSE aproc[a] \in Procs /\ asite[a] \in Sites /\ site[aproc[a]] = asite[a]

(* What release_loop has in hand: the site it read is still the process's. *)
LoopShape ==
    IF rpc = "recv" THEN rproc = NoProc
    ELSE rproc \in Procs /\ rsite = site[rproc]

(* A fill_spare task holds a process only while spawning or storing it. *)
FillShape ==
    \A f \in Fillers :
        /\ fpc[f] \in {"off", "start", "slot"} => fproc[f] = NoProc
        /\ fpc[f] = "spawn" => fproc[f] \in Procs

(* No assignment, notice or acquire has referred to p since it was spawned. *)
Unused(p) ==
    /\ \A t \in Tabs : tpc[t] \in {"notify", "fail"} => hold[t] # p
    /\ \A a \in Asgs : aproc[a] # p
    /\ \A i \in DOMAIN releases : releases[i] # p
    /\ rproc # p
    /\ life[p] # "stopped"
    /\ \A s \in Sites : p \notin pool[s]

(* The spare and every process being spawned is unused, ... *)
YoungApart ==
    /\ spare # NoProc => Unused(spare)
    /\ \A t \in Tabs : tpc[t] = "spawn" => Unused(hold[t])
    /\ \A f \in Fillers : fproc[f] # NoProc => Unused(fproc[f])

(* ... and they are all different. *)
YoungUnique ==
    /\ \A t \in Tabs : tpc[t] = "spawn" =>
         hold[t] # spare /\ \A f \in Fillers : hold[t] # fproc[f]
    /\ \A f \in Fillers : fproc[f] # NoProc =>
         /\ fproc[f] # spare
         /\ \A g \in Fillers : g # f => fproc[g] # fproc[f]

(* The spare is unlocked, and a pool offers processes of its own site. *)
SiteShape ==
    /\ spare # NoProc => site[spare] = NoSite
    /\ \A f \in Fillers : fproc[f] # NoProc => site[fproc[f]] = NoSite
    /\ \A s \in Sites : \A p \in pool[s] : site[p] = s

(* A process that is stopped, or chosen to be, hosts nothing and is offered
   to nobody. *)
StoppedApart ==
    \A p \in Procs : life[p] = "stopped" \/ (rproc = p /\ rpc = "shutdown") =>
        /\ Counted(p) = {}
        /\ \A s \in Sites : p \notin pool[s]
        /\ \A t \in Tabs : hold[t] = p => tpc[t] = "fail"

(* The counter is the number of counted assignments. *)
CountIsExact == \A p \in Procs : count[p] = Cardinality(Counted(p))

IInv ==
    /\ TypeOK /\ TabShape /\ Ownership /\ AsgShape /\ LoopShape /\ FillShape
    /\ YoungApart /\ YoungUnique /\ SiteShape /\ StoppedApart /\ CountIsExact

-----------------------------------------------------------------------------
(* The assignments of a process are finitely many, before and after a step. *)
LEMMA CountedFinite ==
    ASSUME NEW p \in Procs
    PROVE  IsFiniteSet(Counted(p)) /\ IsFiniteSet(Counted(p))'
<1>1. Counted(p) \subseteq Asgs /\ (Counted(p))' \subseteq Asgs
  BY DEF Counted
<1> QED BY <1>1, FS_Subset, ConstantsAssumption DEF ConstantsAssumption

(* A step that changes neither the counters nor the counted sets. *)
LEMMA CountKept ==
    ASSUME CountIsExact, UNCHANGED count,
           \A p \in Procs : (Counted(p))' = Counted(p)
    PROVE  CountIsExact'
BY DEF CountIsExact

(* reserve adds one assignment to one process and to its counter. *)
LEMMA ReserveCount ==
    ASSUME TypeOK, AsgShape, CountIsExact, NEW t \in Tabs, NEW p \in Procs, Reserve(t, p)
    PROVE  CountIsExact'
<1>1. PICK a \in Asgs : aphase[a] = "free" /\ aphase' = [aphase EXCEPT ![a] = "held"]
                        /\ aproc' = [aproc EXCEPT ![a] = p]
                        /\ count' = [count EXCEPT ![p] = @ + 1]
  BY DEF Reserve
<1>2. a \notin Counted(p)
  BY <1>1 DEF Counted
<1>3. (Counted(p))' = Counted(p) \cup {a}
  BY <1>1 DEF Counted, TypeOK, AsgType
<1>4. \A q \in Procs : q # p => (Counted(q))' = Counted(q)
  BY <1>1, ConstantsAssumption DEF ConstantsAssumption, Counted, TypeOK, AsgType, AsgShape
<1>5. Cardinality((Counted(p))') = Cardinality(Counted(p)) + 1
  BY <1>2, <1>3, CountedFinite, FS_AddElement
<1>6. \A q \in Procs : q # p => Cardinality((Counted(q))') = Cardinality(Counted(q))
  BY <1>4
<1> QED BY <1>1, <1>5, <1>6 DEF CountIsExact, TypeOK, ProcType

(* A fresh handle starts with a zero counter and no assignment. *)
LEMMA SpawnCount ==
    ASSUME TypeOK, CountIsExact, NEW p \in Procs, NEW s, StartSpawn(p, s),
           UNCHANGED asgVars
    PROVE  CountIsExact'
<1>1. \A q \in Procs : (Counted(q))' = Counted(q)
  BY DEF Counted, asgVars
<1>2. Counted(p) = {}
  BY DEF StartSpawn, Handles, Referenced, Counted
<1>3. Cardinality(Counted(p)) = 0
  BY <1>2, FS_EmptySet
<1> QED BY <1>1, <1>3 DEF CountIsExact, StartSpawn, TypeOK, ProcType

(* An assignment whose drop begins still counts. *)
LEMMA BeginDropCount ==
    ASSUME TypeOK, CountIsExact, NEW S, BeginDrop(S), UNCHANGED count,
           \A a \in S \cap Asgs : aphase[a] = "held"
    PROVE  CountIsExact'
<1>1. \A q \in Procs : (Counted(q))' = Counted(q)
  BY DEF Counted, BeginDrop, TypeOK, AsgType
<1> QED BY <1>1, CountKept

(* fetch_sub takes one assignment off one process and its counter. *)
LEMMA DropCountCount ==
    ASSUME TypeOK, AsgShape, CountIsExact, NEW a \in Asgs, DropCount(a)
    PROVE  CountIsExact'
<1>1. PICK p \in Procs : p = aproc[a]
  BY DEF DropCount, AsgShape
<1>2. a \in Counted(p) /\ (Counted(p))' = Counted(p) \ {a}
  BY <1>1 DEF DropCount, Counted, TypeOK, AsgType
<1>3. \A q \in Procs : q # p => (Counted(q))' = Counted(q)
  BY <1>1 DEF DropCount, Counted, TypeOK, AsgType
<1>4. Cardinality((Counted(p))') = Cardinality(Counted(p)) - 1
  BY <1>2, CountedFinite, FS_RemoveElement
<1>5. \A q \in Procs : q # p => Cardinality((Counted(q))') = Cardinality(Counted(q))
  BY <1>3
<1>6. count' = [count EXCEPT ![p] = @ - 1]
  BY <1>1 DEF DropCount
<1> QED BY <1>4, <1>5, <1>6 DEF CountIsExact, TypeOK, ProcType

(* What release_loop concludes from reading zero. *)
LEMMA ZeroMeansNone ==
    ASSUME CountIsExact, NEW p \in Procs, count[p] = 0
    PROVE  Counted(p) = {}
BY CountedFinite, FS_EmptySet DEF CountIsExact

-----------------------------------------------------------------------------
(* A tab asks for a renderer. *)
LEMMA EnsureRendererStep ==
    ASSUME IInv, NEW t \in Tabs, NEW s \in Sites, EnsureRenderer(t, s)
    PROVE  IInv'
<1> USE ConstantsAssumption DEF ConstantsAssumption, IInv, TypeOK, EnsureRenderer,
      managerVars, procVars, asgVars, loopVars, fillVars
<1>1. (ManagerType /\ ProcType /\ AsgType /\ LoopType /\ FillType /\ Ownership /\
      AsgShape /\ LoopShape /\ FillShape /\ SiteShape /\ CountIsExact)'
  BY DEF ManagerType, ProcType, AsgType, LoopType, FillType, Ownership, AsgShape,
      LoopShape, FillShape, SiteShape, CountIsExact, Counted
<1>2. TabType'
  BY DEF TabType
<1>3. TabShape'
  BY DEF ManagerType, ProcType, TabType, AsgType, TabShape
<1>4. YoungApart'
  BY DEF ManagerType, ProcType, TabType, AsgType, LoopType, FillType, YoungApart,
      Unused
<1>5. YoungUnique'
  BY DEF ManagerType, TabType, FillType, YoungUnique
<1>6. StoppedApart'
  BY DEF ManagerType, ProcType, TabType, AsgType, LoopType, StoppedApart, Counted
<1> QED BY <1>1, <1>2, <1>3, <1>4, <1>5, <1>6

(* acquire_reserved takes the spare. *)
LEMMA AcquireSpareStep ==
    ASSUME IInv, NEW t \in Tabs, AcquireSpare(t)
    PROVE  IInv'
<1> USE ConstantsAssumption DEF ConstantsAssumption, IInv, TypeOK, AcquireSpare,
      Bind, TakeSpare, Reserve, loopVars, fillVars
<1>1. (LoopType /\ FillType /\ FillShape)'
  BY DEF LoopType, FillType, FillShape
<1>2. ManagerType'
  BY DEF ManagerType
<1>3. ProcType'
  BY DEF ProcType, ManagerType, TabType, TabShape
<1>4. TabType'
  BY DEF TabType, ManagerType, TabShape
<1>5. AsgType'
  BY DEF AsgType, ManagerType, TabType, TabShape
<1>6. TabShape'
  BY DEF ManagerType, ProcType, TabType, AsgType, TabShape, AsgShape
<1>7. Ownership'
  BY DEF TabType, AsgType, Ownership
<1>8. AsgShape'
  BY DEF ManagerType, ProcType, TabType, AsgType, LoopType, FillType, TabShape,
      AsgShape, LoopShape, FillShape
<1>9. LoopShape'
  BY DEF ManagerType, ProcType, TabType, AsgType, LoopType, FillType, TabShape,
      LoopShape, YoungApart, Unused
<1>10. YoungApart'
  BY DEF ManagerType, ProcType, TabType, AsgType, LoopType, FillType, TabShape,
      YoungApart, YoungUnique, Unused
<1>11. YoungUnique'
  BY DEF ManagerType, TabType, FillType, TabShape, YoungUnique
<1>12. SiteShape'
  BY DEF ManagerType, ProcType, TabType, AsgType, LoopType, FillType, TabShape,
      YoungApart, YoungUnique, SiteShape, Unused
<1>13. StoppedApart'
  BY DEF ManagerType, ProcType, TabType, AsgType, LoopType, FillType, TabShape,
      YoungApart, StoppedApart, Unused, Counted
<1>14. CountIsExact'
  <2>1. spare \in Procs
    BY DEF ManagerType
  <2> QED BY <2>1, ReserveCount
<1> QED BY <1>1, <1>2, <1>3, <1>4, <1>5, <1>6, <1>7, <1>8, <1>9, <1>10, <1>11,
      <1>12, <1>13, <1>14

(* acquire_reserved starts a spawn. *)
LEMMA AcquireSpawnStep ==
    ASSUME IInv, NEW t \in Tabs, AcquireSpawn(t)
    PROVE  IInv'
<1> USE ConstantsAssumption DEF ConstantsAssumption, IInv, TypeOK, AcquireSpawn,
      StartSpawn, Handles, Referenced, asgVars, loopVars, fillVars
<1>1. (AsgType /\ LoopType /\ FillType /\ Ownership /\ FillShape)'
  BY DEF AsgType, LoopType, FillType, Ownership, FillShape
<1>2. ManagerType'
  BY DEF ManagerType
<1>3. ProcType'
  BY DEF ProcType, ManagerType, TabType, TabShape
<1>4. TabType'
  BY DEF TabType
<1>5. TabShape'
  <2>1. PICK p \in Procs : StartSpawn(p, want[t]) /\ hold' = [hold EXCEPT ![t] = p]
    OBVIOUS
  <2>2. \A u \in Tabs : u # t => hold[u] # p
    BY <2>1
  <2>3. \A u \in Tabs : tpc[u] # "spawn"
    BY DEF TabShape, Unlocked
  <2> QED BY <2>1, <2>2, <2>3 DEF TabShape, TabType, ProcType, ManagerType
<1>6. AsgShape'
  BY DEF ProcType, AsgType, AsgShape
<1>7. LoopShape'
  BY DEF ProcType, LoopType, LoopShape
<1>8. YoungApart'
  BY DEF ManagerType, ProcType, TabType, AsgType, LoopType, FillType, YoungApart,
      Unused
<1>9. YoungUnique'
  BY DEF ManagerType, TabType, FillType, YoungUnique
<1>10. SiteShape'
  BY DEF ManagerType, ProcType, FillType, SiteShape
<1>11. StoppedApart'
  BY DEF ManagerType, ProcType, TabType, AsgType, LoopType, StoppedApart, Counted
<1>12. CountIsExact'
  <2>1. PICK p \in Procs : StartSpawn(p, want[t])
    OBVIOUS
  <2> HIDE DEF StartSpawn
  <2> QED BY <2>1, SpawnCount
<1> QED BY <1>1, <1>2, <1>3, <1>4, <1>5, <1>6, <1>7, <1>8, <1>9, <1>10, <1>11, <1>12

(* acquire_reserved shares a live process. *)
LEMMA AcquireReuseStep ==
    ASSUME IInv, NEW t \in Tabs, AcquireReuse(t)
    PROVE  IInv'
<1> USE ConstantsAssumption DEF ConstantsAssumption, IInv, TypeOK, AcquireReuse,
      Reserve, Usable, loopVars, fillVars
<1>1. (LoopType /\ FillType /\ LoopShape /\ FillShape)'
  BY DEF LoopType, FillType, LoopShape, FillShape
<1>2. ManagerType'
  BY DEF ManagerType
<1>3. ProcType'
  BY DEF ProcType, ManagerType, TabType, TabShape
<1>4. TabType'
  BY DEF TabType, ManagerType, TabShape
<1>5. AsgType'
  BY DEF AsgType, ManagerType, TabType, TabShape
<1>6. TabShape'
  BY DEF ManagerType, ProcType, TabType, AsgType, TabShape, AsgShape
<1>7. Ownership'
  BY DEF TabType, AsgType, Ownership
<1>8. AsgShape'
  BY DEF ManagerType, ProcType, TabType, AsgType, LoopType, FillType, TabShape,
      Ownership, AsgShape, LoopShape, FillShape, YoungApart, YoungUnique, SiteShape,
      StoppedApart, Unused, Counted
<1>9. YoungApart'
  BY DEF ManagerType, ProcType, TabType, AsgType, LoopType, FillType, TabShape,
      YoungApart, Unused
<1>10. YoungUnique'
  BY DEF ManagerType, TabType, FillType, YoungUnique
<1>11. SiteShape'
  BY DEF ManagerType, ProcType, FillType, SiteShape
<1>12. StoppedApart'
  BY DEF ManagerType, ProcType, TabType, AsgType, LoopType, TabShape, StoppedApart,
      Counted
<1>13. CountIsExact'
  BY ReserveCount DEF Usable, Handles
<1> QED BY <1>1, <1>2, <1>3, <1>4, <1>5, <1>6, <1>7, <1>8, <1>9, <1>10, <1>11,
      <1>12, <1>13

(* acquire_reserved finds the budget spent. *)
LEMMA AcquireExhaustedStep ==
    ASSUME IInv, NEW t \in Tabs, AcquireExhausted(t)
    PROVE  IInv'
<1> USE ConstantsAssumption DEF ConstantsAssumption, IInv, TypeOK, AcquireExhausted,
      Usable, procVars, asgVars, loopVars, fillVars
<1>1. (ProcType /\ AsgType /\ LoopType /\ FillType /\ Ownership /\ AsgShape /\
      LoopShape /\ FillShape /\ CountIsExact)'
  BY DEF ProcType, AsgType, LoopType, FillType, Ownership, AsgShape, LoopShape,
      FillShape, CountIsExact, Counted
<1>2. ManagerType'
  BY DEF ManagerType
<1>3. TabType'
  BY DEF TabType
<1>4. TabShape'
  BY DEF ManagerType, ProcType, TabType, AsgType, TabShape
<1>5. YoungApart'
  BY DEF ManagerType, ProcType, TabType, AsgType, LoopType, FillType, YoungApart,
      Unused
<1>6. YoungUnique'
  BY DEF ManagerType, TabType, FillType, YoungUnique
<1>7. SiteShape'
  BY DEF ManagerType, ProcType, FillType, SiteShape
<1>8. StoppedApart'
  BY DEF ManagerType, ProcType, TabType, AsgType, LoopType, StoppedApart, Counted
<1> QED BY <1>1, <1>2, <1>3, <1>4, <1>5, <1>6, <1>7, <1>8

(* An acquire's spawn succeeds. *)
LEMMA SpawnOkStep ==
    ASSUME IInv, NEW t \in Tabs, SpawnOk(t)
    PROVE  IInv'
<1> USE ConstantsAssumption DEF ConstantsAssumption, IInv, TypeOK, SpawnOk, Unlock,
      Reserve, loopVars, fillVars
<1>1. (LoopType /\ FillType /\ LoopShape /\ FillShape)'
  BY DEF LoopType, FillType, LoopShape, FillShape
<1>2. ManagerType'
  BY DEF ManagerType, TabType, TabShape
<1>3. ProcType'
  BY DEF ProcType, ManagerType, TabType, TabShape
<1>4. TabType'
  BY DEF TabType
<1>5. AsgType'
  BY DEF AsgType, ManagerType, TabType, TabShape
<1>6. TabShape'
  BY DEF ManagerType, ProcType, TabType, AsgType, TabShape, AsgShape
<1>7. Ownership'
  BY DEF TabType, AsgType, Ownership
<1>8. AsgShape'
  BY DEF ProcType, AsgType, TabShape, AsgShape
<1>9. YoungApart'
  BY DEF ManagerType, ProcType, TabType, AsgType, LoopType, FillType, TabShape,
      YoungApart, YoungUnique, Unused
<1>10. YoungUnique'
  BY DEF ManagerType, TabType, FillType, YoungUnique
<1>11. SiteShape'
  BY DEF ManagerType, ProcType, FillType, TabShape, SiteShape
<1>12. StoppedApart'
  BY DEF ManagerType, ProcType, TabType, AsgType, LoopType, StoppedApart, Counted
<1>13. CountIsExact'
  <2>1. hold[t] \in Procs
    BY DEF TabShape
  <2> QED BY <2>1, ReserveCount
<1> QED BY <1>1, <1>2, <1>3, <1>4, <1>5, <1>6, <1>7, <1>8, <1>9, <1>10, <1>11,
      <1>12, <1>13

(* An acquire's spawn fails. *)
LEMMA SpawnFailStep ==
    ASSUME IInv, NEW t \in Tabs, SpawnFail(t)
    PROVE  IInv'
<1> USE ConstantsAssumption DEF ConstantsAssumption, IInv, TypeOK, SpawnFail,
      Unlock, procVars, asgVars, loopVars, fillVars
<1>1. (ProcType /\ AsgType /\ LoopType /\ FillType /\ Ownership /\ AsgShape /\
      LoopShape /\ FillShape /\ SiteShape /\ CountIsExact)'
  BY DEF ProcType, AsgType, LoopType, FillType, Ownership, AsgShape, LoopShape,
      FillShape, SiteShape, CountIsExact, Counted
<1>2. ManagerType'
  BY DEF ManagerType
<1>3. TabType'
  BY DEF TabType
<1>4. TabShape'
  BY DEF ManagerType, ProcType, TabType, AsgType, TabShape
<1>5. YoungApart'
  BY DEF ManagerType, ProcType, TabType, AsgType, LoopType, FillType, YoungApart,
      Unused
<1>6. YoungUnique'
  BY DEF ManagerType, TabType, FillType, YoungUnique
<1>7. StoppedApart'
  BY DEF ManagerType, ProcType, TabType, AsgType, LoopType, StoppedApart, Counted
<1> QED BY <1>1, <1>2, <1>3, <1>4, <1>5, <1>6, <1>7

(* acquire returns its assignment. *)
LEMMA NotifyOkStep ==
    ASSUME IInv, NEW t \in Tabs, NotifyOk(t)
    PROVE  IInv'
<1> USE ConstantsAssumption DEF ConstantsAssumption, IInv, TypeOK, NotifyOk,
      BeginDrop, FillSpare, managerVars, procVars, loopVars
<1>1. (ManagerType /\ ProcType /\ LoopType /\ LoopShape)'
  BY DEF ManagerType, ProcType, LoopType, LoopShape
<1>2. TabType'
  BY DEF TabType
<1>3. AsgType'
  BY DEF AsgType
<1>4. FillType'
  BY DEF FillType
<1>5. TabShape'
  BY DEF ManagerType, ProcType, TabType, AsgType, TabShape
<1>6. Ownership'
  BY DEF TabType, AsgType, Ownership
<1>7. AsgShape'
  BY DEF ManagerType, ProcType, TabType, AsgType, LoopType, FillType, TabShape,
      Ownership, AsgShape
<1>8. FillShape'
  BY DEF FillType, FillShape
<1>9. YoungApart'
  BY DEF ManagerType, ProcType, TabType, AsgType, LoopType, FillType, YoungApart,
      Unused
<1>10. YoungUnique'
  BY DEF ManagerType, TabType, FillType, YoungUnique
<1>11. SiteShape'
  BY DEF ManagerType, ProcType, FillType, SiteShape
<1>12. StoppedApart'
  BY DEF ManagerType, ProcType, TabType, AsgType, LoopType, FillType, TabShape,
      Ownership, AsgShape, StoppedApart, Counted
<1>13. CountIsExact'
  <2>1. \A a \in {cur[t]} \cap Asgs : aphase[a] = "held"
    BY DEF Ownership
  <2> QED BY <2>1, BeginDropCount
<1> QED BY <1>1, <1>2, <1>3, <1>4, <1>5, <1>6, <1>7, <1>8, <1>9, <1>10, <1>11,
      <1>12, <1>13

(* acquire drops its assignment. *)
LEMMA NotifyErrStep ==
    ASSUME IInv, NEW t \in Tabs, NotifyErr(t)
    PROVE  IInv'
<1> USE ConstantsAssumption DEF ConstantsAssumption, IInv, TypeOK, NotifyErr,
      BeginDrop, managerVars, procVars, loopVars, fillVars
<1>1. (ManagerType /\ ProcType /\ LoopType /\ FillType /\ LoopShape /\ FillShape /\
      SiteShape)'
  BY DEF ManagerType, ProcType, LoopType, FillType, LoopShape, FillShape, SiteShape
<1>2. TabType'
  BY DEF TabType
<1>3. AsgType'
  BY DEF AsgType
<1>4. TabShape'
  BY DEF ManagerType, ProcType, TabType, AsgType, TabShape
<1>5. Ownership'
  BY DEF TabType, AsgType, Ownership
<1>6. AsgShape'
  BY DEF ProcType, AsgType, TabShape, AsgShape
<1>7. YoungApart'
  BY DEF ManagerType, ProcType, TabType, AsgType, LoopType, FillType, YoungApart,
      Unused
<1>8. YoungUnique'
  BY DEF ManagerType, TabType, FillType, YoungUnique
<1>9. StoppedApart'
  BY DEF ManagerType, ProcType, TabType, AsgType, LoopType, TabShape, StoppedApart,
      Counted
<1>10. CountIsExact'
  <2>1. \A a \in {new[t]} \cap Asgs : aphase[a] = "held"
    BY DEF Ownership
  <2> QED BY <2>1, BeginDropCount
<1> QED BY <1>1, <1>2, <1>3, <1>4, <1>5, <1>6, <1>7, <1>8, <1>9, <1>10

(* acquire returns its error. *)
LEMMA FailReturnStep ==
    ASSUME IInv, NEW t \in Tabs, FailReturn(t)
    PROVE  IInv'
<1> USE ConstantsAssumption DEF ConstantsAssumption, IInv, TypeOK, FailReturn,
      managerVars, procVars, asgVars, loopVars, fillVars
<1>1. (ManagerType /\ ProcType /\ AsgType /\ LoopType /\ FillType /\ Ownership /\
      AsgShape /\ LoopShape /\ FillShape /\ SiteShape /\ CountIsExact)'
  BY DEF ManagerType, ProcType, AsgType, LoopType, FillType, Ownership, AsgShape,
      LoopShape, FillShape, SiteShape, CountIsExact, Counted
<1>2. TabType'
  BY DEF TabType
<1>3. TabShape'
  BY DEF ManagerType, ProcType, TabType, AsgType, TabShape
<1>4. YoungApart'
  BY DEF ManagerType, ProcType, TabType, AsgType, LoopType, FillType, YoungApart,
      Unused
<1>5. YoungUnique'
  BY DEF ManagerType, TabType, FillType, YoungUnique
<1>6. StoppedApart'
  BY DEF ManagerType, ProcType, TabType, AsgType, LoopType, StoppedApart, Counted
<1> QED BY <1>1, <1>2, <1>3, <1>4, <1>5, <1>6

(* A tab drops its renderer. *)
LEMMA DropRendererStep ==
    ASSUME IInv, NEW t \in Tabs, DropRenderer(t)
    PROVE  IInv'
<1> USE ConstantsAssumption DEF ConstantsAssumption, IInv, TypeOK, DropRenderer,
      BeginDrop, managerVars, procVars, loopVars, fillVars
<1>1. (ManagerType /\ ProcType /\ LoopType /\ FillType /\ TabShape /\ LoopShape /\
      FillShape /\ YoungApart /\ YoungUnique /\ SiteShape)'
  BY DEF ManagerType, ProcType, LoopType, FillType, TabShape, LoopShape, FillShape,
      YoungApart, YoungUnique, SiteShape, Unused
<1>2. TabType'
  BY DEF TabType
<1>3. AsgType'
  BY DEF AsgType
<1>4. Ownership'
  BY DEF TabType, AsgType, Ownership
<1>5. AsgShape'
  BY DEF ManagerType, ProcType, TabType, AsgType, LoopType, FillType, TabShape,
      Ownership, AsgShape
<1>6. StoppedApart'
  BY DEF ManagerType, ProcType, TabType, AsgType, LoopType, FillType, TabShape,
      Ownership, AsgShape, StoppedApart, Counted
<1>7. CountIsExact'
  <2>1. \A a \in {cur[t]} \cap Asgs : aphase[a] = "held"
    BY DEF Ownership
  <2> QED BY <2>1, BeginDropCount
<1> QED BY <1>1, <1>2, <1>3, <1>4, <1>5, <1>6, <1>7

(* A tab is aborted inside acquire. *)
LEMMA AbortTabStep ==
    ASSUME IInv, NEW t \in Tabs, AbortTab(t)
    PROVE  IInv'
<1> USE ConstantsAssumption DEF ConstantsAssumption, IInv, TypeOK, AbortTab,
      BeginDrop, procVars, loopVars, fillVars
<1>1. (ProcType /\ LoopType /\ FillType /\ LoopShape /\ FillShape /\ SiteShape)'
  BY DEF ProcType, LoopType, FillType, LoopShape, FillShape, SiteShape
<1>2. ManagerType'
  BY DEF ManagerType
<1>3. TabType'
  BY DEF TabType
<1>4. AsgType'
  BY DEF AsgType
<1>5. TabShape'
  BY DEF ManagerType, ProcType, TabType, AsgType, TabShape
<1>6. Ownership'
  BY DEF TabType, AsgType, Ownership
<1>7. AsgShape'
  BY DEF ManagerType, ProcType, TabType, AsgType, LoopType, FillType, TabShape,
      Ownership, AsgShape
<1>8. YoungApart'
  BY DEF ManagerType, ProcType, TabType, AsgType, LoopType, FillType, YoungApart,
      Unused
<1>9. YoungUnique'
  BY DEF ManagerType, TabType, FillType, YoungUnique
<1>10. StoppedApart'
  BY DEF ManagerType, ProcType, TabType, AsgType, LoopType, FillType, TabShape,
      Ownership, AsgShape, StoppedApart, Counted
<1>11. CountIsExact'
  <2>1. \A a \in {cur[t], new[t]} \cap Asgs : aphase[a] = "held"
    BY DEF Ownership
  <2> QED BY <2>1, BeginDropCount
<1> QED BY <1>1, <1>2, <1>3, <1>4, <1>5, <1>6, <1>7, <1>8, <1>9, <1>10, <1>11

(* Drop for Assignment: fetch_sub. *)
LEMMA DropCountStep ==
    ASSUME IInv, NEW a \in Asgs, DropCount(a)
    PROVE  IInv'
<1> USE ConstantsAssumption DEF ConstantsAssumption, IInv, TypeOK, DropCount,
      managerVars, tabVars, loopVars, fillVars
<1>1. (ManagerType /\ TabType /\ LoopType /\ FillType /\ TabShape /\ LoopShape /\
      FillShape /\ YoungApart /\ YoungUnique /\ SiteShape)'
  BY DEF ManagerType, TabType, LoopType, FillType, TabShape, LoopShape, FillShape,
      YoungApart, YoungUnique, SiteShape, Unused
<1>2. ProcType'
  BY DEF ProcType, ManagerType, TabType, AsgShape
<1>3. AsgType'
  BY DEF AsgType
<1>4. Ownership'
  BY DEF TabType, AsgType, Ownership
<1>5. AsgShape'
  BY DEF ProcType, AsgType, AsgShape
<1>6. StoppedApart'
  BY DEF ManagerType, ProcType, TabType, AsgType, LoopType, StoppedApart, Counted
<1>7. CountIsExact'
  BY DropCountCount
<1> QED BY <1>1, <1>2, <1>3, <1>4, <1>5, <1>6, <1>7

(* Drop for Assignment: the notice. *)
LEMMA DropSendStep ==
    ASSUME IInv, NEW a \in Asgs, DropSend(a)
    PROVE  IInv'
<1> USE ConstantsAssumption DEF ConstantsAssumption, IInv, TypeOK, DropSend,
      managerVars, procVars, tabVars, fillVars
<1>1. (ManagerType /\ ProcType /\ TabType /\ FillType /\ TabShape /\ LoopShape /\
      FillShape /\ YoungUnique /\ SiteShape)'
  BY DEF ManagerType, ProcType, TabType, FillType, TabShape, LoopShape, FillShape,
      YoungUnique, SiteShape
<1>2. AsgType'
  BY DEF AsgType
<1>3. LoopType'
  BY DEF LoopType, ManagerType, TabType, AsgShape
<1>4. Ownership'
  BY DEF TabType, AsgType, Ownership
<1>5. AsgShape'
  BY DEF ProcType, AsgType, AsgShape
<1>6. YoungApart'
  BY DEF ManagerType, ProcType, TabType, AsgType, LoopType, FillType, YoungApart,
      Unused
<1>7. StoppedApart'
  BY DEF ManagerType, ProcType, TabType, AsgType, LoopType, StoppedApart, Counted
<1>8. CountIsExact'
  <2>1. \A p \in Procs : (Counted(p))' = Counted(p)
    BY DEF Counted, AsgType
  <2> QED BY <2>1, CountKept
<1> QED BY <1>1, <1>2, <1>3, <1>4, <1>5, <1>6, <1>7, <1>8

(* Drop for Assignment: the process field. *)
LEMMA DropArcStep ==
    ASSUME IInv, NEW a \in Asgs, DropArc(a)
    PROVE  IInv'
<1> USE ConstantsAssumption DEF ConstantsAssumption, IInv, TypeOK, DropArc,
      managerVars, procVars, tabVars, loopVars, fillVars
<1>1. (ManagerType /\ ProcType /\ TabType /\ LoopType /\ FillType /\ LoopShape /\
      FillShape /\ YoungUnique /\ SiteShape)'
  BY DEF ManagerType, ProcType, TabType, LoopType, FillType, LoopShape, FillShape,
      YoungUnique, SiteShape
<1>2. AsgType'
  BY DEF AsgType
<1>3. TabShape'
  BY DEF ManagerType, ProcType, TabType, AsgType, LoopType, FillType, TabShape,
      Ownership, AsgShape
<1>4. Ownership'
  BY DEF TabType, AsgType, Ownership
<1>5. AsgShape'
  BY DEF ProcType, AsgType, AsgShape
<1>6. YoungApart'
  BY DEF ManagerType, ProcType, TabType, AsgType, LoopType, FillType, TabShape,
      YoungApart, Unused
<1>7. StoppedApart'
  BY DEF ManagerType, ProcType, TabType, AsgType, LoopType, StoppedApart, Counted
<1>8. CountIsExact'
  <2>1. \A p \in Procs : (Counted(p))' = Counted(p)
    BY DEF Counted, AsgType
  <2> QED BY <2>1, CountKept
<1> QED BY <1>1, <1>2, <1>3, <1>4, <1>5, <1>6, <1>7, <1>8

(* release_loop receives a notice. *)
LEMMA ReleaseRecvStep ==
    ASSUME IInv, ReleaseRecv
    PROVE  IInv'
<1> USE ConstantsAssumption DEF ConstantsAssumption, IInv, TypeOK, ReleaseRecv,
      managerVars, procVars, tabVars, asgVars, fillVars
<1>1. (ManagerType /\ ProcType /\ TabType /\ AsgType /\ FillType /\ TabShape /\
      Ownership /\ AsgShape /\ FillShape /\ YoungUnique /\ SiteShape /\
      CountIsExact)'
  BY DEF ManagerType, ProcType, TabType, AsgType, FillType, TabShape, Ownership,
      AsgShape, FillShape, YoungUnique, SiteShape, CountIsExact, Counted
<1>2. LoopType'
  BY DEF ManagerType, ProcType, TabType, AsgType, LoopType, FillType, TabShape,
      AsgShape, LoopShape, FillShape
<1>3. LoopShape'
  BY DEF ProcType, LoopType, LoopShape
<1>4. YoungApart'
  BY DEF ManagerType, ProcType, TabType, AsgType, LoopType, FillType, YoungApart,
      Unused
<1>5. StoppedApart'
  BY DEF ManagerType, ProcType, TabType, AsgType, LoopType, StoppedApart, Counted
<1> QED BY <1>1, <1>2, <1>3, <1>4, <1>5

(* release_loop keeps a process in use. *)
LEMMA ReleaseKeepStep ==
    ASSUME IInv, ReleaseKeep
    PROVE  IInv'
<1> USE ConstantsAssumption DEF ConstantsAssumption, IInv, TypeOK, ReleaseKeep,
      managerVars, procVars, tabVars, asgVars, fillVars
<1>1. (ManagerType /\ ProcType /\ TabType /\ AsgType /\ FillType /\ TabShape /\
      Ownership /\ AsgShape /\ FillShape /\ YoungApart /\ YoungUnique /\ SiteShape
      /\ CountIsExact)'
  BY DEF ManagerType, ProcType, TabType, AsgType, FillType, TabShape, Ownership,
      AsgShape, FillShape, YoungApart, YoungUnique, SiteShape, CountIsExact, Unused,
      Counted
<1>2. LoopType'
  BY DEF LoopType
<1>3. LoopShape'
  BY DEF ProcType, LoopType, LoopShape
<1>4. StoppedApart'
  BY DEF ManagerType, ProcType, TabType, AsgType, LoopType, StoppedApart, Counted
<1> QED BY <1>1, <1>2, <1>3, <1>4

(* release_loop takes an idle process out of its pool. *)
LEMMA ReleaseRetireStep ==
    ASSUME IInv, ReleaseRetire
    PROVE  IInv'
<1> USE ConstantsAssumption DEF ConstantsAssumption, IInv, TypeOK, ReleaseRetire,
      LeavePool, procVars, tabVars, asgVars, fillVars
<1>1. (ProcType /\ TabType /\ AsgType /\ FillType /\ TabShape /\ Ownership /\
      AsgShape /\ FillShape /\ YoungUnique /\ CountIsExact)'
  BY DEF ProcType, TabType, AsgType, FillType, TabShape, Ownership, AsgShape,
      FillShape, YoungUnique, CountIsExact, Counted
<1>2. ManagerType'
  BY DEF ManagerType
<1>3. LoopType'
  BY DEF LoopType
<1>4. LoopShape'
  BY DEF ProcType, LoopType, LoopShape
<1>5. YoungApart'
  BY DEF ManagerType, ProcType, TabType, AsgType, LoopType, FillType, YoungApart,
      Unused
<1>6. SiteShape'
  BY DEF ManagerType, ProcType, FillType, SiteShape
<1>7. StoppedApart'
  <2>1. Counted(rproc) = {}
    BY ZeroMeansNone DEF LoopShape
  <2>2. \A t \in Tabs : hold[t] = rproc => tpc[t] = "fail"
    BY <2>1 DEF TabShape, YoungApart, Unused, Ownership, Counted, LoopShape, TabType
  <2>3. \A s \in Sites : rproc \notin pool'[s]
    BY DEF LoopShape, SiteShape, ManagerType
  <2> QED BY <2>1, <2>2, <2>3 DEF StoppedApart, Counted, ManagerType
<1> QED BY <1>1, <1>2, <1>3, <1>4, <1>5, <1>6, <1>7

(* release_loop stops the process. *)
LEMMA ReleaseShutdownStep ==
    ASSUME IInv, ReleaseShutdown
    PROVE  IInv'
<1> USE ConstantsAssumption DEF ConstantsAssumption, IInv, TypeOK, ReleaseShutdown,
      managerVars, tabVars, asgVars, fillVars
<1>1. (ManagerType /\ TabType /\ AsgType /\ FillType /\ TabShape /\ Ownership /\
      AsgShape /\ FillShape /\ YoungUnique /\ SiteShape /\ CountIsExact)'
  BY DEF ManagerType, TabType, AsgType, FillType, TabShape, Ownership, AsgShape,
      FillShape, YoungUnique, SiteShape, CountIsExact, Counted
<1>2. ProcType'
  BY DEF ProcType
<1>3. LoopType'
  BY DEF LoopType
<1>4. LoopShape'
  BY DEF ProcType, LoopType, LoopShape
<1>5. YoungApart'
  BY DEF ManagerType, ProcType, TabType, AsgType, LoopType, FillType, YoungApart,
      Unused
<1>6. StoppedApart'
  BY DEF ManagerType, ProcType, TabType, AsgType, LoopType, StoppedApart, Counted
<1> QED BY <1>1, <1>2, <1>3, <1>4, <1>5, <1>6

(* release_loop drops its Arc. *)
LEMMA ReleaseDropStep ==
    ASSUME IInv, ReleaseDrop
    PROVE  IInv'
<1> USE ConstantsAssumption DEF ConstantsAssumption, IInv, TypeOK, ReleaseDrop,
      FillSpare, managerVars, procVars, tabVars, asgVars
<1>1. (ManagerType /\ ProcType /\ TabType /\ AsgType /\ TabShape /\ Ownership /\
      AsgShape /\ CountIsExact)'
  BY DEF ManagerType, ProcType, TabType, AsgType, TabShape, Ownership, AsgShape,
      CountIsExact, Counted
<1>2. LoopType'
  BY DEF LoopType
<1>3. FillType'
  BY DEF FillType
<1>4. LoopShape'
  BY DEF ProcType, LoopType, LoopShape
<1>5. FillShape'
  BY DEF FillType, FillShape
<1>6. YoungApart'
  BY DEF ManagerType, ProcType, TabType, AsgType, LoopType, FillType, TabShape,
      YoungApart, Unused
<1>7. YoungUnique'
  BY DEF ManagerType, TabType, FillType, YoungUnique
<1>8. SiteShape'
  BY DEF ManagerType, ProcType, FillType, SiteShape
<1>9. StoppedApart'
  BY DEF ManagerType, ProcType, TabType, AsgType, LoopType, StoppedApart, Counted
<1> QED BY <1>1, <1>2, <1>3, <1>4, <1>5, <1>6, <1>7, <1>8, <1>9

(* fill_spare finds nothing to do. *)
LEMMA FillSkipStep ==
    ASSUME IInv, NEW f \in Fillers, FillSkip(f)
    PROVE  IInv'
<1> USE ConstantsAssumption DEF ConstantsAssumption, IInv, TypeOK, FillSkip,
      SpareWanted, managerVars, procVars, tabVars, asgVars, loopVars
<1>1. (ManagerType /\ ProcType /\ TabType /\ AsgType /\ LoopType /\ TabShape /\
      Ownership /\ AsgShape /\ LoopShape /\ YoungApart /\ YoungUnique /\ SiteShape
      /\ StoppedApart /\ CountIsExact)'
  BY DEF ManagerType, ProcType, TabType, AsgType, LoopType, TabShape, Ownership,
      AsgShape, LoopShape, YoungApart, YoungUnique, SiteShape, StoppedApart,
      CountIsExact, Unused, Counted
<1>2. FillType'
  BY DEF FillType
<1>3. FillShape'
  BY DEF FillType, FillShape
<1> QED BY <1>1, <1>2, <1>3

(* fill_spare claims the spare. *)
LEMMA FillClaimStep ==
    ASSUME IInv, NEW f \in Fillers, FillClaim(f)
    PROVE  IInv'
<1> USE ConstantsAssumption DEF ConstantsAssumption, IInv, TypeOK, FillClaim,
      SpareWanted, procVars, tabVars, asgVars, loopVars
<1>1. (ProcType /\ TabType /\ AsgType /\ LoopType /\ TabShape /\ Ownership /\
      AsgShape /\ LoopShape /\ YoungApart /\ YoungUnique /\ SiteShape /\
      StoppedApart /\ CountIsExact)'
  BY DEF ProcType, TabType, AsgType, LoopType, TabShape, Ownership, AsgShape,
      LoopShape, YoungApart, YoungUnique, SiteShape, StoppedApart, CountIsExact,
      Unused, Counted
<1>2. ManagerType'
  BY DEF ManagerType
<1>3. FillType'
  BY DEF FillType
<1>4. FillShape'
  BY DEF FillType, FillShape
<1> QED BY <1>1, <1>2, <1>3, <1>4

(* fill_spare starts a spawn. *)
LEMMA FillSpawnStep ==
    ASSUME IInv, NEW f \in Fillers, FillSpawn(f)
    PROVE  IInv'
<1> USE ConstantsAssumption DEF ConstantsAssumption, IInv, TypeOK, FillSpawn,
      StartSpawn, Handles, Referenced, tabVars, asgVars, loopVars
<1>1. (TabType /\ AsgType /\ LoopType /\ Ownership)'
  BY DEF TabType, AsgType, LoopType, Ownership
<1>2. ManagerType'
  BY DEF ManagerType
<1>3. ProcType'
  BY DEF ProcType
<1>4. FillType'
  BY DEF FillType
<1>5. TabShape'
  BY DEF ManagerType, ProcType, TabType, AsgType, TabShape
<1>6. AsgShape'
  BY DEF ProcType, AsgType, AsgShape
<1>7. LoopShape'
  BY DEF ProcType, LoopType, LoopShape
<1>8. FillShape'
  BY DEF FillType, FillShape
<1>9. YoungApart'
  BY DEF ManagerType, ProcType, TabType, AsgType, LoopType, FillType, YoungApart,
      Unused
<1>10. YoungUnique'
  BY DEF ManagerType, TabType, FillType, YoungUnique
<1>11. SiteShape'
  BY DEF ManagerType, ProcType, FillType, SiteShape
<1>12. StoppedApart'
  BY DEF ManagerType, ProcType, TabType, AsgType, LoopType, StoppedApart, Counted
<1>13. CountIsExact'
  <2>1. PICK p \in Procs : StartSpawn(p, NoSite)
    OBVIOUS
  <2> HIDE DEF StartSpawn
  <2> QED BY <2>1, SpawnCount
<1> QED BY <1>1, <1>2, <1>3, <1>4, <1>5, <1>6, <1>7, <1>8, <1>9, <1>10, <1>11,
      <1>12, <1>13

(* fill_spare finds the budget spent. *)
LEMMA FillNoSlotStep ==
    ASSUME IInv, NEW f \in Fillers, FillNoSlot(f)
    PROVE  IInv'
<1> USE ConstantsAssumption DEF ConstantsAssumption, IInv, TypeOK, FillNoSlot,
      managerVars, procVars, tabVars, asgVars, loopVars
<1>1. (ManagerType /\ ProcType /\ TabType /\ AsgType /\ LoopType /\ TabShape /\
      Ownership /\ AsgShape /\ LoopShape /\ YoungApart /\ YoungUnique /\ SiteShape
      /\ StoppedApart /\ CountIsExact)'
  BY DEF ManagerType, ProcType, TabType, AsgType, LoopType, TabShape, Ownership,
      AsgShape, LoopShape, YoungApart, YoungUnique, SiteShape, StoppedApart,
      CountIsExact, Unused, Counted
<1>2. FillType'
  BY DEF FillType
<1>3. FillShape'
  BY DEF FillType, FillShape
<1> QED BY <1>1, <1>2, <1>3

(* fill_spare's spawn succeeds. *)
LEMMA FillSpawnOkStep ==
    ASSUME IInv, NEW f \in Fillers, FillSpawnOk(f)
    PROVE  IInv'
<1> USE ConstantsAssumption DEF ConstantsAssumption, IInv, TypeOK, FillSpawnOk,
      managerVars, procVars, tabVars, asgVars, loopVars
<1>1. (ManagerType /\ ProcType /\ TabType /\ AsgType /\ LoopType /\ TabShape /\
      Ownership /\ AsgShape /\ LoopShape /\ YoungApart /\ YoungUnique /\ SiteShape
      /\ StoppedApart /\ CountIsExact)'
  BY DEF ManagerType, ProcType, TabType, AsgType, LoopType, TabShape, Ownership,
      AsgShape, LoopShape, YoungApart, YoungUnique, SiteShape, StoppedApart,
      CountIsExact, Unused, Counted
<1>2. FillType'
  BY DEF FillType
<1>3. FillShape'
  BY DEF FillType, FillShape
<1> QED BY <1>1, <1>2, <1>3

(* fill_spare's spawn fails. *)
LEMMA FillSpawnFailStep ==
    ASSUME IInv, NEW f \in Fillers, FillSpawnFail(f)
    PROVE  IInv'
<1> USE ConstantsAssumption DEF ConstantsAssumption, IInv, TypeOK, FillSpawnFail,
      managerVars, procVars, tabVars, asgVars, loopVars
<1>1. (ManagerType /\ ProcType /\ TabType /\ AsgType /\ LoopType /\ TabShape /\
      Ownership /\ AsgShape /\ LoopShape /\ StoppedApart /\ CountIsExact)'
  BY DEF ManagerType, ProcType, TabType, AsgType, LoopType, TabShape, Ownership,
      AsgShape, LoopShape, StoppedApart, CountIsExact, Counted
<1>2. FillType'
  BY DEF FillType
<1>3. FillShape'
  BY DEF FillType, FillShape
<1>4. YoungApart'
  BY DEF ManagerType, ProcType, TabType, AsgType, LoopType, FillType, YoungApart,
      Unused
<1>5. YoungUnique'
  BY DEF ManagerType, TabType, FillType, TabShape, YoungUnique
<1>6. SiteShape'
  BY DEF ManagerType, ProcType, FillType, SiteShape
<1> QED BY <1>1, <1>2, <1>3, <1>4, <1>5, <1>6

(* fill_spare stores its result. *)
LEMMA FillStoreStep ==
    ASSUME IInv, NEW f \in Fillers, FillStore(f)
    PROVE  IInv'
<1> USE ConstantsAssumption DEF ConstantsAssumption, IInv, TypeOK, FillStore,
      procVars, tabVars, asgVars, loopVars
<1>1. (ProcType /\ TabType /\ AsgType /\ LoopType /\ TabShape /\ Ownership /\
      AsgShape /\ LoopShape /\ StoppedApart /\ CountIsExact)'
  BY DEF ProcType, TabType, AsgType, LoopType, TabShape, Ownership, AsgShape,
      LoopShape, StoppedApart, CountIsExact, Counted
<1>2. ManagerType'
  BY DEF ManagerType, ProcType, TabType, AsgType, LoopType, FillType, TabShape,
      AsgShape, LoopShape, FillShape
<1>3. FillType'
  BY DEF FillType
<1>4. FillShape'
  BY DEF FillType, FillShape
<1>5. YoungApart'
  BY DEF ManagerType, ProcType, TabType, AsgType, LoopType, FillType, YoungApart,
      Unused
<1>6. YoungUnique'
  BY DEF ManagerType, TabType, FillType, TabShape, YoungUnique
<1>7. SiteShape'
  BY DEF ManagerType, ProcType, FillType, SiteShape
<1> QED BY <1>1, <1>2, <1>3, <1>4, <1>5, <1>6, <1>7

(* A renderer dies. *)
LEMMA CrashStep ==
    ASSUME IInv, NEW p \in Procs, Crash(p)
    PROVE  IInv'
<1> USE ConstantsAssumption DEF ConstantsAssumption, IInv, TypeOK, Crash,
      managerVars, tabVars, asgVars, loopVars, fillVars
<1>1. (ManagerType /\ TabType /\ AsgType /\ LoopType /\ FillType /\ TabShape /\
      Ownership /\ AsgShape /\ LoopShape /\ FillShape /\ YoungUnique /\ SiteShape /\
      CountIsExact)'
  BY DEF ManagerType, TabType, AsgType, LoopType, FillType, TabShape, Ownership,
      AsgShape, LoopShape, FillShape, YoungUnique, SiteShape, CountIsExact, Counted
<1>2. ProcType'
  BY DEF ProcType
<1>3. YoungApart'
  BY DEF ManagerType, ProcType, TabType, AsgType, LoopType, FillType, YoungApart,
      Unused
<1>4. StoppedApart'
  BY DEF ManagerType, ProcType, TabType, AsgType, LoopType, StoppedApart, Counted
<1> QED BY <1>1, <1>2, <1>3, <1>4

-----------------------------------------------------------------------------
(* The manager starts in the invariant ... *)
LEMMA InitIInv == Init => IInv
<1> SUFFICES ASSUME Init PROVE IInv
  OBVIOUS
<1> USE ConstantsAssumption DEF ConstantsAssumption, Init
<1>1. ManagerType
  BY DEF ManagerType
<1>2. LoopType /\ orphans \in Nat
  BY DEF LoopType
<1>3. ProcType /\ AsgType
  BY DEF ProcType, AsgType
<1>4. TabType
  BY DEF TabType
<1>5. FillType
  BY DEF FillType
<1>6. TabShape /\ Ownership /\ AsgShape /\ LoopShape /\ SiteShape
  BY DEF TabShape, Ownership, AsgShape, LoopShape, SiteShape
<1>7. FillShape /\ YoungApart /\ YoungUnique
  BY DEF FillShape, YoungApart, YoungUnique
<1>8. \A p \in Procs : Counted(p) = {}
  BY DEF Counted
<1>9. StoppedApart
  BY <1>8 DEF StoppedApart
<1>10. CountIsExact
  BY <1>8, FS_EmptySet DEF CountIsExact
<1> QED BY <1>1, <1>2, <1>3, <1>4, <1>5, <1>6, <1>7, <1>9, <1>10 DEF IInv, TypeOK

(* ... and every step keeps it. *)
LEMMA NextIInv == IInv /\ [Next]_vars => IInv'
<1> SUFFICES ASSUME IInv, [Next]_vars PROVE IInv'
  OBVIOUS
<1>1. ASSUME NEW t \in Tabs, TabStep(t) PROVE IInv'
  BY <1>1, EnsureRendererStep, AcquireSpareStep, AcquireSpawnStep, AcquireReuseStep,
     AcquireExhaustedStep, SpawnOkStep, SpawnFailStep, NotifyOkStep, NotifyErrStep,
     FailReturnStep, DropRendererStep, AbortTabStep DEF TabStep, AcquireReserved
<1>2. ASSUME NEW a \in Asgs, DropStep(a) PROVE IInv'
  BY <1>2, DropCountStep, DropSendStep, DropArcStep DEF DropStep
<1>3. CASE ReleaseStep
  BY <1>3, ReleaseRecvStep, ReleaseKeepStep, ReleaseRetireStep, ReleaseShutdownStep,
     ReleaseDropStep DEF ReleaseStep, ReleaseDecide
<1>4. ASSUME NEW f \in Fillers, FillStep(f) PROVE IInv'
  BY <1>4, FillSkipStep, FillClaimStep, FillSpawnStep, FillNoSlotStep, FillSpawnOkStep,
     FillSpawnFailStep, FillStoreStep DEF FillStep, FillLocked
<1>5. ASSUME NEW p \in Procs, Crash(p) PROVE IInv'
  BY <1>5, CrashStep
<1>6. CASE UNCHANGED vars
  <2> USE <1>6 DEF IInv, vars, managerVars, procVars, tabVars, asgVars, loopVars, fillVars
  <2>1. TypeOK'
    BY DEF TypeOK, ManagerType, ProcType, TabType, AsgType, LoopType, FillType
  <2>2. (TabShape /\ Ownership /\ AsgShape /\ LoopShape /\ FillShape /\ SiteShape)'
    BY DEF TabShape, Ownership, AsgShape, LoopShape, FillShape, SiteShape
  <2>3. (YoungApart /\ YoungUnique)'
    BY DEF YoungApart, YoungUnique, Unused
  <2>4. (StoppedApart /\ CountIsExact)'
    BY DEF StoppedApart, CountIsExact, Counted
  <2> QED BY <2>1, <2>2, <2>3, <2>4
<1> QED BY <1>1, <1>2, <1>3, <1>4, <1>5, <1>6 DEF Next

(* The inductive invariant holds in every reachable state. *)
LEMMA IInvHolds == Spec => []IInv
BY InitIInv, NextIInv, PTL DEF Spec

-----------------------------------------------------------------------------
(* Type correctness of the manager, for any number of tabs, processes,      *)
(* assignments and fill_spare tasks.                                        *)
THEOREM TypeCorrect == Spec => []TypeOK
<1>1. IInv => TypeOK
  BY DEF IInv
<1> QED BY <1>1, IInvHolds, PTL

(* The counter release_loop decides on never disagrees with the number of   *)
(* assignments, whatever reservations and drops interleave.                 *)
THEOREM CountCorrect == Spec => []CountExact
<1>1. IInv => CountExact
  BY DEF IInv, CountIsExact, CountExact, Handles
<1> QED BY <1>1, IInvHolds, PTL

(* "A release that races an acquire ... cannot disagree" (manager.rs): no   *)
(* process the release loop stops hosts an assignment or can be acquired.   *)
THEOREM ShutdownSafe == Spec => []NoShutdownUnderAssignment
<1>1. IInv => NoShutdownUnderAssignment
  BY ConstantsAssumption DEF ConstantsAssumption, IInv, NoShutdownUnderAssignment,
     Retiring, StoppedApart, YoungApart, Unused, LoopShape
<1> QED BY <1>1, IInvHolds, PTL

(* The spare is bound to no site and nobody else refers to it. *)
THEOREM SpareSafe == Spec => []SpareUnlocked
<1>1. IInv => SpareUnlocked
  <2> SUFFICES ASSUME IInv, spare # NoProc PROVE SpareUnlocked
    BY DEF SpareUnlocked
  <2>1. Unused(spare) /\ site[spare] = NoSite
    BY DEF IInv, YoungApart, SiteShape
  <2>2. \A t \in Tabs : hold[t] # spare
    BY <2>1 DEF IInv, TabShape, YoungUnique, Unused, TypeOK, TabType
  <2>3. \A f \in Fillers : fproc[f] # spare
    BY DEF IInv, YoungUnique
  <2> QED BY <2>1, <2>2, <2>3 DEF SpareUnlocked, Unused, Counted
<1> QED BY <1>1, IInvHolds, PTL

(* Site isolation: no renderer hosts documents of two sites, for any number *)
(* of sites and processes, because bind precedes the reservation under one  *)
(* lock and a locked process is only offered in the pool of its own site.   *)
THEOREM SiteSafe == Spec => []SiteLocked
<1>1. IInv => SiteLocked
  BY DEF IInv, SiteLocked, AsgShape, SiteShape
<1> QED BY <1>1, IInvHolds, PTL

-----------------------------------------------------------------------------
(* The spawning_spare flag: a fill_spare task past its claim holds the flag *)
(* alone, and no spare exists until it has stored its own.                  *)
Claimed(f) == fpc[f] \in {"slot", "spawn", "store"}

FlagInv ==
    /\ \A f \in Fillers : Claimed(f) => spawning /\ spare = NoProc
    /\ \A f, g \in Fillers : Claimed(f) /\ Claimed(g) => f = g

(* Every step keeps the flag exclusive and leaves a stored spare in place.  *)
LEMMA FlagStep ==
    IInv /\ FlagInv /\ [Next]_vars =>
        FlagInv' /\ (spare # NoProc => spare' \in {spare, NoProc})
<1> SUFFICES ASSUME IInv, FlagInv, [Next]_vars
             PROVE  FlagInv' /\ (spare # NoProc => spare' \in {spare, NoProc})
  OBVIOUS
<1> DEFINE Goal == FlagInv' /\ (spare # NoProc => spare' \in {spare, NoProc})
<1>t. /\ fpc \in [Fillers -> {"off", "start", "slot", "spawn", "store"}]
      /\ fproc \in [Fillers -> Procs \cup {NoProc}]
      /\ spawning \in BOOLEAN
  BY DEF IInv, TypeOK, ManagerType, FillType
<1>k. ASSUME spare' \in {spare, NoProc}, spawning' = spawning, fpc' = fpc PROVE Goal
  BY <1>k DEF FlagInv, Claimed
<1>n. ASSUME UNCHANGED managerVars, FillSpare PROVE Goal
  BY <1>n, <1>t DEF FillSpare, managerVars, FlagInv, Claimed
<1>1. ASSUME NEW t \in Tabs, TabStep(t) PROVE Goal
  <2>1. CASE AcquireSpare(t)
    BY <2>1, <1>k DEF AcquireSpare, TakeSpare, fillVars
  <2>2. CASE NotifyOk(t)
    BY <2>2, <1>n DEF NotifyOk
  <2>3. ASSUME NEW s \in Sites, EnsureRenderer(t, s) PROVE Goal
    BY <2>3, <1>k DEF EnsureRenderer, managerVars, fillVars
  <2>4. CASE AcquireSpawn(t) \/ AcquireReuse(t) \/ AcquireExhausted(t)
    BY <2>4, <1>k DEF AcquireSpawn, AcquireReuse, AcquireExhausted, fillVars
  <2>5. CASE SpawnOk(t) \/ SpawnFail(t) \/ AbortTab(t)
    BY <2>5, <1>k DEF SpawnOk, SpawnFail, AbortTab, fillVars
  <2>6. CASE NotifyErr(t) \/ FailReturn(t) \/ DropRenderer(t)
    BY <2>6, <1>k DEF NotifyErr, FailReturn, DropRenderer, managerVars, fillVars
  <2> QED BY <1>1, <2>1, <2>2, <2>3, <2>4, <2>5, <2>6 DEF TabStep, AcquireReserved
<1>2. ASSUME NEW a \in Asgs, DropStep(a) PROVE Goal
  BY <1>2, <1>k DEF DropStep, DropCount, DropSend, DropArc, managerVars, fillVars
<1>3. CASE ReleaseStep
  <2>1. CASE ReleaseDrop
    BY <2>1, <1>n DEF ReleaseDrop
  <2>2. CASE ReleaseRecv \/ ReleaseDecide \/ ReleaseShutdown
    BY <2>2, <1>k DEF ReleaseRecv, ReleaseDecide, ReleaseKeep, ReleaseRetire,
       ReleaseShutdown, managerVars, fillVars
  <2> QED BY <1>3, <2>1, <2>2 DEF ReleaseStep
<1>4. ASSUME NEW f \in Fillers, FillStep(f) PROVE Goal
  <2>1. CASE FillSkip(f)
    BY <2>1, <1>t DEF FillSkip, managerVars, FlagInv, Claimed
  <2>2. CASE FillClaim(f)
    BY <2>2, <1>t DEF FillClaim, SpareWanted, FlagInv, Claimed
  <2>3. CASE FillSpawn(f) \/ FillNoSlot(f) \/ FillSpawnOk(f) \/ FillSpawnFail(f)
    BY <2>3, <1>t DEF FillSpawn, FillNoSlot, FillSpawnOk, FillSpawnFail, managerVars,
       FlagInv, Claimed
  <2>4. CASE FillStore(f)
    BY <2>4, <1>t DEF FillStore, FlagInv, Claimed
  <2> QED BY <1>4, <2>1, <2>2, <2>3, <2>4 DEF FillStep, FillLocked
<1>5. ASSUME NEW p \in Procs, Crash(p) PROVE Goal
  BY <1>5, <1>k DEF Crash, managerVars, fillVars
<1>6. CASE UNCHANGED vars
  BY <1>6, <1>k DEF vars, managerVars, fillVars
<1> QED BY <1>1, <1>2, <1>3, <1>4, <1>5, <1>6 DEF Next

(* A spare is only ever consumed, never replaced by a second fill_spare     *)
(* task, however many of them run: check and store are two critical         *)
(* sections, but the flag spans both.                                       *)
THEOREM SpareKept == Spec => SpareNeverReplaced
<1>1. Init => FlagInv
  BY DEF Init, FlagInv, Claimed
<1>2. IInv /\ FlagInv /\ [Next]_vars => FlagInv'
  BY FlagStep
<1>3. IInv /\ FlagInv /\ [Next]_vars =>
        [spare # NoProc => spare' \in {spare, NoProc}]_vars
  BY FlagStep
<1> QED BY <1>1, <1>2, <1>3, IInvHolds, PTL DEF Spec, SpareNeverReplaced

-----------------------------------------------------------------------------
(* What keeps a process from being forgotten: an assignment counts against  *)
(* it, or a notice about it is on its way to release_loop.                  *)
Attended(p) == Counted(p) # {} \/ NoticePending(p)

(* ... or it is too young, or already chosen to be stopped.                 *)
Watched(p) ==
    \/ p = spare
    \/ \E t \in Tabs : tpc[t] = "spawn" /\ hold[t] = p
    \/ \E f \in Fillers : fproc[f] = p
    \/ life[p] = "stopped"
    \/ rproc = p /\ rpc = "shutdown"
    \/ Attended(p)

HandlesWatched == \A p \in Procs : Referenced(p) => Watched(p)
PoolAttended == \A s \in Sites : \A p \in pool[s] : Attended(p)

(* A reservation makes its process attended and disturbs no other. *)
LEMMA ReserveAttends ==
    ASSUME IInv, NEW t \in Tabs, NEW q \in Procs, Reserve(t, q), UNCHANGED loopVars
    PROVE  /\ Attended(q)'
           /\ \A p \in Procs : Attended(p) => Attended(p)'
<1> USE ConstantsAssumption DEF ConstantsAssumption
<1>1. PICK a \in Asgs : aphase[a] = "free" /\ aphase' = [aphase EXCEPT ![a] = "held"]
                        /\ aproc' = [aproc EXCEPT ![a] = q]
  BY DEF Reserve
<1>2. aproc[a] = NoProc /\ aphase'[a] = "held" /\ aproc'[a] = q
  BY <1>1 DEF IInv, AsgShape, TypeOK, AsgType
<1>3. \A b \in Asgs : b # a => aphase'[b] = aphase[b] /\ aproc'[b] = aproc[b]
  BY <1>1 DEF IInv, TypeOK, AsgType
<1>4. a \in Counted(q)'
  BY <1>2 DEF Counted
<1>5. ASSUME NEW p \in Procs, Attended(p) PROVE Attended(p)'
  <2>1. \A b \in Counted(p) : b \in Counted(p)'
    BY <1>1, <1>3 DEF Counted
  <2>2. NoticePending(p) => NoticePending(p)'
    BY <1>1, <1>3 DEF NoticePending, loopVars
  <2> QED BY <1>5, <2>1, <2>2 DEF Attended
<1> QED BY <1>4, <1>5 DEF Attended

(* The first step of a drop leaves its process counted. *)
LEMMA BeginDropAttends ==
    ASSUME TypeOK, NEW S, BeginDrop(S), UNCHANGED loopVars,
           \A a \in S \cap Asgs : aphase[a] = "held"
    PROVE  \A p \in Procs : Attended(p) => Attended(p)'
<1>1. \A p \in Procs : (Counted(p))' = Counted(p)
  BY DEF Counted, BeginDrop, TypeOK, AsgType
<1>2. \A p \in Procs : NoticePending(p) => NoticePending(p)'
  BY DEF NoticePending, BeginDrop, TypeOK, AsgType, loopVars
<1> QED BY <1>1, <1>2 DEF Attended

(* Steps that touch neither assignments nor notices. *)
LEMMA AttendedSame ==
    ASSUME UNCHANGED <<asgVars, loopVars>>
    PROVE  \A p \in Procs : Attended(p)' <=> Attended(p)
BY DEF Attended, NoticePending, Counted, asgVars, loopVars

(* A process that is being spawned, and fails or is given up, has nobody    *)
(* else who refers to it.                                                   *)
LEMMA SpawningAlone ==
    ASSUME IInv, NEW t \in Tabs, tpc[t] = "spawn"
    PROVE  /\ hold[t] # spare /\ hold[t] # rproc
           /\ \A u \in Tabs : u # t => hold[u] # hold[t]
           /\ \A a \in Asgs : aproc[a] # hold[t]
           /\ \A i \in DOMAIN releases : releases[i] # hold[t]
           /\ \A f \in Fillers : fproc[f] # hold[t]
<1> USE ConstantsAssumption DEF ConstantsAssumption
<1>1. Unused(hold[t]) /\ hold[t] \in Procs /\ lock = t
  BY DEF IInv, YoungApart, TabShape
<1>2. \A u \in Tabs : u # t => tpc[u] # "spawn"
  BY <1>1 DEF IInv, TabShape
<1>3. \A u \in Tabs : u # t => hold[u] # hold[t]
  BY <1>1, <1>2 DEF IInv, TabShape, Unused, TypeOK, TabType
<1> QED BY <1>1, <1>3 DEF Unused, IInv, YoungUnique

(* The same for the process of a fill_spare task. *)
LEMMA FillingAlone ==
    ASSUME IInv, NEW f \in Fillers, fproc[f] # NoProc
    PROVE  /\ fproc[f] # spare /\ fproc[f] # rproc
           /\ \A t \in Tabs : hold[t] # fproc[f]
           /\ \A a \in Asgs : aproc[a] # fproc[f]
           /\ \A i \in DOMAIN releases : releases[i] # fproc[f]
           /\ \A g \in Fillers : g # f => fproc[g] # fproc[f]
<1>1. Unused(fproc[f])
  BY DEF IInv, YoungApart
<1>2. \A t \in Tabs : hold[t] # fproc[f]
  BY <1>1 DEF IInv, TabShape, Unused, TypeOK, TabType, YoungUnique
<1> QED BY <1>1, <1>2 DEF Unused, IInv, YoungUnique

(* No step of a tab strands a process. *)
LEMMA TabWatched ==
    ASSUME IInv, IInv', HandlesWatched, PoolAttended, NEW t \in Tabs, TabStep(t)
    PROVE  HandlesWatched' /\ PoolAttended'
<1> USE ConstantsAssumption DEF ConstantsAssumption
<1> DEFINE Goal == HandlesWatched' /\ PoolAttended'
<1>t. TypeOK /\ TypeOK'
  BY DEF IInv
<1>1. ASSUME NEW s \in Sites, EnsureRenderer(t, s) PROVE Goal
  <2> USE <1>1, <1>t DEF EnsureRenderer, managerVars, procVars, fillVars
  <2>1. \A p \in Procs : Attended(p)' <=> Attended(p)
    BY AttendedSame
  <2>2. PoolAttended'
    BY <2>1 DEF PoolAttended, TypeOK, ManagerType
  <2>3. HandlesWatched'
    BY <2>1 DEF HandlesWatched, Watched, Referenced, TypeOK, TabType, asgVars, loopVars
  <2> QED BY <2>2, <2>3
<1>2. CASE AcquireSpare(t)
  <2> USE <1>2, <1>t DEF AcquireSpare, TakeSpare
  <2>1. PICK q \in Procs : q = spare
    BY DEF TypeOK, ManagerType
  <2>2. Attended(q)' /\ \A p \in Procs : Attended(p) => Attended(p)'
    BY <2>1, ReserveAttends
  <2>3. PoolAttended'
    BY <2>1, <2>2 DEF PoolAttended, TypeOK, ManagerType
  <2>4. \A p \in Procs : Referenced(p)' => Referenced(p)
    BY DEF Referenced, Reserve, TypeOK, TabType, AsgType, loopVars, fillVars
  <2>5. ASSUME NEW p \in Procs, p # spare, Watched(p) PROVE Watched(p)'
    <3>1. ASSUME NEW u \in Tabs, tpc[u] = "spawn", hold[u] = p
          PROVE  tpc'[u] = "spawn" /\ hold'[u] = p
      BY <3>1 DEF Reserve, TypeOK, TabType
    <3> QED BY <2>2, <2>5, <3>1 DEF Watched, loopVars, fillVars
  <2>6. HandlesWatched'
    BY <2>1, <2>2, <2>4, <2>5 DEF HandlesWatched, Watched
  <2> QED BY <2>3, <2>6
<1>3. CASE AcquireSpawn(t)
  <2> USE <1>3, <1>t DEF AcquireSpawn
  <2>1. PICK q \in Procs : StartSpawn(q, want[t]) /\ hold' = [hold EXCEPT ![t] = q]
    OBVIOUS
  <2>2. \A p \in Procs : Attended(p)' <=> Attended(p)
    BY AttendedSame
  <2>3. PoolAttended'
    BY <2>1, <2>2 DEF PoolAttended, StartSpawn, TypeOK, ManagerType
  <2>4. tpc'[t] = "spawn" /\ hold'[t] = q
    BY <2>1 DEF TypeOK, TabType
  <2>5. Watched(q)'
    BY <2>4 DEF Watched
  <2>6. ASSUME NEW p \in Procs, p # q, Referenced(p)' PROVE Watched(p)'
    <3>1. Referenced(p)
      BY <2>1, <2>4, <2>6 DEF Referenced, TypeOK, TabType, asgVars, loopVars, fillVars
    <3>2. Watched(p) /\ hold[t] = NoProc
      BY <3>1 DEF HandlesWatched, IInv, TabShape
    <3>3. ASSUME NEW u \in Tabs, tpc[u] = "spawn", hold[u] = p
          PROVE  tpc'[u] = "spawn" /\ hold'[u] = p
      BY <2>1, <3>2, <3>3 DEF TypeOK, TabType
    <3>4. life'[p] = life[p]
      BY <2>1, <2>6 DEF StartSpawn, TypeOK, ProcType
    <3> QED BY <2>2, <3>2, <3>3, <3>4 DEF Watched, loopVars, fillVars
  <2> QED BY <2>3, <2>5, <2>6 DEF HandlesWatched
<1>4. CASE AcquireReuse(t)
  <2> USE <1>4, <1>t DEF AcquireReuse
  <2>1. PICK q \in Usable(want[t]) : Reserve(t, q)
    OBVIOUS
  <2>2. q \in Procs /\ Referenced(q)
    BY <2>1 DEF Usable, Handles
  <2>3. Attended(q)' /\ \A p \in Procs : Attended(p) => Attended(p)'
    BY <2>1, <2>2, ReserveAttends
  <2>4. PoolAttended'
    BY <2>3 DEF PoolAttended, Usable, TypeOK, ManagerType
  <2>5. \A p \in Procs : Referenced(p)' => Referenced(p)
    BY <2>1, <2>2 DEF Referenced, Reserve, TypeOK, TabType, AsgType, loopVars, fillVars
  <2>6. ASSUME NEW p \in Procs, Watched(p) PROVE Watched(p)'
    <3>1. ASSUME NEW u \in Tabs, tpc[u] = "spawn", hold[u] = p
          PROVE  tpc'[u] = "spawn" /\ hold'[u] = p
      BY <2>1, <3>1 DEF Reserve, TypeOK, TabType
    <3> QED BY <2>3, <2>6, <3>1 DEF Watched, loopVars, fillVars
  <2> QED BY <2>4, <2>5, <2>6 DEF HandlesWatched
<1>5. CASE AcquireExhausted(t)
  <2> USE <1>5, <1>t DEF AcquireExhausted, procVars, fillVars
  <2>1. \A p \in Procs : Attended(p)' <=> Attended(p)
    BY AttendedSame
  <2>2. PoolAttended'
    BY <2>1 DEF PoolAttended, TypeOK, ManagerType
  <2>3. HandlesWatched'
    BY <2>1 DEF HandlesWatched, Watched, Referenced, TypeOK, TabType, asgVars, loopVars
  <2> QED BY <2>2, <2>3
<1>6. CASE SpawnOk(t)
  <2> USE <1>6, <1>t DEF SpawnOk
  <2>1. PICK q \in Procs : q = hold[t]
    BY DEF IInv, TabShape
  <2>2. Attended(q)' /\ \A p \in Procs : Attended(p) => Attended(p)'
    BY <2>1, ReserveAttends
  <2>3. PoolAttended'
    BY <2>1, <2>2 DEF PoolAttended, TypeOK, ManagerType
  <2>4. \A p \in Procs : Referenced(p)' => Referenced(p)
    BY <2>1 DEF Referenced, Reserve, TypeOK, TabType, AsgType, loopVars, fillVars
  <2>5. ASSUME NEW p \in Procs, p # hold[t], Watched(p) PROVE Watched(p)'
    <3>1. ASSUME NEW u \in Tabs, tpc[u] = "spawn", hold[u] = p
          PROVE  tpc'[u] = "spawn" /\ hold'[u] = p
      BY <2>5, <3>1 DEF Reserve, TypeOK, TabType
    <3> QED BY <2>2, <2>5, <3>1 DEF Watched, loopVars, fillVars
  <2>6. HandlesWatched'
    BY <2>1, <2>2, <2>4, <2>5 DEF HandlesWatched, Watched
  <2> QED BY <2>3, <2>6
<1>7. CASE SpawnFail(t)
  <2> USE <1>7, <1>t DEF SpawnFail, procVars, fillVars
  <2>1. \A p \in Procs : Attended(p)' <=> Attended(p)
    BY AttendedSame
  <2>2. PoolAttended'
    BY <2>1 DEF PoolAttended, TypeOK, ManagerType
  <2>3. ASSUME NEW p \in Procs, Referenced(p)' PROVE Watched(p)'
    <3>1. p # hold[t]
      BY <2>3, SpawningAlone DEF Referenced, TypeOK, TabType, asgVars, loopVars
    <3>2. Watched(p)
      BY <2>3 DEF HandlesWatched, Referenced, TypeOK, TabType, asgVars, loopVars
    <3>3. ASSUME NEW u \in Tabs, tpc[u] = "spawn", hold[u] = p
          PROVE  tpc'[u] = "spawn" /\ hold'[u] = p
      BY <3>1, <3>3 DEF TypeOK, TabType
    <3> QED BY <2>1, <3>2, <3>3 DEF Watched, loopVars
  <2> QED BY <2>2, <2>3 DEF HandlesWatched
<1>8. CASE NotifyOk(t)
  <2> USE <1>8, <1>t DEF NotifyOk, managerVars, procVars
  <2>1. \A p \in Procs : Attended(p) => Attended(p)'
    BY BeginDropAttends DEF IInv, Ownership
  <2>2. PoolAttended'
    BY <2>1 DEF PoolAttended, TypeOK, ManagerType
  <2>3. \A p \in Procs : Referenced(p)' => Referenced(p)
    BY DEF Referenced, BeginDrop, FillSpare, TypeOK, TabType, loopVars
  <2>4. ASSUME NEW p \in Procs, Watched(p) PROVE Watched(p)'
    <3>1. ASSUME NEW u \in Tabs, tpc[u] = "spawn", hold[u] = p
          PROVE  tpc'[u] = "spawn" /\ hold'[u] = p
      BY <3>1 DEF TypeOK, TabType
    <3> QED BY <2>1, <2>4, <3>1 DEF Watched, loopVars, FillSpare
  <2> QED BY <2>2, <2>3, <2>4 DEF HandlesWatched
<1>9. CASE NotifyErr(t)
  <2> USE <1>9, <1>t DEF NotifyErr, managerVars, procVars, fillVars
  <2>1. \A p \in Procs : Attended(p) => Attended(p)'
    BY BeginDropAttends DEF IInv, Ownership
  <2>2. PoolAttended'
    BY <2>1 DEF PoolAttended, TypeOK, ManagerType
  <2>3. HandlesWatched'
    BY <2>1 DEF HandlesWatched, Watched, Referenced, BeginDrop, TypeOK, TabType, loopVars
  <2> QED BY <2>2, <2>3
<1>10. CASE FailReturn(t)
  <2> USE <1>10, <1>t DEF FailReturn, managerVars, procVars, fillVars
  <2>1. \A p \in Procs : Attended(p)' <=> Attended(p)
    BY AttendedSame
  <2>2. PoolAttended'
    BY <2>1 DEF PoolAttended, TypeOK, ManagerType
  <2>3. HandlesWatched'
    BY <2>1 DEF HandlesWatched, Watched, Referenced, TypeOK, TabType, asgVars, loopVars
  <2> QED BY <2>2, <2>3
<1>11. CASE DropRenderer(t)
  <2> USE <1>11, <1>t DEF DropRenderer, managerVars, procVars, fillVars
  <2>1. \A p \in Procs : Attended(p) => Attended(p)'
    BY BeginDropAttends DEF IInv, Ownership
  <2>2. PoolAttended'
    BY <2>1 DEF PoolAttended, TypeOK, ManagerType
  <2>3. HandlesWatched'
    BY <2>1 DEF HandlesWatched, Watched, Referenced, BeginDrop, loopVars
  <2> QED BY <2>2, <2>3
<1>12. CASE AbortTab(t)
  <2> USE <1>12, <1>t DEF AbortTab, procVars, fillVars
  <2>1. \A p \in Procs : Attended(p) => Attended(p)'
    BY BeginDropAttends DEF IInv, Ownership
  <2>2. PoolAttended'
    BY <2>1 DEF PoolAttended, TypeOK, ManagerType
  <2>3. ASSUME NEW p \in Procs, Referenced(p)' PROVE Watched(p)'
    <3>1. tpc[t] = "spawn" => p # hold[t]
      BY <2>3, SpawningAlone DEF Referenced, BeginDrop, TypeOK, TabType, loopVars
    <3>2. Watched(p)
      BY <2>3 DEF HandlesWatched, Referenced, BeginDrop, TypeOK, TabType, loopVars
    <3>3. ASSUME NEW u \in Tabs, tpc[u] = "spawn", hold[u] = p
          PROVE  tpc'[u] = "spawn" /\ hold'[u] = p
      BY <3>1, <3>3 DEF TypeOK, TabType
    <3> QED BY <2>1, <3>2, <3>3 DEF Watched, loopVars
  <2> QED BY <2>2, <2>3 DEF HandlesWatched
<1> QED BY <1>1, <1>2, <1>3, <1>4, <1>5, <1>6, <1>7, <1>8, <1>9, <1>10, <1>11, <1>12
     DEF TabStep, AcquireReserved

(* No step of an assignment's drop strands its process: it counts, or the   *)
(* notice is still to be sent, or is in the channel.                        *)
LEMMA DropWatched ==
    ASSUME IInv, HandlesWatched, PoolAttended, NEW a \in Asgs, DropStep(a)
    PROVE  HandlesWatched' /\ PoolAttended'
<1> USE ConstantsAssumption DEF ConstantsAssumption
<1>t. TypeOK
  BY DEF IInv
<1>1. \A p \in Procs : Attended(p) => Attended(p)'
  <2>1. CASE DropCount(a)
    BY <2>1, <1>t DEF DropCount, Attended, Counted, NoticePending, TypeOK, AsgType, loopVars
  <2>2. CASE DropSend(a)
    <3>1. /\ \A i \in DOMAIN releases : i \in DOMAIN releases' /\ releases'[i] = releases[i]
          /\ Len(releases) + 1 \in DOMAIN releases' /\ releases'[Len(releases) + 1] = aproc[a]
      BY <2>2, <1>t DEF DropSend, TypeOK, LoopType
    <3>2. \A p \in Procs : (Counted(p))' = Counted(p)
      BY <2>2, <1>t DEF DropSend, Counted, TypeOK, AsgType
    <3>3. \A p \in Procs : NoticePending(p) => NoticePending(p)'
      <4> SUFFICES ASSUME NEW p \in Procs, NoticePending(p) PROVE NoticePending(p)'
        OBVIOUS
      <4>1. CASE \E b \in Asgs : aproc[b] = p /\ aphase[b] = "uncounted"
        BY <4>1, <2>2, <3>1, <1>t DEF DropSend, NoticePending, TypeOK, AsgType
      <4>2. CASE \E i \in DOMAIN releases : releases[i] = p
        BY <4>2, <3>1 DEF NoticePending
      <4>3. CASE rproc = p /\ rpc = "decide"
        BY <4>3, <2>2 DEF DropSend, NoticePending
      <4> QED BY <4>1, <4>2, <4>3 DEF NoticePending
    <3> QED BY <3>2, <3>3 DEF Attended
  <2>3. CASE DropArc(a)
    BY <2>3, <1>t DEF DropArc, Attended, Counted, NoticePending, TypeOK, AsgType, loopVars
  <2> QED BY <2>1, <2>2, <2>3 DEF DropStep
<1>2. UNCHANGED <<managerVars, life, tabVars, rpc, rproc, fillVars>>
  BY DEF DropStep, DropCount, DropSend, DropArc, procVars, loopVars
<1>3. PoolAttended'
  BY <1>1, <1>2, <1>t DEF PoolAttended, managerVars, TypeOK, ManagerType
<1>4. \A p \in Procs : Watched(p) => Watched(p)'
  BY <1>1, <1>2 DEF Watched, managerVars, tabVars, fillVars
<1>5. ASSUME NEW p \in Procs, Referenced(p)' PROVE Referenced(p)
  <2>1. CASE DropCount(a)
    BY <1>5, <2>1 DEF DropCount, Referenced, managerVars, tabVars, loopVars, fillVars
  <2>2. CASE DropSend(a)
    <3>1. ASSUME NEW i \in DOMAIN releases', releases'[i] = p PROVE Referenced(p)
      BY <2>2, <3>1, <1>t DEF DropSend, Referenced, TypeOK, LoopType
    <3> QED BY <1>5, <2>2, <3>1 DEF DropSend, Referenced, managerVars, tabVars, fillVars
  <2>3. CASE DropArc(a)
    BY <1>5, <2>3, <1>t DEF DropArc, Referenced, managerVars, tabVars, loopVars, fillVars, TypeOK, AsgType
  <2> QED BY <2>1, <2>2, <2>3 DEF DropStep
<1> QED BY <1>3, <1>4, <1>5 DEF HandlesWatched

(* release_loop decides on a process only when it has no assignment left,   *)
(* and then takes it out of every pool that lists it.                       *)
LEMMA ReleaseWatched ==
    ASSUME IInv, HandlesWatched, PoolAttended, ReleaseStep
    PROVE  HandlesWatched' /\ PoolAttended'
<1> USE ConstantsAssumption DEF ConstantsAssumption
<1> DEFINE Goal == HandlesWatched' /\ PoolAttended'
<1>t. TypeOK
  BY DEF IInv
<1>1. CASE ReleaseRecv
  <2> USE <1>1, <1>t DEF ReleaseRecv, managerVars, procVars, tabVars, asgVars, fillVars
  <2>1. /\ rproc = NoProc /\ Head(releases) \in Procs /\ Head(releases) = releases[1]
        /\ 1 \in DOMAIN releases
    BY DEF IInv, LoopShape, TypeOK, LoopType
  <2>2. \A i \in DOMAIN releases : i = 1 \/ (i - 1 \in DOMAIN releases' /\ releases'[i - 1] = releases[i])
    BY DEF TypeOK, LoopType
  <2>3. \A i \in DOMAIN releases' : i + 1 \in DOMAIN releases /\ releases'[i] = releases[i + 1]
    BY DEF TypeOK, LoopType
  <2>4. \A p \in Procs : NoticePending(p) => NoticePending(p)'
    <3> SUFFICES ASSUME NEW p \in Procs, NoticePending(p) PROVE NoticePending(p)'
      OBVIOUS
    <3>1. CASE \E i \in DOMAIN releases : releases[i] = p
      BY <3>1, <2>1, <2>2 DEF NoticePending
    <3> QED BY <3>1, <2>1 DEF NoticePending
  <2>5. \A p \in Procs : Attended(p) => Attended(p)'
    BY <2>4 DEF Attended, Counted
  <2>6. PoolAttended'
    BY <2>5 DEF PoolAttended, TypeOK, ManagerType
  <2>7. \A p \in Procs : Referenced(p)' => Referenced(p)
    BY <2>1, <2>3 DEF Referenced
  <2>8. \A p \in Procs : Watched(p) => Watched(p)'
    BY <2>1, <2>5 DEF Watched
  <2> QED BY <2>6, <2>7, <2>8 DEF HandlesWatched
<1>2. CASE ReleaseKeep
  <2> USE <1>2, <1>t DEF ReleaseKeep, managerVars, procVars, tabVars, asgVars, fillVars
  <2>1. PICK q \in Procs : q = rproc
    BY DEF IInv, LoopShape
  <2>2. Counted(q) # {}
    BY <2>1, FS_EmptySet DEF IInv, CountIsExact
  <2>3. \A p \in Procs : Attended(p) => Attended(p)'
    BY <2>1, <2>2 DEF Attended, Counted, NoticePending
  <2>4. PoolAttended'
    BY <2>3 DEF PoolAttended, TypeOK, ManagerType
  <2>5. HandlesWatched'
    BY <2>3 DEF HandlesWatched, Watched, Referenced
  <2> QED BY <2>4, <2>5
<1>3. CASE ReleaseRetire
  <2> USE <1>3, <1>t DEF ReleaseRetire, procVars, tabVars, asgVars, fillVars
  <2>1. rproc \in Procs /\ rsite = site[rproc]
    BY DEF IInv, LoopShape
  <2>2. \A p \in Procs : p # rproc => (Attended(p) => Attended(p)')
    BY DEF Attended, Counted, NoticePending
  <2>3. \A s \in Sites : pool'[s] \subseteq pool[s] /\ rproc \notin pool'[s]
    BY <2>1 DEF LeavePool, IInv, SiteShape, TypeOK, ManagerType
  <2>4. PoolAttended'
    BY <2>2, <2>3 DEF PoolAttended, TypeOK, ManagerType
  <2>5. HandlesWatched'
    BY <2>2 DEF HandlesWatched, Watched, Referenced
  <2> QED BY <2>4, <2>5
<1>4. CASE ReleaseShutdown
  <2> USE <1>4, <1>t DEF ReleaseShutdown, managerVars, tabVars, asgVars, fillVars
  <2>1. rproc \in Procs /\ life'[rproc] = "stopped"
    BY DEF IInv, LoopShape, TypeOK, ProcType
  <2>2. \A p \in Procs : Attended(p) => Attended(p)'
    BY DEF Attended, Counted, NoticePending
  <2>3. PoolAttended'
    BY <2>2 DEF PoolAttended, TypeOK, ManagerType
  <2>4. \A p \in Procs : life[p] = "stopped" => life'[p] = "stopped"
    BY DEF TypeOK, ProcType
  <2>5. HandlesWatched'
    BY <2>1, <2>2, <2>4 DEF HandlesWatched, Watched, Referenced
  <2> QED BY <2>3, <2>5
<1>5. CASE ReleaseDrop
  <2> USE <1>5, <1>t DEF ReleaseDrop, managerVars, procVars, tabVars, asgVars, FillSpare
  <2>1. \A p \in Procs : Attended(p) => Attended(p)'
    BY DEF Attended, Counted, NoticePending
  <2>2. PoolAttended'
    BY <2>1 DEF PoolAttended, TypeOK, ManagerType
  <2>3. HandlesWatched'
    BY <2>1 DEF HandlesWatched, Watched, Referenced
  <2> QED BY <2>2, <2>3
<1> QED BY <1>1, <1>2, <1>3, <1>4, <1>5 DEF ReleaseStep, ReleaseDecide

(* No step of a fill_spare task strands a process: the one it gives up has  *)
(* no other holder, the one it stores is the spare.                         *)
LEMMA FillWatched ==
    ASSUME IInv, HandlesWatched, PoolAttended, NEW f \in Fillers, FillStep(f)
    PROVE  HandlesWatched' /\ PoolAttended'
<1> USE ConstantsAssumption DEF ConstantsAssumption
<1> DEFINE Goal == HandlesWatched' /\ PoolAttended'
<1>t. TypeOK
  BY DEF IInv
<1>a. \A p \in Procs : Attended(p)' <=> Attended(p)
  <2>1. UNCHANGED <<asgVars, loopVars>>
    BY DEF FillStep, FillLocked, FillSkip, FillClaim, FillStore, FillSpawn, FillNoSlot,
       FillSpawnOk, FillSpawnFail
  <2> QED BY <2>1, AttendedSame
<1>1. CASE FillSkip(f) \/ FillClaim(f) \/ FillNoSlot(f) \/ FillSpawnOk(f)
  <2> USE <1>1, <1>t DEF FillSkip, FillClaim, FillNoSlot, FillSpawnOk, managerVars, procVars,
        tabVars, asgVars, loopVars
  <2>1. PoolAttended'
    BY <1>a DEF PoolAttended, TypeOK, ManagerType
  <2>2. HandlesWatched'
    BY <1>a DEF HandlesWatched, Watched, Referenced
  <2> QED BY <2>1, <2>2
<1>2. CASE FillSpawn(f)
  <2> USE <1>2, <1>t DEF FillSpawn, tabVars, asgVars, loopVars
  <2>1. PICK q \in Procs : StartSpawn(q, NoSite) /\ fproc' = [fproc EXCEPT ![f] = q]
    OBVIOUS
  <2>2. PoolAttended'
    BY <1>a, <2>1 DEF PoolAttended, StartSpawn, TypeOK, ManagerType
  <2>3. fproc'[f] = q /\ fproc[f] = NoProc
    BY <2>1 DEF IInv, FillShape, TypeOK, FillType
  <2>4. ASSUME NEW p \in Procs, p # q, Referenced(p)' PROVE Watched(p)'
    <3>1. Watched(p)
      BY <2>1, <2>3, <2>4 DEF HandlesWatched, Referenced, TypeOK, FillType
    <3>2. ASSUME NEW g \in Fillers, fproc[g] = p PROVE fproc'[g] = p
      BY <2>1, <2>3, <3>2 DEF TypeOK, FillType
    <3>3. life'[p] = life[p]
      BY <2>1, <2>4 DEF StartSpawn, TypeOK, ProcType
    <3> QED BY <1>a, <3>1, <3>2, <3>3 DEF Watched
  <2> QED BY <2>2, <2>3, <2>4 DEF HandlesWatched, Watched
<1>3. CASE FillSpawnFail(f)
  <2> USE <1>3, <1>t DEF FillSpawnFail, managerVars, procVars, tabVars, asgVars, loopVars
  <2>1. PoolAttended'
    BY <1>a DEF PoolAttended, TypeOK, ManagerType
  <2>2. fproc[f] # NoProc
    BY DEF IInv, FillShape
  <2>3. ASSUME NEW p \in Procs, Referenced(p)' PROVE Watched(p)'
    <3>1. p # fproc[f]
      BY <2>2, <2>3, FillingAlone DEF Referenced, TypeOK, FillType
    <3>2. Watched(p)
      BY <2>3 DEF HandlesWatched, Referenced, TypeOK, FillType
    <3>3. ASSUME NEW g \in Fillers, fproc[g] = p PROVE fproc'[g] = p
      BY <3>1, <3>3 DEF TypeOK, FillType
    <3> QED BY <1>a, <3>2, <3>3 DEF Watched
  <2> QED BY <2>1, <2>3 DEF HandlesWatched
<1>4. CASE FillStore(f)
  <2> USE <1>4, <1>t DEF FillStore, procVars, tabVars, asgVars, loopVars
  <2>1. PoolAttended'
    BY <1>a DEF PoolAttended, TypeOK, ManagerType
  <2>2. ASSUME NEW p \in Procs, Referenced(p)' PROVE Watched(p)'
    <3>1. CASE p = spare'
      BY <3>1 DEF Watched
    <3>2. CASE p # spare'
      <4>1. p # fproc[f]
        BY <3>2 DEF TypeOK, ManagerType
      <4>2. Referenced(p)
        BY <2>2, <3>2 DEF Referenced, TypeOK, FillType
      <4>3. p # spare
        <5>1. CASE fproc[f] # NoProc
          <6>1. ASSUME p = spare PROVE FALSE
            <7>1. Unused(p) /\ \A t \in Tabs : tpc[t] = "spawn" => hold[t] # p
              BY <6>1 DEF IInv, YoungApart, YoungUnique
            <7>2. \A t \in Tabs : hold[t] # p
              BY <7>1 DEF IInv, TabShape, Unused, TypeOK, TabType
            <7>3. \A g \in Fillers : fproc[g] # p
              BY <6>1 DEF IInv, YoungUnique
            <7> QED BY <2>2, <3>2, <4>1, <7>1, <7>2, <7>3 DEF Referenced, Unused, TypeOK, FillType
          <6> QED BY <6>1
        <5>2. CASE fproc[f] = NoProc
          BY <3>2, <5>2
        <5> QED BY <5>1, <5>2
      <4>4. ASSUME NEW g \in Fillers, fproc[g] = p PROVE fproc'[g] = p
        BY <4>1, <4>4 DEF TypeOK, FillType
      <4>5. Watched(p)
        BY <4>2 DEF HandlesWatched
      <4> QED BY <1>a, <4>3, <4>4, <4>5 DEF Watched
    <3> QED BY <3>1, <3>2
  <2> QED BY <2>1, <2>2 DEF HandlesWatched
<1> QED BY <1>1, <1>2, <1>3, <1>4 DEF FillStep, FillLocked

(* Every step keeps every process watched and every pool attended. *)
LEMMA WatchedStep ==
    IInv /\ IInv' /\ HandlesWatched /\ PoolAttended /\ [Next]_vars => HandlesWatched' /\ PoolAttended'
<1> SUFFICES ASSUME IInv, IInv', HandlesWatched, PoolAttended, [Next]_vars
             PROVE  HandlesWatched' /\ PoolAttended'
  OBVIOUS
<1>1. ASSUME NEW t \in Tabs, TabStep(t) PROVE HandlesWatched' /\ PoolAttended'
  BY <1>1, TabWatched
<1>2. ASSUME NEW a \in Asgs, DropStep(a) PROVE HandlesWatched' /\ PoolAttended'
  BY <1>2, DropWatched
<1>3. CASE ReleaseStep
  BY <1>3, ReleaseWatched
<1>4. ASSUME NEW f \in Fillers, FillStep(f) PROVE HandlesWatched' /\ PoolAttended'
  BY <1>4, FillWatched
<1>5. ASSUME NEW p \in Procs, Crash(p) PROVE HandlesWatched' /\ PoolAttended'
  <2> USE <1>5 DEF Crash, managerVars, tabVars, fillVars
  <2>1. \A q \in Procs : Attended(q)' <=> Attended(q)
    BY AttendedSame
  <2>2. PoolAttended'
    BY <2>1 DEF PoolAttended, IInv, TypeOK, ManagerType
  <2>3. \A q \in Procs : life[q] = "stopped" => life'[q] = "stopped"
    BY DEF IInv, TypeOK, ProcType
  <2>4. HandlesWatched'
    BY <2>1, <2>3 DEF HandlesWatched, Watched, Referenced, asgVars, loopVars
  <2> QED BY <2>2, <2>4
<1>6. CASE UNCHANGED vars
  <2>1. \A q \in Procs : Attended(q)' <=> Attended(q)
    BY <1>6, AttendedSame DEF vars
  <2>2. PoolAttended'
    BY <1>6, <2>1 DEF PoolAttended, IInv, TypeOK, ManagerType, vars, managerVars
  <2>3. HandlesWatched'
    BY <1>6, <2>1 DEF HandlesWatched, Watched, Referenced, vars, managerVars, procVars,
       tabVars, asgVars, loopVars, fillVars
  <2> QED BY <2>2, <2>3
<1> QED BY <1>1, <1>2, <1>3, <1>4, <1>5, <1>6 DEF Next

(* No renderer is stranded: a process that hosts nothing is young, is being *)
(* stopped, or has a notice on its way to release_loop, whichever order     *)
(* reservations, drops and decisions come in; and no pool lists a process   *)
(* whose handle is gone.                                                    *)
THEOREM NobodyStranded == Spec => []NoStrandedProcess
<1>1. Init => HandlesWatched /\ PoolAttended
  BY ConstantsAssumption DEF ConstantsAssumption, Init, HandlesWatched, Watched, PoolAttended
<1>2. IInv /\ HandlesWatched /\ PoolAttended => NoStrandedProcess
  <2> SUFFICES ASSUME IInv, HandlesWatched, PoolAttended PROVE NoStrandedProcess
    OBVIOUS
  <2>1. \A p \in Handles : Counted(p) = {} =>
            p = spare \/ BeingSpawned(p) \/ (\E f \in Fillers : fproc[f] = p)
              \/ Retiring(p) \/ NoticePending(p)
    BY DEF HandlesWatched, Watched, Attended, Handles, Retiring, BeingSpawned
  <2>2. ASSUME NEW s \in Sites, NEW p \in pool[s] PROVE p \in Handles
    <3>1. p \in Procs /\ Attended(p)
      BY DEF PoolAttended, IInv, TypeOK, ManagerType
    <3>2. Referenced(p)
      BY <3>1 DEF Attended, Counted, NoticePending, Referenced
    <3> QED BY <3>1, <3>2 DEF Handles
  <2> QED BY <2>1, <2>2 DEF NoStrandedProcess
<1> QED BY <1>1, <1>2, IInvHolds, WatchedStep, PTL DEF Spec

(* The manager's books are right in every reachable state. *)
THEOREM ManagerIsSafe == Spec => []ManagerSafe
BY TypeCorrect, CountCorrect, SiteSafe, SpareSafe, PTL DEF ManagerSafe

=============================================================================
