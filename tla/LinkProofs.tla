----------------------------- MODULE LinkProofs -----------------------------
(***************************************************************************)
(* The two ends of a renderer's link.  First the safety invariants of       *)
(* AssignmentRegistry, for every number of ids and every set of dial        *)
(* workers; then those of RendererChild, for every set of calls, every      *)
(* capacity and every number of events.                                     *)
(*                                                                         *)
(* The argument for the waiters: an entry enters the map before the closed  *)
(* flag is read, and the flag is raised before the map is drained.  So a    *)
(* call that read the flag as down is either still in the map, and the      *)
(* drain has not happened, or has its answer.                               *)
(***************************************************************************)
EXTENDS AssignmentRegistry, RendererChild, TLAPS

(***************************************************************************)
(* The assignment registry of the browser.                                  *)
(***************************************************************************)

(* Ids that were not handed out yet are nowhere. *)
FreshInv ==
    \A id \in AsgIds : id >= nextId => id \notin live /\ id \notin owned /\ drop[id] = "none"

(* Drop has begun for an id that was handed out exactly when no Arc of it   *)
(* is left, and an id somebody holds is in the map.                         *)
HeldInv ==
    \A id \in AsgIds : id < nextId =>
        /\ drop[id] = "none" <=> Referenced(id)
        /\ Referenced(id) => id \in live

(* The service task works on an id that was handed out; once it goes to the *)
(* mark nobody holds that id any more.                                      *)
ServiceInv ==
    /\ spc # "idle" => sid \in AsgIds /\ sid < nextId
    /\ spc \in {"note", "check"} => drop[sid] # "none"

(* A worker that was started works on an id that was handed out, and only a *)
(* worker whose dial has ended has a stream.                                *)
WorkerInv ==
    /\ \A w \in Workers : workerAt[w] # "off" => wid[w] \in AsgIds /\ wid[w] < nextId
    /\ \A w \in streams : workerAt[w] \in {"recheck", "note", "cancel", "done"}

(* An id whose Drop has noted it is marked. *)
MarkInv == \A id \in AsgIds : drop[id] \in {"streams", "unlist", "done"} => WasReleased(id)

RegistryInv ==
    /\ RegistryTypeOK
    /\ FreshInv
    /\ HeldInv
    /\ ServiceInv
    /\ WorkerInv
    /\ MarkInv
    /\ UnlistedIsMarked
    /\ NoStreamLeak

-----------------------------------------------------------------------------
(* The registry of a new context: nothing was handed out. *)
LEMMA RegistryInitial == RegistryInit => RegistryInv
BY RegistryAssumption
   DEF RegistryInit, RegistryInv, RegistryTypeOK, FreshInv, HeldInv, ServiceInv, WorkerInv, MarkInv,
       UnlistedIsMarked, NoStreamLeak, AsgIds, Referenced, WasReleased

(* Every step of a tab, the service task, a dial worker or a Drop keeps the *)
(* invariant.                                                               *)
LEMMA RegistryStep == RegistryInv /\ [RegistryNext]_registryVars => RegistryInv'
<1> SUFFICES ASSUME RegistryInv, [RegistryNext]_registryVars PROVE RegistryInv'
    OBVIOUS
<1> USE RegistryAssumption
<1>1. CASE ReserveId
    BY <1>1 DEF ReserveId,
       RegistryInv, RegistryTypeOK, FreshInv, HeldInv, ServiceInv, WorkerInv, MarkInv,
       UnlistedIsMarked, NoStreamLeak, Referenced, WasReleased, AsgIds
<1>2. ASSUME NEW id \in AsgIds, OwnerDrop(id) PROVE RegistryInv'
    BY <1>2 DEF OwnerDrop, BeginDrop,
       RegistryInv, RegistryTypeOK, FreshInv, HeldInv, ServiceInv, WorkerInv, MarkInv,
       UnlistedIsMarked, NoStreamLeak, Referenced, WasReleased, AsgIds
<1>3. ASSUME NEW id \in AsgIds, ReceiveCall(id) PROVE RegistryInv'
    BY <1>3 DEF ReceiveCall,
       RegistryInv, RegistryTypeOK, FreshInv, HeldInv, ServiceInv, WorkerInv, MarkInv,
       UnlistedIsMarked, NoStreamLeak, Referenced, WasReleased, AsgIds
<1>4. ASSUME NEW id \in AsgIds, DropNote(id) PROVE RegistryInv'
    BY <1>4 DEF DropNote, NoteReleased,
       RegistryInv, RegistryTypeOK, FreshInv, HeldInv, ServiceInv, WorkerInv, MarkInv,
       UnlistedIsMarked, NoStreamLeak, Referenced, WasReleased, AsgIds
<1>5. ASSUME NEW id \in AsgIds, DropStreams(id) PROVE RegistryInv'
    BY <1>5 DEF DropStreams,
       RegistryInv, RegistryTypeOK, FreshInv, HeldInv, ServiceInv, WorkerInv, MarkInv,
       UnlistedIsMarked, NoStreamLeak, Referenced, WasReleased, AsgIds
<1>6. ASSUME NEW id \in AsgIds, DropUnlist(id) PROVE RegistryInv'
    BY <1>6 DEF DropUnlist,
       RegistryInv, RegistryTypeOK, FreshInv, HeldInv, ServiceInv, WorkerInv, MarkInv,
       UnlistedIsMarked, NoStreamLeak, Referenced, WasReleased, AsgIds
<1>7. CASE ResolveCall
  <2>1. sid \in AsgIds /\ sid < nextId /\ (drop[sid] = "none" <=> sid \in owned)
    BY <1>7 DEF ResolveCall, RegistryInv, ServiceInv, HeldInv, Referenced
  <2>2. RegistryTypeOK'
    BY <1>7, <2>1 DEF ResolveCall, RegistryInv, RegistryTypeOK, AsgIds
  <2>3. FreshInv'
    BY <1>7, <2>1 DEF ResolveCall, RegistryInv, FreshInv, RegistryTypeOK, AsgIds
  <2>4. HeldInv'
    BY <1>7, <2>1 DEF ResolveCall, RegistryInv, HeldInv, FreshInv, Referenced, RegistryTypeOK, AsgIds
  <2>5. ServiceInv'
    BY <1>7, <2>1 DEF ResolveCall, RegistryInv, ServiceInv, HeldInv, Referenced, RegistryTypeOK, AsgIds
  <2>6. WorkerInv'
    BY <1>7, <2>1 DEF ResolveCall, RegistryInv, WorkerInv, RegistryTypeOK, AsgIds
  <2>7. MarkInv'
    BY <1>7, <2>1 DEF ResolveCall, RegistryInv, MarkInv, WasReleased, RegistryTypeOK, AsgIds
  <2>8. UnlistedIsMarked'
    BY <1>7, <2>1 DEF ResolveCall, RegistryInv, UnlistedIsMarked, WasReleased, RegistryTypeOK, AsgIds
  <2>9. NoStreamLeak'
    BY <1>7, <2>1 DEF ResolveCall, RegistryInv, NoStreamLeak, WorkerInv, HeldInv, RegistryTypeOK, AsgIds
  <2> QED BY <2>2, <2>3, <2>4, <2>5, <2>6, <2>7, <2>8, <2>9 DEF RegistryInv
<1>8. CASE NoteCall
    BY <1>8 DEF NoteCall, NoteReleased,
       RegistryInv, RegistryTypeOK, FreshInv, HeldInv, ServiceInv, WorkerInv, MarkInv,
       UnlistedIsMarked, NoStreamLeak, Referenced, WasReleased, AsgIds
<1>9. CASE CheckCall
    BY <1>9 DEF CheckCall,
       RegistryInv, RegistryTypeOK, FreshInv, HeldInv, ServiceInv, WorkerInv, MarkInv,
       UnlistedIsMarked, NoStreamLeak, Referenced, WasReleased, AsgIds
<1>10. CASE ServeCall
    BY <1>10 DEF ServeCall, FinishCall, BeginDrop,
       RegistryInv, RegistryTypeOK, FreshInv, HeldInv, ServiceInv, WorkerInv, MarkInv,
       UnlistedIsMarked, NoStreamLeak, Referenced, WasReleased, AsgIds
<1>11. CASE CallDropped
    BY <1>11 DEF CallDropped,
       RegistryInv, RegistryTypeOK, FreshInv, HeldInv, ServiceInv, WorkerInv, MarkInv,
       UnlistedIsMarked, NoStreamLeak, Referenced, WasReleased, AsgIds
<1>12. ASSUME NEW w \in Workers, ServeDial(w) PROVE RegistryInv'
    BY <1>12 DEF ServeDial, FinishCall, BeginDrop,
       RegistryInv, RegistryTypeOK, FreshInv, HeldInv, ServiceInv, WorkerInv, MarkInv,
       UnlistedIsMarked, NoStreamLeak, Referenced, WasReleased, AsgIds
<1>13. ASSUME NEW w \in Workers, ServeCancelStream(w) PROVE RegistryInv'
    BY <1>13 DEF ServeCancelStream, FinishCall, BeginDrop,
       RegistryInv, RegistryTypeOK, FreshInv, HeldInv, ServiceInv, WorkerInv, MarkInv,
       UnlistedIsMarked, NoStreamLeak, Referenced, WasReleased, AsgIds
<1>14. ASSUME NEW w \in Workers, WorkerDialed(w) PROVE RegistryInv'
    BY <1>14 DEF WorkerDialed,
       RegistryInv, RegistryTypeOK, FreshInv, HeldInv, ServiceInv, WorkerInv, MarkInv,
       UnlistedIsMarked, NoStreamLeak, Referenced, WasReleased, AsgIds
<1>15. ASSUME NEW w \in Workers, WorkerRecheck(w) PROVE RegistryInv'
  <2>1. /\ wid[w] \in AsgIds /\ wid[w] < nextId
        /\ drop[wid[w]] = "none" <=> Referenced(wid[w])
    BY <1>15 DEF WorkerRecheck, RegistryInv, WorkerInv, HeldInv
  <2>2. RegistryTypeOK'
    BY <1>15, <2>1 DEF WorkerRecheck, RegistryInv, RegistryTypeOK, AsgIds
  <2>3. FreshInv'
    BY <1>15, <2>1 DEF WorkerRecheck, RegistryInv, FreshInv, RegistryTypeOK, AsgIds
  <2>4. HeldInv'
    BY <1>15, <2>1 DEF WorkerRecheck, RegistryInv, HeldInv, FreshInv, Referenced, RegistryTypeOK, AsgIds
  <2>5. ServiceInv'
    BY <1>15, <2>1 DEF WorkerRecheck, RegistryInv, ServiceInv, HeldInv, Referenced, RegistryTypeOK, AsgIds
  <2>6. WorkerInv'
    BY <1>15, <2>1 DEF WorkerRecheck, RegistryInv, WorkerInv, RegistryTypeOK, AsgIds
  <2>7. MarkInv'
    BY <1>15, <2>1 DEF WorkerRecheck, RegistryInv, MarkInv, WasReleased, RegistryTypeOK, AsgIds
  <2>8. UnlistedIsMarked'
    BY <1>15, <2>1 DEF WorkerRecheck, RegistryInv, UnlistedIsMarked, WasReleased, RegistryTypeOK, AsgIds
  <2>9. NoStreamLeak'
    BY <1>15, <2>1 DEF WorkerRecheck, RegistryInv, NoStreamLeak, WorkerInv, HeldInv, RegistryTypeOK, AsgIds
  <2> QED BY <2>2, <2>3, <2>4, <2>5, <2>6, <2>7, <2>8, <2>9 DEF RegistryInv
<1>16. ASSUME NEW w \in Workers, WorkerNote(w) PROVE RegistryInv'
    BY <1>16 DEF WorkerNote, NoteReleased,
       RegistryInv, RegistryTypeOK, FreshInv, HeldInv, ServiceInv, WorkerInv, MarkInv,
       UnlistedIsMarked, NoStreamLeak, Referenced, WasReleased, AsgIds
<1>17. ASSUME NEW w \in Workers, WorkerCancel(w) PROVE RegistryInv'
    BY <1>17 DEF WorkerCancel,
       RegistryInv, RegistryTypeOK, FreshInv, HeldInv, ServiceInv, WorkerInv, MarkInv,
       UnlistedIsMarked, NoStreamLeak, Referenced, WasReleased, AsgIds
<1>18. CASE UNCHANGED registryVars
    BY <1>18 DEF registryVars,
       RegistryInv, RegistryTypeOK, FreshInv, HeldInv, ServiceInv, WorkerInv, MarkInv,
       UnlistedIsMarked, NoStreamLeak, Referenced, WasReleased, AsgIds
<1> QED
    BY <1>1, <1>2, <1>3, <1>4, <1>5, <1>6, <1>7, <1>8, <1>9, <1>10, <1>11, <1>12, <1>13, <1>14, <1>15, <1>16, <1>17, <1>18
    DEF RegistryNext, DropStep, ServiceStep, WorkerStep

(* The inductive invariant holds throughout. *)
THEOREM RegistryInvariant == RegistrySpec => []RegistryInv
BY RegistryInitial, RegistryStep, PTL DEF RegistrySpec

(* Every variable of the registry keeps its type. *)
THEOREM RegistryTypeCorrect == RegistrySpec => []RegistryTypeOK
<1>1. RegistryInv => RegistryTypeOK
    BY DEF RegistryInv
<1> QED BY RegistryInvariant, <1>1, PTL

(* resolve and was_released: a service call is told that its assignment was *)
(* released only when no Arc of that assignment is left.                    *)
THEOREM ReleasedAnswerHolds == RegistrySpec => []ReleasedAnswerIsTrue
<1>1. RegistryInv => ReleasedAnswerIsTrue
    BY DEF RegistryInv, ServiceInv, HeldInv, ReleasedAnswerIsTrue, Referenced
<1> QED BY RegistryInvariant, <1>1, PTL

(* note_released and the removals from the map: an id that left the map is  *)
(* marked, or the thread that removed it is about to mark it.               *)
THEOREM UnlistedMarked == RegistrySpec => []UnlistedIsMarked
<1>1. RegistryInv => UnlistedIsMarked
    BY DEF RegistryInv
<1> QED BY RegistryInvariant, <1>1, PTL

(* Drop for Assignment against a dial still in flight: after                *)
(* release_streams has run, a stream of that assignment is left only with a *)
(* worker that has yet to resolve the id again and cancel it.               *)
THEOREM NoStreamLeft == RegistrySpec => []NoStreamLeak
<1>1. RegistryInv => NoStreamLeak
    BY DEF RegistryInv
<1> QED BY RegistryInvariant, <1>1, PTL

(* Everything the registry promises while drops race service calls and      *)
(* dial workers.                                                            *)
THEOREM RegistryIsSafe == RegistrySpec => []RegistrySafe
BY RegistryTypeCorrect, ReleasedAnswerHolds, UnlistedMarked, NoStreamLeft, PTL DEF RegistrySafe

-----------------------------------------------------------------------------
(***************************************************************************)
(* The threads of the renderer child.                                       *)
(***************************************************************************)

InCall == {"check", "push", "wake", "undo", "wait"}

(* The flag is up from the moment before the drain; once the map is         *)
(* drained, only a call that is about to see the flag, or to take its       *)
(* entry back, has an entry.                                                *)
DrainInv ==
    /\ rpc \in {"token", "drain", "done"} => closed
    /\ rpc = "done" => \A c \in pending : c = ecall /\ epc \in {"check", "undo"}

(* A call is in the map, or has its one answer, or is a synchronous call    *)
(* that has returned Closed.                                                *)
PendingInv ==
    /\ \A c \in pending : c \in made /\ fired[c] = 0
    /\ epc \in InCall => ecall \in made
    /\ epc \notin InCall => ecall = NoCall
    /\ \A c \in made :
          \/ c \in pending
          \/ fired[c] = 1 /\ answer[c] # "none"
          \/ c \in WaitCalls /\ c # ecall
    /\ \A c \in Calls \ made : fired[c] = 0
    /\ \A c \in Calls : fired[c] <= 1

(* A token is in the channel, or a thread is about to send one. *)
TokenDue ==
    wake > 0 \/ epc \in {"wake", "token", "lasttoken"} \/ rpc = "token"

(* The writer sleeps only on an empty lane, and goes to sleep past a raised *)
(* flag only if a token will wake it.                                       *)
WakeInv ==
    /\ wpc = "sleep" /\ (queue # <<>> \/ closed) => TokenDue
    /\ wpc = "take" /\ closed => TokenDue

IInv == TypeOK /\ DrainInv /\ PendingInv /\ WakeInv

-----------------------------------------------------------------------------
(* Every step keeps the types and the bound of the lane. *)
LEMMA TypeStep == TypeOK /\ [Next]_vars => TypeOK'
<1> SUFFICES ASSUME TypeOK, [Next]_vars PROVE TypeOK'
  OBVIOUS
<1>1. ASSUME NEW c \in Calls, StartCall(c) PROVE TypeOK'
  BY <1>1, ChildAssumption
  DEF ChildAssumption, TypeOK, Calls, StartCall, cvars, evars, wvars, hvars
<1>2. CASE CheckClosed
  BY <1>2, ChildAssumption
  DEF ChildAssumption, TypeOK, Calls, CheckClosed, cvars, evars, wvars, hvars
<1>3. CASE PushCall
  BY <1>3, ChildAssumption
  DEF ChildAssumption, TypeOK, Calls, PushCall, cvars, evars, wvars, hvars
<1>4. CASE WakeWriter
  BY <1>4, ChildAssumption
  DEF ChildAssumption, TypeOK, Calls, WakeWriter, cvars, evars, wvars, hvars
<1>5. CASE Undo
  BY <1>5, ChildAssumption
  DEF ChildAssumption, TypeOK, Calls, Undo, Answer, cvars, evars, wvars, hvars
<1>6. CASE CallReturns
  BY <1>6, ChildAssumption
  DEF ChildAssumption, TypeOK, Calls, CallReturns, cvars, evars, wvars, hvars
<1>7. CASE Publish
  BY <1>7, ChildAssumption
  DEF ChildAssumption, TypeOK, Calls, Publish, cvars, evars, wvars, hvars
<1>8. CASE PublishFull
  BY <1>8, ChildAssumption
  DEF ChildAssumption, TypeOK, Calls, PublishFull, cvars, evars, wvars, hvars
<1>9. CASE Token
  BY <1>9, ChildAssumption
  DEF ChildAssumption, TypeOK, Calls, Token, cvars, evars, wvars, hvars
<1>10. CASE LoopEnds
  BY <1>10, ChildAssumption
  DEF ChildAssumption, TypeOK, Calls, LoopEnds, cvars, evars, wvars, hvars
<1>11. CASE LoopFails
  BY <1>11, ChildAssumption
  DEF ChildAssumption, TypeOK, Calls, LoopFails, cvars, evars, wvars, hvars
<1>12. CASE RecvCheck
  BY <1>12, ChildAssumption
  DEF ChildAssumption, TypeOK, Calls, RecvCheck, cvars, evars, wvars, hvars
<1>13. CASE RecvTake
  <2>1. CASE queue # <<>>
    <3>1. Head(queue) \in Calls \cup {Event} /\ Tail(queue) \in Seq(Calls \cup {Event})
      BY <2>1 DEF TypeOK
    <3>2. Len(Tail(queue)) <= Cap
      BY <2>1, ChildAssumption DEF TypeOK, ChildAssumption
    <3>3. queue' = Tail(queue) /\ wframe' = Head(queue) /\ wpc' = "write"
      BY <1>13, <2>1 DEF RecvTake
    <3> QED
      BY <1>13, <3>1, <3>2, <3>3 DEF TypeOK, RecvTake, cvars, evars, hvars
  <2>2. CASE queue = <<>>
    BY <1>13, <2>2 DEF TypeOK, RecvTake, cvars, evars, hvars
  <2> QED
    BY <2>1, <2>2
<1>14. CASE RecvSleep
  BY <1>14, ChildAssumption
  DEF ChildAssumption, TypeOK, Calls, RecvSleep, cvars, evars, wvars, hvars
<1>15. CASE WriteFrame
  BY <1>15, ChildAssumption
  DEF ChildAssumption, TypeOK, Calls, WriteFrame, cvars, evars, wvars, hvars
<1>16. ASSUME NEW c \in Calls, Deliver(c) PROVE TypeOK'
  BY <1>16, ChildAssumption
  DEF ChildAssumption, TypeOK, Calls, Deliver, Answer, cvars, evars, wvars, hvars
<1>17. CASE ReadEnds
  BY <1>17, ChildAssumption
  DEF ChildAssumption, TypeOK, Calls, ReadEnds, cvars, evars, wvars, hvars
<1>18. CASE CloseFlag
  BY <1>18, ChildAssumption
  DEF ChildAssumption, TypeOK, Calls, CloseFlag, cvars, evars, wvars, hvars
<1>19. CASE CloseToken
  BY <1>19, ChildAssumption
  DEF ChildAssumption, TypeOK, Calls, CloseToken, cvars, evars, wvars, hvars
<1>20. CASE CloseDrain
  BY <1>20, ChildAssumption
  DEF ChildAssumption, TypeOK, Calls, CloseDrain, Answer, cvars, evars, wvars, hvars
<1>21. CASE HostGone
  <2>1. host' = FALSE /\ UNCHANGED <<closed, queue, wake, cvars, evars, wvars, rpc, stop, wire>>
    BY <1>21 DEF HostGone
  <2>2. host' \in BOOLEAN
    BY <2>1
  <2> QED
    BY <2>1, <2>2 DEF TypeOK, cvars, evars, wvars
<1>22. CASE UNCHANGED vars
  BY <1>22 DEF vars, TypeOK, Calls, cvars, evars, wvars, hvars
<1> QED
  BY <1>1, <1>2, <1>3, <1>4, <1>5, <1>6, <1>7, <1>8, <1>9, <1>10, <1>11, <1>12, <1>13, <1>14, <1>15, <1>16, <1>17, <1>18, <1>19, <1>20, <1>21, <1>22 DEF Next, Engine, CallStep, Writer, Closing

(* Raising the flag comes before the drain, and the check after the insert. *)
LEMMA DrainStep == TypeOK /\ DrainInv /\ [Next]_vars => DrainInv'
<1> SUFFICES ASSUME TypeOK, DrainInv, [Next]_vars PROVE DrainInv'
  OBVIOUS
<1>1. ASSUME NEW c \in Calls, StartCall(c) PROVE DrainInv'
  BY <1>1, ChildAssumption
  DEF ChildAssumption, TypeOK, Calls, DrainInv, StartCall, cvars, evars, wvars, hvars
<1>2. CASE CheckClosed
  BY <1>2, ChildAssumption
  DEF ChildAssumption, TypeOK, Calls, DrainInv, CheckClosed, cvars, evars, wvars, hvars
<1>3. CASE PushCall
  BY <1>3, ChildAssumption
  DEF ChildAssumption, TypeOK, Calls, DrainInv, PushCall, cvars, evars, wvars, hvars
<1>4. CASE WakeWriter
  BY <1>4, ChildAssumption
  DEF ChildAssumption, TypeOK, Calls, DrainInv, WakeWriter, cvars, evars, wvars, hvars
<1>5. CASE Undo
  BY <1>5, ChildAssumption
  DEF ChildAssumption, TypeOK, Calls, DrainInv, Undo, Answer, cvars, evars, wvars, hvars
<1>6. CASE CallReturns
  BY <1>6, ChildAssumption
  DEF ChildAssumption, TypeOK, Calls, DrainInv, CallReturns, cvars, evars, wvars, hvars
<1>7. CASE Publish
  BY <1>7, ChildAssumption
  DEF ChildAssumption, TypeOK, Calls, DrainInv, Publish, cvars, evars, wvars, hvars
<1>8. CASE PublishFull
  BY <1>8, ChildAssumption
  DEF ChildAssumption, TypeOK, Calls, DrainInv, PublishFull, cvars, evars, wvars, hvars
<1>9. CASE Token
  BY <1>9, ChildAssumption
  DEF ChildAssumption, TypeOK, Calls, DrainInv, Token, cvars, evars, wvars, hvars
<1>10. CASE LoopEnds
  BY <1>10, ChildAssumption
  DEF ChildAssumption, TypeOK, Calls, DrainInv, LoopEnds, cvars, evars, wvars, hvars
<1>11. CASE LoopFails
  BY <1>11, ChildAssumption
  DEF ChildAssumption, TypeOK, Calls, DrainInv, LoopFails, cvars, evars, wvars, hvars
<1>12. CASE RecvCheck
  BY <1>12, ChildAssumption
  DEF ChildAssumption, TypeOK, Calls, DrainInv, RecvCheck, cvars, evars, wvars, hvars
<1>13. CASE RecvTake
  BY <1>13, ChildAssumption
  DEF ChildAssumption, TypeOK, Calls, DrainInv, RecvTake, cvars, evars, wvars, hvars
<1>14. CASE RecvSleep
  BY <1>14, ChildAssumption
  DEF ChildAssumption, TypeOK, Calls, DrainInv, RecvSleep, cvars, evars, wvars, hvars
<1>15. CASE WriteFrame
  BY <1>15, ChildAssumption
  DEF ChildAssumption, TypeOK, Calls, DrainInv, WriteFrame, cvars, evars, wvars, hvars
<1>16. ASSUME NEW c \in Calls, Deliver(c) PROVE DrainInv'
  BY <1>16, ChildAssumption
  DEF ChildAssumption, TypeOK, Calls, DrainInv, Deliver, Answer, cvars, evars, wvars, hvars
<1>17. CASE ReadEnds
  BY <1>17, ChildAssumption
  DEF ChildAssumption, TypeOK, Calls, DrainInv, ReadEnds, cvars, evars, wvars, hvars
<1>18. CASE CloseFlag
  BY <1>18, ChildAssumption
  DEF ChildAssumption, TypeOK, Calls, DrainInv, CloseFlag, cvars, evars, wvars, hvars
<1>19. CASE CloseToken
  BY <1>19, ChildAssumption
  DEF ChildAssumption, TypeOK, Calls, DrainInv, CloseToken, cvars, evars, wvars, hvars
<1>20. CASE CloseDrain
  BY <1>20, ChildAssumption
  DEF ChildAssumption, TypeOK, Calls, DrainInv, CloseDrain, Answer, cvars, evars, wvars, hvars
<1>21. CASE HostGone
  BY <1>21, ChildAssumption
  DEF ChildAssumption, TypeOK, Calls, DrainInv, HostGone, cvars, evars, wvars, hvars
<1>22. CASE UNCHANGED vars
  BY <1>22 DEF vars, TypeOK, Calls, DrainInv, cvars, evars, wvars, hvars
<1> QED
  BY <1>1, <1>2, <1>3, <1>4, <1>5, <1>6, <1>7, <1>8, <1>9, <1>10, <1>11, <1>12, <1>13, <1>14, <1>15, <1>16, <1>17, <1>18, <1>19, <1>20, <1>21, <1>22 DEF Next, Engine, CallStep, Writer, Closing

(* No step answers a call twice or forgets one that is in the map. *)
LEMMA PendingStep == TypeOK /\ PendingInv /\ [Next]_vars => PendingInv'
<1> SUFFICES ASSUME TypeOK, PendingInv, [Next]_vars PROVE PendingInv'
  OBVIOUS
<1>1. ASSUME NEW c \in Calls, StartCall(c) PROVE PendingInv'
  BY <1>1, ChildAssumption
  DEF ChildAssumption, TypeOK, Calls, PendingInv, InCall, StartCall, cvars, evars, wvars, hvars
<1>2. CASE CheckClosed
  BY <1>2, ChildAssumption
  DEF ChildAssumption, TypeOK, Calls, PendingInv, InCall, CheckClosed, cvars, evars, wvars, hvars
<1>3. CASE PushCall
  BY <1>3, ChildAssumption
  DEF ChildAssumption, TypeOK, Calls, PendingInv, InCall, PushCall, cvars, evars, wvars, hvars
<1>4. CASE WakeWriter
  BY <1>4, ChildAssumption
  DEF ChildAssumption, TypeOK, Calls, PendingInv, InCall, WakeWriter, cvars, evars, wvars, hvars
<1>5. CASE Undo
  BY <1>5, ChildAssumption
  DEF ChildAssumption, TypeOK, Calls, PendingInv, InCall, Undo, Answer, cvars, evars, wvars, hvars
<1>6. CASE CallReturns
  BY <1>6, ChildAssumption
  DEF ChildAssumption, TypeOK, Calls, PendingInv, InCall, CallReturns, cvars, evars, wvars, hvars
<1>7. CASE Publish
  BY <1>7, ChildAssumption
  DEF ChildAssumption, TypeOK, Calls, PendingInv, InCall, Publish, cvars, evars, wvars, hvars
<1>8. CASE PublishFull
  BY <1>8, ChildAssumption
  DEF ChildAssumption, TypeOK, Calls, PendingInv, InCall, PublishFull, cvars, evars, wvars, hvars
<1>9. CASE Token
  BY <1>9, ChildAssumption
  DEF ChildAssumption, TypeOK, Calls, PendingInv, InCall, Token, cvars, evars, wvars, hvars
<1>10. CASE LoopEnds
  BY <1>10, ChildAssumption
  DEF ChildAssumption, TypeOK, Calls, PendingInv, InCall, LoopEnds, cvars, evars, wvars, hvars
<1>11. CASE LoopFails
  BY <1>11, ChildAssumption
  DEF ChildAssumption, TypeOK, Calls, PendingInv, InCall, LoopFails, cvars, evars, wvars, hvars
<1>12. CASE RecvCheck
  BY <1>12, ChildAssumption
  DEF ChildAssumption, TypeOK, Calls, PendingInv, InCall, RecvCheck, cvars, evars, wvars, hvars
<1>13. CASE RecvTake
  BY <1>13, ChildAssumption
  DEF ChildAssumption, TypeOK, Calls, PendingInv, InCall, RecvTake, cvars, evars, wvars, hvars
<1>14. CASE RecvSleep
  BY <1>14, ChildAssumption
  DEF ChildAssumption, TypeOK, Calls, PendingInv, InCall, RecvSleep, cvars, evars, wvars, hvars
<1>15. CASE WriteFrame
  BY <1>15, ChildAssumption
  DEF ChildAssumption, TypeOK, Calls, PendingInv, InCall, WriteFrame, cvars, evars, wvars, hvars
<1>16. ASSUME NEW c \in Calls, Deliver(c) PROVE PendingInv'
  BY <1>16, ChildAssumption
  DEF ChildAssumption, TypeOK, Calls, PendingInv, InCall, Deliver, Answer, cvars, evars, wvars, hvars
<1>17. CASE ReadEnds
  BY <1>17, ChildAssumption
  DEF ChildAssumption, TypeOK, Calls, PendingInv, InCall, ReadEnds, cvars, evars, wvars, hvars
<1>18. CASE CloseFlag
  BY <1>18, ChildAssumption
  DEF ChildAssumption, TypeOK, Calls, PendingInv, InCall, CloseFlag, cvars, evars, wvars, hvars
<1>19. CASE CloseToken
  BY <1>19, ChildAssumption
  DEF ChildAssumption, TypeOK, Calls, PendingInv, InCall, CloseToken, cvars, evars, wvars, hvars
<1>20. CASE CloseDrain
  BY <1>20, ChildAssumption
  DEF ChildAssumption, TypeOK, Calls, PendingInv, InCall, CloseDrain, Answer, cvars, evars, wvars, hvars
<1>21. CASE HostGone
  BY <1>21, ChildAssumption
  DEF ChildAssumption, TypeOK, Calls, PendingInv, InCall, HostGone, cvars, evars, wvars, hvars
<1>22. CASE UNCHANGED vars
  BY <1>22 DEF vars, TypeOK, Calls, PendingInv, InCall, cvars, evars, wvars, hvars
<1> QED
  BY <1>1, <1>2, <1>3, <1>4, <1>5, <1>6, <1>7, <1>8, <1>9, <1>10, <1>11, <1>12, <1>13, <1>14, <1>15, <1>16, <1>17, <1>18, <1>19, <1>20, <1>21, <1>22 DEF Next, Engine, CallStep, Writer, Closing

(* Every frame and the flag are followed by a token. *)
LEMMA WakeStep == TypeOK /\ DrainInv /\ WakeInv /\ [Next]_vars => WakeInv'
<1> SUFFICES ASSUME TypeOK, DrainInv, WakeInv, [Next]_vars PROVE WakeInv'
  OBVIOUS
<1>1. ASSUME NEW c \in Calls, StartCall(c) PROVE WakeInv'
  BY <1>1, ChildAssumption
  DEF ChildAssumption, TypeOK, Calls, DrainInv, WakeInv, TokenDue, StartCall, cvars, evars, wvars, hvars
<1>2. CASE CheckClosed
  BY <1>2, ChildAssumption
  DEF ChildAssumption, TypeOK, Calls, DrainInv, WakeInv, TokenDue, CheckClosed, cvars, evars, wvars, hvars
<1>3. CASE PushCall
  BY <1>3, ChildAssumption
  DEF ChildAssumption, TypeOK, Calls, DrainInv, WakeInv, TokenDue, PushCall, cvars, evars, wvars, hvars
<1>4. CASE WakeWriter
  BY <1>4, ChildAssumption
  DEF ChildAssumption, TypeOK, Calls, DrainInv, WakeInv, TokenDue, WakeWriter, cvars, evars, wvars, hvars
<1>5. CASE Undo
  BY <1>5, ChildAssumption
  DEF ChildAssumption, TypeOK, Calls, DrainInv, WakeInv, TokenDue, Undo, Answer, cvars, evars, wvars, hvars
<1>6. CASE CallReturns
  BY <1>6, ChildAssumption
  DEF ChildAssumption, TypeOK, Calls, DrainInv, WakeInv, TokenDue, CallReturns, cvars, evars, wvars, hvars
<1>7. CASE Publish
  BY <1>7, ChildAssumption
  DEF ChildAssumption, TypeOK, Calls, DrainInv, WakeInv, TokenDue, Publish, cvars, evars, wvars, hvars
<1>8. CASE PublishFull
  BY <1>8, ChildAssumption
  DEF ChildAssumption, TypeOK, Calls, DrainInv, WakeInv, TokenDue, PublishFull, cvars, evars, wvars, hvars
<1>9. CASE Token
  BY <1>9, ChildAssumption
  DEF ChildAssumption, TypeOK, Calls, DrainInv, WakeInv, TokenDue, Token, cvars, evars, wvars, hvars
<1>10. CASE LoopEnds
  BY <1>10, ChildAssumption
  DEF ChildAssumption, TypeOK, Calls, DrainInv, WakeInv, TokenDue, LoopEnds, cvars, evars, wvars, hvars
<1>11. CASE LoopFails
  BY <1>11, ChildAssumption
  DEF ChildAssumption, TypeOK, Calls, DrainInv, WakeInv, TokenDue, LoopFails, cvars, evars, wvars, hvars
<1>12. CASE RecvCheck
  BY <1>12, ChildAssumption
  DEF ChildAssumption, TypeOK, Calls, DrainInv, WakeInv, TokenDue, RecvCheck, cvars, evars, wvars, hvars
<1>13. CASE RecvTake
  BY <1>13, ChildAssumption
  DEF ChildAssumption, TypeOK, Calls, DrainInv, WakeInv, TokenDue, RecvTake, cvars, evars, wvars, hvars
<1>14. CASE RecvSleep
  BY <1>14, ChildAssumption
  DEF ChildAssumption, TypeOK, Calls, DrainInv, WakeInv, TokenDue, RecvSleep, cvars, evars, wvars, hvars
<1>15. CASE WriteFrame
  BY <1>15, ChildAssumption
  DEF ChildAssumption, TypeOK, Calls, DrainInv, WakeInv, TokenDue, WriteFrame, cvars, evars, wvars, hvars
<1>16. ASSUME NEW c \in Calls, Deliver(c) PROVE WakeInv'
  BY <1>16, ChildAssumption
  DEF ChildAssumption, TypeOK, Calls, DrainInv, WakeInv, TokenDue, Deliver, Answer, cvars, evars, wvars, hvars
<1>17. CASE ReadEnds
  BY <1>17, ChildAssumption
  DEF ChildAssumption, TypeOK, Calls, DrainInv, WakeInv, TokenDue, ReadEnds, cvars, evars, wvars, hvars
<1>18. CASE CloseFlag
  BY <1>18, ChildAssumption
  DEF ChildAssumption, TypeOK, Calls, DrainInv, WakeInv, TokenDue, CloseFlag, cvars, evars, wvars, hvars
<1>19. CASE CloseToken
  BY <1>19, ChildAssumption
  DEF ChildAssumption, TypeOK, Calls, DrainInv, WakeInv, TokenDue, CloseToken, cvars, evars, wvars, hvars
<1>20. CASE CloseDrain
  BY <1>20, ChildAssumption
  DEF ChildAssumption, TypeOK, Calls, DrainInv, WakeInv, TokenDue, CloseDrain, Answer, cvars, evars, wvars, hvars
<1>21. CASE HostGone
  BY <1>21, ChildAssumption
  DEF ChildAssumption, TypeOK, Calls, DrainInv, WakeInv, TokenDue, HostGone, cvars, evars, wvars, hvars
<1>22. CASE UNCHANGED vars
  BY <1>22 DEF vars, TypeOK, Calls, DrainInv, WakeInv, TokenDue, cvars, evars, wvars, hvars
<1> QED
  BY <1>1, <1>2, <1>3, <1>4, <1>5, <1>6, <1>7, <1>8, <1>9, <1>10, <1>11, <1>12, <1>13, <1>14, <1>15, <1>16, <1>17, <1>18, <1>19, <1>20, <1>21, <1>22 DEF Next, Engine, CallStep, Writer, Closing

(* The inductive invariant holds initially and is preserved. *)
LEMMA Inductive == Spec => []IInv
<1>1. Init => IInv
  <2> SUFFICES ASSUME Init PROVE IInv
    OBVIOUS
  <2>1. TypeOK
    <3>1. queue \in Seq(Calls \cup {Event}) /\ Len(queue) <= Cap
      BY ChildAssumption DEF Init, ChildAssumption
    <3>2. closed \in BOOLEAN /\ stop \in BOOLEAN /\ host \in BOOLEAN
      BY DEF Init
    <3>3. answer \in [Calls -> {"none", "ok", "closed"}] /\ fired \in [Calls -> Nat]
      BY DEF Init
    <3> QED
      BY <3>1, <3>2, <3>3, ChildAssumption DEF Init, TypeOK, ChildAssumption
  <2>2. DrainInv
    BY DEF Init, DrainInv
  <2>3. PendingInv
    BY DEF Init, PendingInv, InCall
  <2>4. WakeInv
    BY DEF Init, WakeInv
  <2> QED
    BY <2>1, <2>2, <2>3, <2>4 DEF IInv
<1>2. IInv /\ [Next]_vars => IInv'
  BY TypeStep, DrainStep, PendingStep, WakeStep DEF IInv
<1> QED
  BY <1>1, <1>2, PTL DEF Spec

-----------------------------------------------------------------------------
(* The state of the three threads is type-correct and the outbox never      *)
(* holds more than its capacity (exchange.rs, BlockingSender).              *)
THEOREM ChildTypeCorrect == Spec => []TypeOK
<1>1. IInv => TypeOK
  BY DEF IInv
<1> QED
  BY <1>1, Inductive, PTL

(* BlockingClient::close leaves no synchronous call waiting, wherever start *)
(* was when the reader closed the client.                                   *)
THEOREM WaiterSafe == Spec => []NoLostWaiter
<1>1. IInv => NoLostWaiter
  <2> SUFFICES ASSUME IInv, rpc = "done", epc = "wait" PROVE answer[ecall] # "none"
    BY DEF NoLostWaiter
  <2>1. ecall \in made
    BY DEF IInv, PendingInv, InCall
  <2>2. ecall \notin pending
    BY DEF IInv, DrainInv
  <2> QED
    BY <2>1, <2>2 DEF IInv, PendingInv
<1> QED
  BY <1>1, Inductive, PTL

(* The callback of a dial is run at most once, and exactly once by the time *)
(* the client is closed.                                                    *)
THEOREM CallbackSafe == Spec => []CallbackOnce
<1>1. IInv => CallbackOnce
  <2> SUFFICES ASSUME IInv, NEW c \in CallbackCalls \cap made
               PROVE /\ fired[c] <= 1
                     /\ rpc = "done" /\ ecall # c => fired[c] = 1
    BY DEF CallbackOnce
  <2>1. c \in Calls /\ c \notin WaitCalls
    BY ChildAssumption DEF ChildAssumption, Calls
  <2>2. fired[c] <= 1
    BY <2>1 DEF IInv, PendingInv
  <2>3. ASSUME rpc = "done", ecall # c PROVE fired[c] = 1
    <3>1. c \notin pending
      BY <2>3 DEF IInv, DrainInv
    <3> QED
      BY <2>1, <3>1 DEF IInv, PendingInv
  <2> QED
    BY <2>2, <2>3
<1> QED
  BY <1>1, Inductive, PTL

(* BlockingReceiver::recv never sleeps on a frame or on the closed flag     *)
(* without a token that will wake it.                                       *)
THEOREM WakeupSafe == Spec => []NoLostWakeup
<1>1. IInv => NoLostWakeup
  BY DEF IInv, WakeInv, TokenDue, NoLostWakeup
<1> QED
  BY <1>1, Inductive, PTL

(* Everything the threads of a child owe each other while the channel       *)
(* closes under them.                                                       *)
THEOREM ChildIsSafe == Spec => []ChildSafe
BY ChildTypeCorrect, WaiterSafe, CallbackSafe, WakeupSafe, PTL DEF ChildSafe
=============================================================================
