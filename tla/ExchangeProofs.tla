--------------------------- MODULE ExchangeProofs ---------------------------
(***************************************************************************)
(* The safety invariants of Exchange, proved for every finite set of       *)
(* callers, every capacity of the lanes and of a subscription, every limit *)
(* on a download and every bound on calls and notices.                      *)
(***************************************************************************)
EXTENDS Exchange, FiniteSetTheorems, TLAPS

(* The frames of either direction. *)
CancelFrame == [t : {"cancel"}, id : CallIds, n : Nat]
UpFrame == [t : {"call", "reqchunk", "reqend", "tell"}, id : 0..MaxCalls, n : Nat]
DownFrame == [t : {"chunk", "reply"}, id : CallIds, n : Nat] \cup [t : {"notice"}, id : {0}, n : Nat]
AnyFrame == CancelFrame \cup UpFrame \cup DownFrame

(* What the client's router will read. *)
Down == lane["toCli"]["data"]

(* Cancellations, and nothing else, use the control lanes. *)
FramesOf(d, q) ==
    CASE d # "toCli" /\ q = "control" -> CancelFrame
      [] d # "toCli" /\ q = "data" -> UpFrame
      [] d = "toCli" /\ q = "control" -> {}
      [] d = "toCli" /\ q = "data" -> DownFrame

LanesOK(l) ==
    /\ l \in [Dirs -> [Queues -> Seq(AnyFrame)]]
    /\ \A d \in Dirs : \A q \in Queues : l[d][q] \in Seq(FramesOf(d, q))

LaneInv == LanesOK(lane)

-----------------------------------------------------------------------------
(* The inductive invariant *)

Reserving == {b \in Callers : callerAt[b] \in {"reserve", "permit"}}
Calling == {"inserted", "await", "upload", "cancel"}

(* Whoever waits for a slot, or has one, will find an id. *)
ReserveInv == nextCall + Cardinality(Reserving) <= MaxCalls + 1

(* An id belongs to at most one caller, for as long as the call lasts. *)
OwnInv ==
    /\ \A c \in Callers : callerAt[c] \in Calling => currentCall[c] \in 1..(nextCall - 1)
    /\ \A c, b \in Callers :
          callerAt[c] \in Calling /\ callerAt[b] \in Calling /\ currentCall[c] = currentCall[b] => c = b

(* An id that was not handed out is in no table. *)
FreshInv ==
    \A id \in CallIds : id >= nextCall =>
        awaiting[id] = "none" /\ result[id] = "none" /\ got[id] = <<>> /\ work[id] = "none"

(* An entry is pending until it has a result, and only a download collects  *)
(* bytes.                                                                   *)
EntryInv ==
    /\ got \in [CallIds -> Seq(Nat)]
    /\ \A id \in CallIds : result[id] # "none" => awaiting[id] = "none"
    /\ \A id \in CallIds : awaiting[id] = "unary" => got[id] = <<>>

(* A call frame is sent once: while it travels no caller is about to send   *)
(* one with its id and its handler does not exist yet, and no two frames    *)
(* carry the same id.                                                       *)
Travelling(id) ==
    /\ id \in 1..(nextCall - 1) /\ work[id] = "none"
    /\ \A c \in Callers : callerAt[c] = "inserted" => currentCall[c] # id

IsCall(f) == f.t = "call"
AllTravel(s) == \A i \in 1..Len(s) : IsCall(s[i]) => Travelling(s[i].id)
Distinct(s) == \A i, j \in 1..Len(s) : IsCall(s[i]) /\ IsCall(s[j]) /\ s[i].id = s[j].id => i = j
Apart(s, u) ==
    \A i \in 1..Len(s) : \A j \in 1..Len(u) : IsCall(s[i]) /\ IsCall(u[j]) => s[i].id # u[j].id

Up == lane["toSrv"]["data"]
In == lane["srvIn"]["data"]

TravelInv ==
    /\ \A c \in Callers : callerAt[c] = "inserted" => work[currentCall[c]] = "none"
    /\ AllTravel(Up) /\ AllTravel(In)
    /\ Distinct(Up) /\ Distinct(In) /\ Apart(Up, In)

Chunk(i, id) == Down[i].t = "chunk" /\ Down[i].id = id

(* The chunks and the reply of one call on their way to the client: chunks  *)
(* in the order they were sent, the reply behind them and no handler left   *)
(* to send more.                                                            *)
StreamInv ==
    /\ \A id \in CallIds : work[id] = "none" => sent[id] = 0 /\ result[id] # "ok"
    /\ \A i \in 1..Len(Down) : Down[i].t = "chunk" =>
          Down[i].n \in 1..sent[Down[i].id] /\ work[Down[i].id] # "none"
    /\ \A i, j \in 1..Len(Down) :
          i < j /\ Down[i].t = "chunk" /\ Chunk(j, Down[i].id) => Down[i].n < Down[j].n
    /\ \A i \in 1..Len(Down) : Down[i].t = "reply" =>
          /\ work[Down[i].id] = "done"
          /\ \A j \in 1..Len(Down) : Chunk(j, Down[i].id) => j < i

(* While the client's router runs, what a pending call has received and     *)
(* what is still on the way are together what its handler has sent.         *)
PendingInv ==
    crouter = "run" => \A id \in CallIds : awaiting[id] # "none" =>
        /\ Len(got[id]) <= sent[id]
        /\ \A k \in 1..Len(got[id]) : got[id][k] = k
        /\ \A i \in 1..Len(Down) : Chunk(i, id) => Down[i].n > Len(got[id])
        /\ \A n \in (Len(got[id]) + 1)..sent[id] : \E i \in 1..Len(Down) : Chunk(i, id) /\ Down[i].n = n

(* A call that was answered had a handler, which is over. *)
AnsweredInv == \A id \in CallIds : result[id] = "ok" => work[id] = "done"

IsNotice(i) == Down[i].t = "notice"
Heard == sub.seen \o sub.queue

(* The notices on their way are consecutive and end with the last one sent. *)
NoticesOrdered ==
    /\ \A i \in 1..Len(Down) : IsNotice(i) => Down[i].n \in 1..noticed
    /\ \A i, j \in 1..Len(Down) : i < j /\ IsNotice(i) /\ IsNotice(j) => Down[i].n < Down[j].n
    /\ \A i \in 1..Len(Down) : IsNotice(i) =>
          \A n \in (Down[i].n + 1)..noticed : \E j \in 1..Len(Down) : IsNotice(j) /\ Down[j].n = n

(* After notice k, a live subscriber is next sent k + 1, and so on. *)
Follows(k) ==
    /\ k <= noticed
    /\ \A i \in 1..Len(Down) : IsNotice(i) => Down[i].n > k
    /\ \A n \in (k + 1)..noticed : \E i \in 1..Len(Down) : IsNotice(i) /\ Down[i].n = n

NextNoticeComes ==
    crouter = "run" /\ sub.on /\ Len(Heard) > 0 => Follows(Heard[Len(Heard)])

NoticeTypes ==
    /\ sub \in [on : BOOLEAN, queue : Seq(Nat), seen : Seq(Nat)]
    /\ noticed \in Nat /\ told.tries \in Nat

NoticeInv == NoticeTypes /\ NoticesOrdered /\ NextNoticeComes

ExchangeInv ==
    /\ ExchangeTypeOK
    /\ LaneInv
    /\ ReserveInv
    /\ OwnInv
    /\ FreshInv
    /\ EntryInv
    /\ TravelInv
    /\ StreamInv
    /\ PendingInv
    /\ AnsweredInv
    /\ DownloadComplete
    /\ DownloadBounded
    /\ NoPendingLeak
    /\ NoticeInv
    /\ NoticesContiguous
-----------------------------------------------------------------------------
(* Facts about sequences and lanes. *)

(* Tail, by its elements. *)
LEMMA TailFacts ==
    ASSUME NEW S, NEW s \in Seq(S), s # <<>>
    PROVE  /\ Len(s) \in Nat \ {0} /\ Head(s) = s[1] /\ Head(s) \in S
           /\ Tail(s) \in Seq(S) /\ Len(Tail(s)) = Len(s) - 1
           /\ \A i \in 1..Len(Tail(s)) : Tail(s)[i] = s[i + 1]
OBVIOUS

(* Append, by its elements. *)
LEMMA AppendFacts ==
    ASSUME NEW S, NEW s \in Seq(S), NEW e \in S
    PROVE  /\ Len(s) \in Nat /\ Append(s, e) \in Seq(S) /\ Len(Append(s, e)) = Len(s) + 1
           /\ Append(s, e)[Len(s) + 1] = e
           /\ \A i \in 1..Len(s) : Append(s, e)[i] = s[i]
OBVIOUS

(* The bounds are numbers. *)
LEMMA Bounds ==
    /\ MaxCalls \in Nat /\ LaneCap \in Nat /\ SubCap \in Nat /\ ChunkLimit \in Nat
    /\ 0 \in 0..MaxCalls /\ SubCap > 0
BY ExchangeAssumption

(* The frames a lane may carry, lane by lane. *)
LEMMA LaneFrames ==
    /\ FramesOf("toSrv", "data") = UpFrame /\ FramesOf("srvIn", "data") = UpFrame
    /\ FramesOf("toSrv", "control") = CancelFrame /\ FramesOf("srvIn", "control") = CancelFrame
    /\ FramesOf("toCli", "data") = DownFrame /\ FramesOf("toCli", "control") = {}
    /\ \A d \in Dirs, q \in Queues : FramesOf(d, q) \subseteq AnyFrame
BY DEF FramesOf, AnyFrame, Dirs, Queues

(* A frame goes to the end of its own lane and leaves the others alone. *)
LEMMA LanePush ==
    ASSUME NEW l, LanesOK(l), NEW d \in Dirs, NEW f, Queue(f) \in Queues,
           f \in FramesOf(d, Queue(f)),
           NEW m, m = [l EXCEPT ![d][Queue(f)] = Append(@, f)]
    PROVE  /\ LanesOK(m) /\ m[d][Queue(f)] = Append(l[d][Queue(f)], f)
           /\ \A e \in Dirs, q \in Queues : e # d \/ q # Queue(f) => m[e][q] = l[e][q]
<1>1. f \in AnyFrame
    BY LaneFrames
<1>2. m \in [Dirs -> [Queues -> Seq(AnyFrame)]]
    BY <1>1 DEF LanesOK
<1>3. m[d][Queue(f)] = Append(l[d][Queue(f)], f)
    BY DEF LanesOK
<1>4. \A e \in Dirs, q \in Queues : e # d \/ q # Queue(f) => m[e][q] = l[e][q]
    BY DEF LanesOK
<1>5. ASSUME NEW e \in Dirs, NEW q \in Queues PROVE m[e][q] \in Seq(FramesOf(e, q))
  <2>1. CASE e = d /\ q = Queue(f)
    BY <2>1, <1>3, AppendFacts DEF LanesOK
  <2>2. CASE e # d \/ q # Queue(f)
    BY <2>2, <1>4 DEF LanesOK
  <2> QED BY <2>1, <2>2
<1> QED BY <1>2, <1>3, <1>4, <1>5 DEF LanesOK

(* recv takes the first frame of the lane it reads, and no other. *)
LEMMA LanePop ==
    ASSUME LaneInv, NEW d \in Dirs, Waiting(d)
    PROVE  /\ LanesOK(Popped(d)) /\ NextQueue(d) \in Queues
           /\ lane[d][NextQueue(d)] # <<>>
           /\ lane[d][NextQueue(d)] \in Seq(FramesOf(d, NextQueue(d)))
           /\ FirstFrame(d) = lane[d][NextQueue(d)][1]
           /\ FirstFrame(d) \in FramesOf(d, NextQueue(d))
           /\ Popped(d)[d][NextQueue(d)] = Tail(lane[d][NextQueue(d)])
           /\ \A e \in Dirs, q \in Queues : e # d \/ q # NextQueue(d) => Popped(d)[e][q] = lane[e][q]
<1> DEFINE q == NextQueue(d)
<1>1. q \in Queues /\ lane[d][q] # <<>>
    BY DEF NextQueue, Waiting, Queues
<1>2. lane[d][q] \in Seq(FramesOf(d, q)) /\ lane[d][q] \in Seq(AnyFrame)
    BY <1>1 DEF LaneInv, LanesOK
<1>3. /\ FirstFrame(d) = lane[d][q][1] /\ FirstFrame(d) \in FramesOf(d, q)
      /\ Tail(lane[d][q]) \in Seq(FramesOf(d, q)) /\ Tail(lane[d][q]) \in Seq(AnyFrame)
    BY <1>1, <1>2, TailFacts DEF FirstFrame
<1>4. /\ Popped(d) \in [Dirs -> [Queues -> Seq(AnyFrame)]]
      /\ Popped(d)[d][q] = Tail(lane[d][q])
      /\ \A e \in Dirs, r \in Queues : e # d \/ r # q => Popped(d)[e][r] = lane[e][r]
    BY <1>1, <1>3 DEF Popped, LaneInv, LanesOK
<1>5. ASSUME NEW e \in Dirs, NEW r \in Queues PROVE Popped(d)[e][r] \in Seq(FramesOf(e, r))
  <2>1. CASE e = d /\ r = q
    BY <2>1, <1>3, <1>4
  <2>2. CASE e # d \/ r # q
    BY <2>2, <1>4 DEF LaneInv, LanesOK
  <2> QED BY <2>1, <2>2
<1> QED BY <1>1, <1>2, <1>3, <1>4, <1>5 DEF LanesOK

(* A receiver that is dropped takes its frames with it. *)
LEMMA LaneClear ==
    ASSUME LaneInv, NEW d \in Dirs, lane' = [lane EXCEPT ![d] = EmptyLane]
    PROVE  /\ LaneInv' /\ \A q \in Queues : lane'[d][q] = <<>>
           /\ \A e \in Dirs, q \in Queues : e # d => lane'[e][q] = lane[e][q]
BY DEF LaneInv, LanesOK, EmptyLane

(* Every frame a step makes is one its lane may carry. *)
LEMMA MadeFrames ==
    /\ \A id \in 0..MaxCalls : \A t \in {"call", "reqchunk", "reqend"} :
          Frame(t, id) \in UpFrame /\ Queue(Frame(t, id)) = "data"
    /\ \A n \in Nat : Numbered("tell", 0, n) \in UpFrame /\ Queue(Numbered("tell", 0, n)) = "data"
    /\ \A id \in CallIds : Frame("cancel", id) \in CancelFrame /\ Queue(Frame("cancel", id)) = "control"
    /\ \A id \in CallIds, n \in Nat : \A t \in {"chunk", "reply"} :
          Numbered(t, id, n) \in DownFrame /\ Queue(Numbered(t, id, n)) = "data"
    /\ \A id \in CallIds : Queue(Frame("reply", id)) = "data"
    /\ \A n \in Nat : Numbered("notice", 0, n) \in DownFrame /\ Queue(Numbered("notice", 0, n)) = "data"
BY ExchangeAssumption DEF Frame, Numbered, Queue, UpFrame, CancelFrame, DownFrame, CallIds

(* A frame a lane may carry stays in a lane of its kind. *)
LEMMA FrameQueues ==
    /\ \A f \in UpFrame \cup DownFrame : Queue(f) = "data"
    /\ \A f \in CancelFrame : Queue(f) = "control"
BY DEF UpFrame, DownFrame, CancelFrame, Queue

(* A frame that is sent goes to the end of its own lane. *)
LEMMA LaneSend ==
    ASSUME LaneInv, NEW d \in Dirs, NEW f, Queue(f) \in Queues, f \in FramesOf(d, Queue(f)), Push(d, f)
    PROVE  /\ LaneInv' /\ lane'[d][Queue(f)] = Append(lane[d][Queue(f)], f)
           /\ \A e \in Dirs, q \in Queues : e # d \/ q # Queue(f) => lane'[e][q] = lane[e][q]
<1>1. LanesOK([lane EXCEPT ![d][Queue(f)] = Append(@, f)])
    BY LanePush DEF LaneInv
<1>2. /\ LanesOK(lane') /\ lane'[d][Queue(f)] = Append(lane[d][Queue(f)], f)
      /\ \A e \in Dirs, q \in Queues : e # d \/ q # Queue(f) => lane'[e][q] = lane[e][q]
    BY <1>1 DEF Push, LaneInv, LanesOK
<1> QED BY <1>2 DEF LaneInv

(* The client sends a frame on the data lane. *)
LEMMA PushUp ==
    ASSUME LaneInv, NEW f \in UpFrame, Push("toSrv", f)
    PROVE  /\ LaneInv' /\ lane'["toSrv"]["data"] = Append(lane["toSrv"]["data"], f)
           /\ \A e \in Dirs, q \in Queues : e # "toSrv" \/ q # "data" => lane'[e][q] = lane[e][q]
<1>1. /\ Queue(f) = "data" /\ "toSrv" \in Dirs /\ Queue(f) \in Queues
      /\ f \in FramesOf("toSrv", Queue(f))
    BY FrameQueues, LaneFrames DEF Dirs, Queues
<1> QED BY <1>1, LaneSend

(* A dropped call sends its cancellation on the control lane. *)
LEMMA PushCancel ==
    ASSUME LaneInv, NEW f \in CancelFrame, Push("toSrv", f)
    PROVE  /\ LaneInv' /\ lane'["toSrv"]["control"] = Append(lane["toSrv"]["control"], f)
           /\ \A e \in Dirs, q \in Queues : e # "toSrv" \/ q # "control" => lane'[e][q] = lane[e][q]
<1>1. /\ Queue(f) = "control" /\ "toSrv" \in Dirs /\ Queue(f) \in Queues
      /\ f \in FramesOf("toSrv", Queue(f))
    BY FrameQueues, LaneFrames DEF Dirs, Queues
<1> QED BY <1>1, LaneSend

(* The server or a handler sends a frame to the client. *)
LEMMA PushDown ==
    ASSUME LaneInv, NEW f \in DownFrame, Push("toCli", f)
    PROVE  /\ LaneInv' /\ Down' = Append(Down, f) /\ Down \in Seq(DownFrame)
           /\ \A e \in Dirs, q \in Queues : e # "toCli" \/ q # "data" => lane'[e][q] = lane[e][q]
<1>1. /\ Queue(f) = "data" /\ "toCli" \in Dirs /\ Queue(f) \in Queues
      /\ f \in FramesOf("toCli", Queue(f))
    BY FrameQueues, LaneFrames DEF Dirs, Queues
<1> QED BY <1>1, LaneSend, LaneFrames DEF LaneInv, LanesOK, Down

(* The client's router takes the first frame of the data lane. *)
LEMMA PopDown ==
    ASSUME LaneInv, Waiting("toCli")
    PROVE  /\ Down # <<>> /\ Down \in Seq(DownFrame) /\ FirstFrame("toCli") = Down[1]
           /\ LanesOK(Popped("toCli")) /\ Popped("toCli")["toCli"]["data"] = Tail(Down)
           /\ \A e \in Dirs, q \in Queues :
                 e # "toCli" \/ q # "data" => Popped("toCli")[e][q] = lane[e][q]
<1>1. "toCli" \in Dirs /\ "data" \in Queues /\ "control" \in Queues
    BY DEF Dirs, Queues
<1>2. lane["toCli"]["control"] = <<>>
  <2>1. lane["toCli"]["control"] \in Seq({})
    BY <1>1, LaneFrames DEF LaneInv, LanesOK
  <2> QED BY <2>1
<1>3. NextQueue("toCli") = "data"
    BY <1>2 DEF NextQueue
<1> QED BY <1>1, <1>3, LanePop, LaneFrames DEF Down

(* The server's router moves one frame on, or drops it with its own end. *)
LEMMA RouteUp ==
    ASSUME LaneInv, ServerRoute
    PROVE  /\ LaneInv'
           /\ \E q \in Queues :
                 /\ lane["toSrv"][q] # <<>> /\ lane'["toSrv"][q] = Tail(lane["toSrv"][q])
                 /\ \/ lane'["srvIn"][q] = lane["srvIn"][q]
                    \/ /\ lane'["srvIn"][q] = Append(lane["srvIn"][q], Head(lane["toSrv"][q]))
                       /\ Len(lane["srvIn"][q]) < LaneCap
                 /\ \A e \in Dirs, r \in Queues : r # q \/ e = "toCli" => lane'[e][r] = lane[e][r]
<1> DEFINE f == FirstFrame("toSrv")
           q == NextQueue("toSrv")
           rest == Popped("toSrv")
<1>1. "toSrv" \in Dirs /\ "srvIn" \in Dirs /\ "toCli" \in Dirs /\ Waiting("toSrv")
    BY DEF Dirs, ServerRoute
<1>2. /\ LanesOK(rest) /\ q \in Queues /\ lane["toSrv"][q] # <<>>
      /\ f \in FramesOf("toSrv", q) /\ rest["toSrv"][q] = Tail(lane["toSrv"][q])
      /\ \A e \in Dirs, r \in Queues : e # "toSrv" \/ r # q => rest[e][r] = lane[e][r]
    BY <1>1, LanePop
<1>3. Queue(f) = q /\ f \in FramesOf("srvIn", q)
    BY <1>2, LaneFrames, FrameQueues DEF Queues
<1>4. f = Head(lane["toSrv"][q])
    BY DEF FirstFrame
<1>5. CASE TrySendOk("srvIn", f)
  <2>1. lane' = [rest EXCEPT !["srvIn"][Queue(f)] = Append(@, f)]
    BY <1>5 DEF ServerRoute
  <2>2. Len(lane["srvIn"][q]) < LaneCap
    BY <1>5, <1>3 DEF TrySendOk, Room, Used, LaneInv, LanesOK
  <2>3. /\ LanesOK(lane') /\ lane'["srvIn"][q] = Append(lane["srvIn"][q], f)
        /\ \A e \in Dirs, r \in Queues : e # "srvIn" \/ r # q => lane'[e][r] = rest[e][r]
    BY <2>1, <1>1, <1>2, <1>3, LanePush
  <2> QED BY <2>2, <2>3, <1>1, <1>2, <1>4 DEF LaneInv
<1>6. CASE ~ TrySendOk("srvIn", f)
  <2>1. lane' = rest
    BY <1>6 DEF ServerRoute
  <2> QED BY <2>1, <1>1, <1>2 DEF LaneInv
<1> QED BY <1>5, <1>6

-----------------------------------------------------------------------------
(* Every step keeps the lanes' invariant. *)

(* A caller with a call under way has an id, and frames of that id are well *)
(* formed; so are the frames of a handler, and the notices.                 *)
LEMMA CallerFrames ==
    ASSUME ExchangeInv, NEW c \in Callers, callerAt[c] \in Calling
    PROVE  /\ currentCall[c] \in CallIds
           /\ \A t \in {"call", "reqchunk", "reqend"} : Frame(t, currentCall[c]) \in UpFrame
           /\ Frame("cancel", currentCall[c]) \in CancelFrame
<1>1. currentCall[c] \in CallIds
    BY ExchangeAssumption DEF ExchangeInv, OwnInv, TablesTyped, ExchangeTypeOK, CallIds
<1> QED BY <1>1, MadeFrames, ExchangeAssumption DEF CallIds

(* What a handler, the server or the client numbers is a frame of its lane. *)
LEMMA ServerFrames ==
    ASSUME ExchangeInv
    PROVE  /\ \A id \in CallIds : Numbered("chunk", id, sent[id] + 1) \in DownFrame
           /\ \A id \in CallIds : Numbered("reply", id, sent[id]) \in DownFrame
           /\ Numbered("notice", 0, noticed + 1) \in DownFrame
           /\ Numbered("tell", 0, told.tries + 1) \in UpFrame
BY MadeFrames, ExchangeAssumption DEF ExchangeInv, ExchangeTypeOK, TablesTyped, NoticeInv, NoticeTypes

(* Frames stay in lanes of their kind. *)
LEMMA LaneKept == ASSUME ExchangeInv, ExchangeNext PROVE LaneInv'
<1> USE ExchangeAssumption
<1>1. ASSUME lane' = lane PROVE LaneInv'
    BY <1>1 DEF ExchangeInv, LaneInv
<1>2. CASE
       \/ \E c \in Callers : CallStart(c) \/ ReserveSlot(c) \/ DropReserve(c) \/ Return(c)
             \/ DropCall(c)
       \/ \E c \in Callers : \E kind \in {"unary", "download"} : InsertPending(c, kind)
       \/ DropClient \/ ServerRouterEnd \/ ServerRouterClose \/ ClientRouterEnd
       \/ ClientRouterClose \/ Subscribe \/ TakeNotice
  <2>1. lane' = lane
    BY <1>2
       DEF CallStart, ReserveSlot, DropReserve, InsertPending, Return, Finish, DropCall,
           DropClient, ServerRouterEnd, ServerRouterClose, ClientRouterEnd,
           ClientRouterClose, FailPending, Subscribe, TakeNotice, rvars, svars,
           callVars, nvars
  <2> QED BY <2>1, <1>1
<1>3. ASSUME NEW c \in Callers, NEW after \in {"await", "upload"}, PermitSend(c, after) PROVE LaneInv'
    BY <1>3, CallerFrames, PushUp DEF PermitSend, ExchangeInv, LaneInv, Calling
<1>4. ASSUME NEW c \in Callers, UploadWrite(c) PROVE LaneInv'
    BY <1>4, CallerFrames, PushUp DEF UploadWrite, ExchangeInv, LaneInv, Calling
<1>5. ASSUME NEW c \in Callers, UploadEnd(c) PROVE LaneInv'
    BY <1>5, CallerFrames, PushUp DEF UploadEnd, ExchangeInv, LaneInv, Calling
<1>6. ASSUME NEW c \in Callers, SendCancel(c) PROVE LaneInv'
    BY <1>6, CallerFrames, PushCancel
       DEF SendCancel, TrySend, ExchangeInv, LaneInv, Calling
<1>7. ASSUME NEW how \in {"try", "wait", "lossy"}, Tell(how) PROVE LaneInv'
    BY <1>7, ServerFrames, PushUp DEF Tell, TrySend, ExchangeInv, LaneInv
<1>8. CASE ServerRoute
    BY <1>8, RouteUp DEF ExchangeInv
<1>9. CASE ServerRouterSignal
    BY <1>9, LaneClear DEF ServerRouterSignal, ExchangeInv, Dirs
<1>10. CASE ServerRecv
    BY <1>10, LanePop DEF ServerRecv, ExchangeInv, Dirs, LaneInv
<1>11. CASE ServerStop
    BY <1>11, LaneClear DEF ServerStop, ExchangeInv, Dirs
<1>12. ASSUME NEW id \in CallIds, SendChunk(id) PROVE LaneInv'
    BY <1>12, ServerFrames, PushDown DEF SendChunk, ExchangeInv, LaneInv
<1>13. ASSUME NEW id \in CallIds, Reply(id) PROVE LaneInv'
    BY <1>13, ServerFrames, PushDown DEF Reply, ExchangeInv, LaneInv
<1>14. CASE Notice
    BY <1>14, ServerFrames, PushDown DEF Notice, ExchangeInv, LaneInv
<1>15. CASE ClientRoute
    BY <1>15, PopDown DEF ClientRoute, ExchangeInv, LaneInv
<1>16. CASE ClientRouterSignal
    BY <1>16, LaneClear DEF ClientRouterSignal, ExchangeInv, Dirs
<1> QED BY <1>2, <1>3, <1>4, <1>5, <1>6, <1>7, <1>8, <1>9, <1>10, <1>11, <1>12, <1>13, <1>14,
   <1>15, <1>16 DEF ExchangeNext, CallerStep, ServerRouter, ClientRouter

(* What the client is sent changes only when the server side sends, when the *)
(* client's router reads, and when that router is gone.                     *)
LEMMA DownKept ==
    ASSUME ExchangeInv,
           \/ \E c \in Callers : CallStart(c) \/ ReserveSlot(c) \/ DropReserve(c)
                 \/ UploadWrite(c) \/ UploadEnd(c) \/ Return(c) \/ DropCall(c) \/ SendCancel(c)
           \/ \E c \in Callers : \E kind \in {"unary", "download"} : InsertPending(c, kind)
           \/ \E c \in Callers : \E after \in {"await", "upload"} : PermitSend(c, after)
           \/ DropClient \/ ServerRoute \/ ServerRouterEnd \/ ServerRouterClose
           \/ ServerRouterSignal \/ ServerRecv \/ ServerStop \/ ClientRouterEnd
           \/ ClientRouterClose \/ Subscribe \/ TakeNotice
           \/ \E how \in {"try", "wait", "lossy"} : Tell(how)
    PROVE  Down' = Down
<1> USE ExchangeAssumption
<1>1. CASE
       \/ \E c \in Callers : CallStart(c) \/ ReserveSlot(c) \/ DropReserve(c) \/ Return(c)
             \/ DropCall(c)
       \/ \E c \in Callers : \E kind \in {"unary", "download"} : InsertPending(c, kind)
       \/ DropClient \/ ServerRouterEnd \/ ServerRouterClose \/ ClientRouterEnd
       \/ ClientRouterClose \/ Subscribe \/ TakeNotice
    BY <1>1
       DEF CallStart, ReserveSlot, DropReserve, InsertPending, Return, Finish, DropCall,
           DropClient, ServerRouterEnd, ServerRouterClose, ClientRouterEnd,
           ClientRouterClose, FailPending, Subscribe, TakeNotice, Down, rvars, svars,
           callVars, nvars
<1>2. ASSUME NEW c \in Callers, NEW after \in {"await", "upload"}, PermitSend(c, after) PROVE Down' = Down
    BY <1>2, CallerFrames, PushUp
       DEF PermitSend, ExchangeInv, Calling, Down, Dirs, Queues
<1>3. ASSUME NEW c \in Callers, UploadWrite(c) PROVE Down' = Down
    BY <1>3, CallerFrames, PushUp
       DEF UploadWrite, ExchangeInv, Calling, Down, Dirs, Queues
<1>4. ASSUME NEW c \in Callers, UploadEnd(c) PROVE Down' = Down
    BY <1>4, CallerFrames, PushUp
       DEF UploadEnd, ExchangeInv, Calling, Down, Dirs, Queues
<1>5. ASSUME NEW c \in Callers, SendCancel(c) PROVE Down' = Down
    BY <1>5, CallerFrames, PushCancel
       DEF SendCancel, TrySend, ExchangeInv, Calling, Down, Dirs, Queues
<1>6. ASSUME NEW how \in {"try", "wait", "lossy"}, Tell(how) PROVE Down' = Down
    BY <1>6, ServerFrames, PushUp DEF Tell, TrySend, ExchangeInv, Down, Dirs, Queues
<1>7. CASE ServerRoute
    BY <1>7, RouteUp DEF ExchangeInv, Down, Dirs, Queues
<1>8. CASE ServerRouterSignal
    BY <1>8, LaneClear DEF ServerRouterSignal, ExchangeInv, Down, Dirs, Queues
<1>9. CASE ServerRecv
    BY <1>9, LanePop DEF ServerRecv, ExchangeInv, Down, Dirs, Queues
<1>10. CASE ServerStop
    BY <1>10, LaneClear DEF ServerStop, ExchangeInv, Down, Dirs, Queues
<1> QED BY <1>1, <1>2, <1>3, <1>4, <1>5, <1>6, <1>7, <1>8, <1>9, <1>10

-----------------------------------------------------------------------------
(* Every step keeps the bounds and the types. *)

(* Counting callers: a caller that moves between two places leaves the sets *)
(* of places it is in neither before nor after alone.                       *)
LEMMA PermitCount ==
    ASSUME TablesTyped
    PROVE  IsFiniteSet(Permits) /\ Cardinality(Permits) \in Nat
<1>1. Permits \in SUBSET Callers
    BY DEF Permits
<1> QED BY <1>1, FS_Subset, FS_CardinalityType, ExchangeAssumption

(* Counting the callers that wait for a slot or hold one. *)
LEMMA ReservingCount ==
    ASSUME TablesTyped
    PROVE  IsFiniteSet(Reserving) /\ Cardinality(Reserving) \in Nat
<1>1. Reserving \in SUBSET Callers
    BY DEF Reserving
<1> QED BY <1>1, FS_Subset, FS_CardinalityType, ExchangeAssumption

(* The length of every lane is a number. *)
LEMMA LaneLengths ==
    ASSUME LaneInv
    PROVE  \A d \in Dirs, q \in Queues : lane[d][q] \in Seq(AnyFrame) /\ Len(lane[d][q]) \in Nat
BY DEF LaneInv, LanesOK

(* A lane that grew by one frame had room for it. *)
LEMMA BoundFrom ==
    ASSUME ExchangeInv, LaneInv', Permits' = Permits,
           \A d \in Dirs, q \in Queues :
              \/ Len(lane'[d][q]) <= Len(lane[d][q])
              \/ Room(d, q) /\ Len(lane'[d][q]) = Len(lane[d][q]) + 1
    PROVE  LanesBounded'
<1> SUFFICES ASSUME NEW d \in Dirs, NEW q \in Queues
             PROVE  Len(lane'[d][q])
                       + (IF d = "toSrv" /\ q = "data" THEN Cardinality(Permits') ELSE 0) <= LaneCap
    BY DEF LanesBounded
<1>1. Len(lane[d][q]) + (IF d = "toSrv" /\ q = "data" THEN Cardinality(Permits) ELSE 0) <= LaneCap
    BY DEF ExchangeInv, ExchangeTypeOK, LanesBounded
<1>2. Len(lane[d][q]) \in Nat /\ Len(lane'[d][q]) \in Nat
    BY LaneLengths DEF ExchangeInv, LaneInv, LanesOK
<1>3. Cardinality(Permits) \in Nat /\ LaneCap \in Nat
    BY PermitCount, ExchangeAssumption DEF ExchangeInv, ExchangeTypeOK
<1>4. CASE Len(lane'[d][q]) <= Len(lane[d][q])
    BY <1>1, <1>2, <1>3, <1>4
<1>5. CASE Room(d, q) /\ Len(lane'[d][q]) = Len(lane[d][q]) + 1
  <2> DEFINE slots == IF d = "toSrv" /\ q = "data" THEN Cardinality(Permits) ELSE 0
  <2>1. slots \in Nat /\ Len(lane[d][q]) + slots < LaneCap
    BY <1>3, <1>5 DEF Room, Used
  <2> QED BY <1>2, <1>3, <1>5, <2>1
<1> QED BY <1>4, <1>5

(* A lane with room may take one more frame. *)
LEMMA BoundGrown ==
    ASSUME ExchangeInv, LaneInv', Permits' = Permits,
           NEW d \in Dirs, NEW q \in Queues, Room(d, q),
           Len(lane'[d][q]) <= Len(lane[d][q]) + 1,
           \A e \in Dirs, r \in Queues : e # d \/ r # q => Len(lane'[e][r]) <= Len(lane[e][r])
    PROVE  LanesBounded'
<1>1. ASSUME NEW e \in Dirs, NEW r \in Queues
      PROVE  \/ Len(lane'[e][r]) <= Len(lane[e][r])
             \/ Room(e, r) /\ Len(lane'[e][r]) = Len(lane[e][r]) + 1
  <2>1. CASE e = d /\ r = q
    <3>1. Len(lane[d][q]) \in Nat /\ Len(lane'[d][q]) \in Nat
      BY LaneLengths DEF ExchangeInv, LaneInv, LanesOK
    <3> QED BY <2>1, <3>1
  <2>2. CASE e # d \/ r # q
    BY <2>2
  <2> QED BY <2>1, <2>2
<1> QED BY <1>1, BoundFrom

(* Taking a frame makes no lane longer. *)
LEMMA PopShorter ==
    ASSUME LaneInv, NEW d \in Dirs, Waiting(d)
    PROVE  \A e \in Dirs, r \in Queues : Len(Popped(d)[e][r]) <= Len(lane[e][r])
<1> SUFFICES ASSUME NEW e \in Dirs, NEW r \in Queues
             PROVE  Len(Popped(d)[e][r]) <= Len(lane[e][r])
    OBVIOUS
<1>1. CASE e = d /\ r = NextQueue(d)
  <2>1. Popped(d)[e][r] = Tail(lane[e][r]) /\ lane[e][r] # <<>> /\ lane[e][r] \in Seq(AnyFrame)
    BY <1>1, LanePop, LaneLengths
  <2> QED BY <2>1, TailFacts
<1>2. CASE e # d \/ r # NextQueue(d)
  <2>1. Popped(d)[e][r] = lane[e][r]
    BY <1>2, LanePop
  <2> QED BY <2>1, LaneLengths
<1> QED BY <1>1, <1>2

(* No lane holds more than its capacity, reserved slots included. *)
LEMMA BoundKept == ASSUME ExchangeInv, ExchangeNext PROVE LanesBounded'
<1> USE ExchangeAssumption
<1>1. ASSUME lane' = lane /\ Permits' = Permits PROVE LanesBounded'
    BY <1>1 DEF ExchangeInv, ExchangeTypeOK, LanesBounded
<1>2. CASE
       \/ \E c \in Callers : CallStart(c) \/ DropReserve(c) \/ Return(c) \/ DropCall(c)
       \/ \E c \in Callers : \E kind \in {"unary", "download"} : InsertPending(c, kind)
       \/ DropClient \/ ServerRouterEnd \/ ServerRouterClose \/ ClientRouterEnd
       \/ ClientRouterClose \/ Subscribe \/ TakeNotice
  <2>1. lane' = lane /\ Permits' = Permits
    BY <1>2
       DEF CallStart, DropReserve, InsertPending, Return, Finish, DropCall, DropClient,
           ServerRouterEnd, ServerRouterClose, ClientRouterEnd, ClientRouterClose,
           FailPending, Subscribe, TakeNotice, rvars, svars, callVars, nvars,
           ExchangeInv, ExchangeTypeOK, TablesTyped, Permits
  <2> QED BY <2>1, <1>1
<1>3. ASSUME NEW c \in Callers, ReserveSlot(c) PROVE LanesBounded'
  <2>1. CASE callerAt'[c] = "permit"
    <3>1. Permits' = Permits \cup {c} /\ c \notin Permits /\ Room("toSrv", "data")
      BY <1>3, <2>1 DEF ReserveSlot, Permits, ExchangeInv, ExchangeTypeOK, TablesTyped
    <3>2. Cardinality(Permits') = Cardinality(Permits) + 1
      BY <3>1, PermitCount, FS_AddElement DEF ExchangeInv, ExchangeTypeOK
    <3> QED BY <1>3, <3>1, <3>2, LaneLengths, PermitCount
            DEF ReserveSlot, Room, Used, ExchangeInv, ExchangeTypeOK, LanesBounded, Dirs, Queues
  <2>2. CASE callerAt'[c] # "permit"
    <3>1. Permits' = Permits
      BY <1>3, <2>2 DEF ReserveSlot, Permits, ExchangeInv, ExchangeTypeOK, TablesTyped
    <3> QED BY <1>3, <3>1 DEF ReserveSlot, ExchangeInv, ExchangeTypeOK, LanesBounded
  <2> QED BY <2>1, <2>2
<1>4. ASSUME NEW c \in Callers, NEW after \in {"await", "upload"}, PermitSend(c, after) PROVE LanesBounded'
  <2>1. Permits' = Permits \ {c} /\ c \in Permits
    BY <1>4 DEF PermitSend, Permits, ExchangeInv, ExchangeTypeOK, TablesTyped
  <2>2. Cardinality(Permits') = Cardinality(Permits) - 1
    BY <2>1, PermitCount, FS_RemoveElement DEF ExchangeInv, ExchangeTypeOK
  <2>3. CASE lane' = lane
    BY <2>2, <2>3, LaneLengths, PermitCount DEF ExchangeInv, ExchangeTypeOK, LanesBounded
  <2>4. CASE lane' # lane
    <3>1. /\ lane'["toSrv"]["data"] = Append(lane["toSrv"]["data"], Frame("call", currentCall[c]))
          /\ Frame("call", currentCall[c]) \in AnyFrame
          /\ \A e \in Dirs, r \in Queues : e # "toSrv" \/ r # "data" => lane'[e][r] = lane[e][r]
      BY <1>4, <2>4, CallerFrames, PushUp DEF PermitSend, ExchangeInv, Calling, AnyFrame
    <3>2. Len(lane'["toSrv"]["data"]) = Len(lane["toSrv"]["data"]) + 1
      BY <3>1, LaneLengths DEF ExchangeInv, Dirs, Queues
    <3>3. ASSUME NEW d \in Dirs, NEW q \in Queues
          PROVE  Len(lane'[d][q])
                    + (IF d = "toSrv" /\ q = "data" THEN Cardinality(Permits') ELSE 0) <= LaneCap
      <4>1. /\ Len(lane[d][q]) \in Nat /\ Cardinality(Permits) \in Nat
            /\ Len(lane[d][q])
                  + (IF d = "toSrv" /\ q = "data" THEN Cardinality(Permits) ELSE 0) <= LaneCap
        BY LaneLengths, PermitCount DEF ExchangeInv, ExchangeTypeOK, LanesBounded
      <4>2. CASE d = "toSrv" /\ q = "data"
        BY <4>1, <4>2, <3>2, <2>2
      <4>3. CASE d # "toSrv" \/ q # "data"
        BY <4>1, <4>3, <3>1
      <4> QED BY <4>2, <4>3
    <3> QED BY <3>3 DEF LanesBounded
  <2> QED BY <2>3, <2>4
<1>5. ASSUME NEW c \in Callers, UploadWrite(c) PROVE LanesBounded'
  <2>1. Permits' = Permits
    BY <1>5 DEF UploadWrite, ExchangeInv, ExchangeTypeOK, TablesTyped, Permits, callVars, svars, rvars, nvars
  <2>2. LaneInv'
    BY LaneKept
  <2>3. CASE lane' = lane
    BY <2>1, <2>2, <2>3, BoundFrom, LaneLengths DEF ExchangeInv
  <2>4. CASE lane' # lane
    <3>1. /\ Room("toSrv", "data") /\ \E f \in AnyFrame : lane'["toSrv"]["data"] = Append(lane["toSrv"]["data"], f)
          /\ \A e \in Dirs, r \in Queues : e # "toSrv" \/ r # "data" => lane'[e][r] = lane[e][r]
      BY <1>5, <2>4, CallerFrames, PushUp, MadeFrames, FrameQueues DEF UploadWrite, ExchangeInv, Calling, AnyFrame
    <3>2. /\ Room("toSrv", "data") /\ "toSrv" \in Dirs /\ "data" \in Queues
          /\ Len(lane'["toSrv"]["data"]) <= Len(lane["toSrv"]["data"]) + 1
      BY <3>1, LaneLengths DEF ExchangeInv, Dirs, Queues
    <3>3. \A e \in Dirs, r \in Queues : e # "toSrv" \/ r # "data" => Len(lane'[e][r]) <= Len(lane[e][r])
      BY <3>1, LaneLengths DEF ExchangeInv
    <3> QED BY <3>2, <3>3, <2>1, <2>2, BoundGrown
  <2> QED BY <2>3, <2>4
<1>6. ASSUME NEW c \in Callers, UploadEnd(c) PROVE LanesBounded'
  <2>1. Permits' = Permits
    BY <1>6 DEF UploadEnd, Finish, ExchangeInv, ExchangeTypeOK, TablesTyped, Permits, callVars, svars, rvars, nvars
  <2>2. LaneInv'
    BY LaneKept
  <2>3. CASE lane' = lane
    BY <2>1, <2>2, <2>3, BoundFrom, LaneLengths DEF ExchangeInv
  <2>4. CASE lane' # lane
    <3>1. /\ Room("toSrv", "data") /\ \E f \in AnyFrame : lane'["toSrv"]["data"] = Append(lane["toSrv"]["data"], f)
          /\ \A e \in Dirs, r \in Queues : e # "toSrv" \/ r # "data" => lane'[e][r] = lane[e][r]
      BY <1>6, <2>4, CallerFrames, PushUp, MadeFrames, FrameQueues DEF UploadEnd, Finish, ExchangeInv, Calling, AnyFrame
    <3>2. /\ Room("toSrv", "data") /\ "toSrv" \in Dirs /\ "data" \in Queues
          /\ Len(lane'["toSrv"]["data"]) <= Len(lane["toSrv"]["data"]) + 1
      BY <3>1, LaneLengths DEF ExchangeInv, Dirs, Queues
    <3>3. \A e \in Dirs, r \in Queues : e # "toSrv" \/ r # "data" => Len(lane'[e][r]) <= Len(lane[e][r])
      BY <3>1, LaneLengths DEF ExchangeInv
    <3> QED BY <3>2, <3>3, <2>1, <2>2, BoundGrown
  <2> QED BY <2>3, <2>4
<1>7. ASSUME NEW c \in Callers, SendCancel(c) PROVE LanesBounded'
  <2>1. Permits' = Permits
    BY <1>7 DEF SendCancel, Finish, TrySend, ExchangeInv, ExchangeTypeOK, TablesTyped, Permits, callVars, svars, rvars, nvars
  <2>2. LaneInv'
    BY LaneKept
  <2>3. CASE lane' = lane
    BY <2>1, <2>2, <2>3, BoundFrom, LaneLengths DEF ExchangeInv
  <2>4. CASE lane' # lane
    <3>1. /\ Room("toSrv", "control") /\ \E f \in AnyFrame : lane'["toSrv"]["control"] = Append(lane["toSrv"]["control"], f)
          /\ \A e \in Dirs, r \in Queues : e # "toSrv" \/ r # "control" => lane'[e][r] = lane[e][r]
      BY <1>7, <2>4, CallerFrames, PushCancel, MadeFrames, FrameQueues DEF SendCancel, Finish, TrySend, ExchangeInv, Calling, AnyFrame
    <3>2. /\ Room("toSrv", "control") /\ "toSrv" \in Dirs /\ "control" \in Queues
          /\ Len(lane'["toSrv"]["control"]) <= Len(lane["toSrv"]["control"]) + 1
      BY <3>1, LaneLengths DEF ExchangeInv, Dirs, Queues
    <3>3. \A e \in Dirs, r \in Queues : e # "toSrv" \/ r # "control" => Len(lane'[e][r]) <= Len(lane[e][r])
      BY <3>1, LaneLengths DEF ExchangeInv
    <3> QED BY <3>2, <3>3, <2>1, <2>2, BoundGrown
  <2> QED BY <2>3, <2>4
<1>8. ASSUME NEW how \in {"try", "wait", "lossy"}, Tell(how) PROVE LanesBounded'
  <2>1. Permits' = Permits
    BY <1>8 DEF Tell, TrySend, ExchangeInv, ExchangeTypeOK, TablesTyped, Permits, callVars, svars, rvars, nvars
  <2>2. LaneInv'
    BY LaneKept
  <2>3. CASE lane' = lane
    BY <2>1, <2>2, <2>3, BoundFrom, LaneLengths DEF ExchangeInv
  <2>4. CASE lane' # lane
    <3>1. /\ Room("toSrv", "data") /\ \E f \in AnyFrame : lane'["toSrv"]["data"] = Append(lane["toSrv"]["data"], f)
          /\ \A e \in Dirs, r \in Queues : e # "toSrv" \/ r # "data" => lane'[e][r] = lane[e][r]
      BY <1>8, <2>4, ServerFrames, PushUp, MadeFrames, FrameQueues DEF Tell, TrySend, ExchangeInv, Calling, AnyFrame
    <3>2. /\ Room("toSrv", "data") /\ "toSrv" \in Dirs /\ "data" \in Queues
          /\ Len(lane'["toSrv"]["data"]) <= Len(lane["toSrv"]["data"]) + 1
      BY <3>1, LaneLengths DEF ExchangeInv, Dirs, Queues
    <3>3. \A e \in Dirs, r \in Queues : e # "toSrv" \/ r # "data" => Len(lane'[e][r]) <= Len(lane[e][r])
      BY <3>1, LaneLengths DEF ExchangeInv
    <3> QED BY <3>2, <3>3, <2>1, <2>2, BoundGrown
  <2> QED BY <2>3, <2>4
<1>9. CASE ServerRoute
  <2>1. Permits' = Permits
    BY <1>9 DEF ServerRoute, ExchangeInv, ExchangeTypeOK, TablesTyped, Permits, callVars, svars, rvars, nvars
  <2>2. LaneInv'
    BY LaneKept
  <2>3. PICK q \in Queues :
             /\ lane["toSrv"][q] # <<>> /\ lane'["toSrv"][q] = Tail(lane["toSrv"][q])
             /\ \/ lane'["srvIn"][q] = lane["srvIn"][q]
                \/ /\ lane'["srvIn"][q] = Append(lane["srvIn"][q], Head(lane["toSrv"][q]))
                   /\ Len(lane["srvIn"][q]) < LaneCap
             /\ \A e \in Dirs, r \in Queues : r # q \/ e = "toCli" => lane'[e][r] = lane[e][r]
      BY <1>9, RouteUp DEF ExchangeInv
  <2>4. /\ lane["toSrv"][q] \in Seq(AnyFrame) /\ lane["srvIn"][q] \in Seq(AnyFrame)
        /\ Head(lane["toSrv"][q]) \in AnyFrame
    BY <2>3, LaneLengths, TailFacts DEF ExchangeInv, Dirs
  <2>5. Len(lane'["toSrv"][q]) <= Len(lane["toSrv"][q])
    BY <2>3, <2>4, TailFacts
  <2>6. \/ Len(lane'["srvIn"][q]) <= Len(lane["srvIn"][q])
        \/ Room("srvIn", q) /\ Len(lane'["srvIn"][q]) = Len(lane["srvIn"][q]) + 1
    BY <2>3, <2>4, AppendFacts DEF Room, Used
  <2>7. ASSUME NEW e \in Dirs, NEW r \in Queues, e # "srvIn" \/ r # q
        PROVE  Len(lane'[e][r]) <= Len(lane[e][r])
    <3>1. CASE e = "toSrv" /\ r = q
      BY <3>1, <2>5
    <3>2. CASE e = "toCli" \/ r # q
      <4>1. lane'[e][r] = lane[e][r]
        BY <3>2, <2>3
      <4> QED BY <4>1, LaneLengths DEF ExchangeInv
    <3> QED BY <3>1, <3>2, <2>7 DEF Dirs
  <2>8. CASE Room("srvIn", q) /\ Len(lane'["srvIn"][q]) = Len(lane["srvIn"][q]) + 1
    BY <2>1, <2>2, <2>7, <2>8, BoundGrown, LaneLengths DEF ExchangeInv, Dirs
  <2>9. CASE Len(lane'["srvIn"][q]) <= Len(lane["srvIn"][q])
    <3>1. \A e \in Dirs, r \in Queues : Len(lane'[e][r]) <= Len(lane[e][r])
      BY <2>7, <2>9
    <3> QED BY <3>1, <2>1, <2>2, BoundFrom
  <2> QED BY <2>6, <2>8, <2>9
<1>10. CASE ServerRouterSignal
  <2>1. Permits' = Permits
    BY <1>10 DEF ServerRouterSignal, ExchangeInv, ExchangeTypeOK, TablesTyped, Permits, callVars, svars, rvars, nvars
  <2>2. LaneInv'
    BY LaneKept
  <2>3. \A e \in Dirs, r \in Queues : Len(lane'[e][r]) <= Len(lane[e][r])
    BY <1>10, LaneClear, LaneLengths DEF ServerRouterSignal, ExchangeInv, Dirs
  <2> QED BY <2>1, <2>2, <2>3, BoundFrom
<1>11. CASE ServerRecv
  <2>1. Permits' = Permits
    BY <1>11 DEF ServerRecv, ExchangeInv, ExchangeTypeOK, TablesTyped, Permits, callVars, svars, rvars, nvars
  <2>2. LaneInv'
    BY LaneKept
  <2>3. \A e \in Dirs, r \in Queues : Len(lane'[e][r]) <= Len(lane[e][r])
    BY <1>11, PopShorter DEF ServerRecv, ExchangeInv, Dirs
  <2> QED BY <2>1, <2>2, <2>3, BoundFrom
<1>12. CASE ServerStop
  <2>1. Permits' = Permits
    BY <1>12 DEF ServerStop, ExchangeInv, ExchangeTypeOK, TablesTyped, Permits, callVars, svars, rvars, nvars
  <2>2. LaneInv'
    BY LaneKept
  <2>3. \A e \in Dirs, r \in Queues : Len(lane'[e][r]) <= Len(lane[e][r])
    BY <1>12, LaneClear, LaneLengths DEF ServerStop, ExchangeInv, Dirs
  <2> QED BY <2>1, <2>2, <2>3, BoundFrom
<1>13. ASSUME NEW id \in CallIds, SendChunk(id) PROVE LanesBounded'
  <2>1. Permits' = Permits
    BY <1>13 DEF SendChunk, ExchangeInv, ExchangeTypeOK, TablesTyped, Permits, callVars, svars, rvars, nvars
  <2>2. LaneInv'
    BY LaneKept
  <2>3. CASE lane' = lane
    BY <2>1, <2>2, <2>3, BoundFrom, LaneLengths DEF ExchangeInv
  <2>4. CASE lane' # lane
    <3>1. /\ Room("toCli", "data") /\ Len(lane'["toCli"]["data"]) = Len(lane["toCli"]["data"]) + 1
          /\ \A e \in Dirs, r \in Queues : e # "toCli" \/ r # "data" => lane'[e][r] = lane[e][r]
      <4>1. PICK f \in DownFrame : Push("toCli", f) /\ Room("toCli", "data")
        BY <1>13, <2>4, ServerFrames, MadeFrames DEF SendChunk
      <4>2. Down' = Append(Down, f) /\ Down \in Seq(DownFrame)
        BY <4>1, PushDown DEF ExchangeInv
      <4>3. Len(Down') = Len(Down) + 1
        BY <4>2, AppendFacts
      <4>4. \A e \in Dirs, r \in Queues : e # "toCli" \/ r # "data" => lane'[e][r] = lane[e][r]
        BY <4>1, PushDown DEF ExchangeInv
      <4> QED BY <4>1, <4>3, <4>4 DEF Down
    <3>2. \A e \in Dirs, r \in Queues : e # "toCli" \/ r # "data" => Len(lane'[e][r]) <= Len(lane[e][r])
      BY <3>1, LaneLengths DEF ExchangeInv
    <3> QED BY <3>1, <3>2, <2>1, <2>2, BoundGrown, LaneLengths DEF ExchangeInv, Dirs, Queues
  <2> QED BY <2>3, <2>4
<1>14. ASSUME NEW id \in CallIds, Reply(id) PROVE LanesBounded'
  <2>1. Permits' = Permits
    BY <1>14 DEF Reply, ExchangeInv, ExchangeTypeOK, TablesTyped, Permits, callVars, svars, rvars, nvars
  <2>2. LaneInv'
    BY LaneKept
  <2>3. CASE lane' = lane
    BY <2>1, <2>2, <2>3, BoundFrom, LaneLengths DEF ExchangeInv
  <2>4. CASE lane' # lane
    <3>1. /\ Room("toCli", "data") /\ Len(lane'["toCli"]["data"]) = Len(lane["toCli"]["data"]) + 1
          /\ \A e \in Dirs, r \in Queues : e # "toCli" \/ r # "data" => lane'[e][r] = lane[e][r]
      <4>1. PICK f \in DownFrame : Push("toCli", f) /\ Room("toCli", "data")
        BY <1>14, <2>4, ServerFrames, MadeFrames DEF Reply
      <4>2. Down' = Append(Down, f) /\ Down \in Seq(DownFrame)
        BY <4>1, PushDown DEF ExchangeInv
      <4>3. Len(Down') = Len(Down) + 1
        BY <4>2, AppendFacts
      <4>4. \A e \in Dirs, r \in Queues : e # "toCli" \/ r # "data" => lane'[e][r] = lane[e][r]
        BY <4>1, PushDown DEF ExchangeInv
      <4> QED BY <4>1, <4>3, <4>4 DEF Down
    <3>2. \A e \in Dirs, r \in Queues : e # "toCli" \/ r # "data" => Len(lane'[e][r]) <= Len(lane[e][r])
      BY <3>1, LaneLengths DEF ExchangeInv
    <3> QED BY <3>1, <3>2, <2>1, <2>2, BoundGrown, LaneLengths DEF ExchangeInv, Dirs, Queues
  <2> QED BY <2>3, <2>4
<1>15. CASE Notice
  <2>1. Permits' = Permits
    BY <1>15 DEF Notice, ExchangeInv, ExchangeTypeOK, TablesTyped, Permits, callVars, svars, rvars, nvars
  <2>2. LaneInv'
    BY LaneKept
  <2>3. CASE lane' = lane
    BY <2>1, <2>2, <2>3, BoundFrom, LaneLengths DEF ExchangeInv
  <2>4. CASE lane' # lane
    <3>1. /\ Room("toCli", "data") /\ Len(lane'["toCli"]["data"]) = Len(lane["toCli"]["data"]) + 1
          /\ \A e \in Dirs, r \in Queues : e # "toCli" \/ r # "data" => lane'[e][r] = lane[e][r]
      <4>1. PICK f \in DownFrame : Push("toCli", f) /\ Room("toCli", "data")
        BY <1>15, <2>4, ServerFrames, MadeFrames DEF Notice
      <4>2. Down' = Append(Down, f) /\ Down \in Seq(DownFrame)
        BY <4>1, PushDown DEF ExchangeInv
      <4>3. Len(Down') = Len(Down) + 1
        BY <4>2, AppendFacts
      <4>4. \A e \in Dirs, r \in Queues : e # "toCli" \/ r # "data" => lane'[e][r] = lane[e][r]
        BY <4>1, PushDown DEF ExchangeInv
      <4> QED BY <4>1, <4>3, <4>4 DEF Down
    <3>2. \A e \in Dirs, r \in Queues : e # "toCli" \/ r # "data" => Len(lane'[e][r]) <= Len(lane[e][r])
      BY <3>1, LaneLengths DEF ExchangeInv
    <3> QED BY <3>1, <3>2, <2>1, <2>2, BoundGrown, LaneLengths DEF ExchangeInv, Dirs, Queues
  <2> QED BY <2>3, <2>4
<1>16. CASE ClientRoute
  <2>1. Permits' = Permits
    BY <1>16 DEF ClientRoute, RouteReply, RouteChunk, RouteNotice, Settle, ExchangeInv, ExchangeTypeOK, TablesTyped, Permits, callVars, svars, rvars, nvars
  <2>2. LaneInv'
    BY LaneKept
  <2>3. \A e \in Dirs, r \in Queues : Len(lane'[e][r]) <= Len(lane[e][r])
    BY <1>16, PopShorter DEF ClientRoute, ExchangeInv, Dirs
  <2> QED BY <2>1, <2>2, <2>3, BoundFrom
<1>17. CASE ClientRouterSignal
  <2>1. Permits' = Permits
    BY <1>17 DEF ClientRouterSignal, ExchangeInv, ExchangeTypeOK, TablesTyped, Permits, callVars, svars, rvars, nvars
  <2>2. LaneInv'
    BY LaneKept
  <2>3. \A e \in Dirs, r \in Queues : Len(lane'[e][r]) <= Len(lane[e][r])
    BY <1>17, LaneClear, LaneLengths DEF ClientRouterSignal, ExchangeInv, Dirs
  <2> QED BY <2>1, <2>2, <2>3, BoundFrom
<1> QED BY <1>2, <1>3, <1>4, <1>5, <1>6, <1>7, <1>8, <1>9, <1>10, <1>11, <1>12, <1>13, <1>14,
   <1>15, <1>16, <1>17 DEF ExchangeNext, CallerStep, ServerRouter, ClientRouter

(* The tables keep their types: an id is handed out only to a caller the     *)
(* bound on ids has counted.                                                *)
LEMMA TablesKept == ASSUME ExchangeInv, ExchangeNext PROVE TablesTyped'
<1> USE ExchangeAssumption
<1>1. ASSUME UNCHANGED <<shut, gone, crouter, srouter, server, client, work, sent, nextCall,
                        awaiting, result, callerAt, currentCall>> PROVE TablesTyped'
    BY <1>1 DEF ExchangeInv, ExchangeTypeOK, TablesTyped
<1>2. CASE
       \/ \E c \in Callers : UploadWrite(c)
       \/ Notice \/ Subscribe \/ TakeNotice
  <2>1. UNCHANGED <<shut, gone, crouter, srouter, server, client, work, sent, nextCall,
                        awaiting, result, callerAt, currentCall>>
    BY <1>2
       DEF UploadWrite, Notice, Subscribe, TakeNotice, rvars, svars, callVars, nvars
  <2> QED BY <2>1, <1>1
<1>3. ASSUME NEW c \in Callers, CallStart(c) PROVE TablesTyped'
    BY <1>3
       DEF CallStart, rvars, svars, callVars, nvars, ExchangeInv, ExchangeTypeOK,
           TablesTyped, Dirs, CallIds
<1>4. ASSUME NEW c \in Callers, ReserveSlot(c) PROVE TablesTyped'
    BY <1>4
       DEF ReserveSlot, rvars, svars, callVars, nvars, ExchangeInv, ExchangeTypeOK,
           TablesTyped, Dirs, CallIds
<1>5. ASSUME NEW c \in Callers, DropReserve(c) PROVE TablesTyped'
    BY <1>5
       DEF DropReserve, rvars, svars, callVars, nvars, ExchangeInv, ExchangeTypeOK,
           TablesTyped, Dirs, CallIds
<1>6. ASSUME NEW c \in Callers, NEW kind \in {"unary", "download"}, InsertPending(c, kind) PROVE TablesTyped'
  <2>1. nextCall \in CallIds
    <3>1. c \in Reserving
      BY <1>6 DEF InsertPending, Reserving
    <3>2. Cardinality(Reserving) # 0
      BY <3>1, ReservingCount, FS_EmptySet DEF ExchangeInv, ExchangeTypeOK
    <3> QED BY <3>2, ReservingCount DEF ExchangeInv, ReserveInv, ExchangeTypeOK, TablesTyped, CallIds
  <2> QED BY <1>6, <2>1 DEF InsertPending, CallIds, ExchangeInv, ExchangeTypeOK, TablesTyped,
                         rvars, svars, nvars
<1>7. ASSUME NEW c \in Callers, NEW after \in {"await", "upload"}, PermitSend(c, after) PROVE TablesTyped'
    BY <1>7
       DEF PermitSend, rvars, svars, callVars, nvars, ExchangeInv, ExchangeTypeOK,
           TablesTyped, Dirs, CallIds
<1>8. ASSUME NEW c \in Callers, UploadEnd(c) PROVE TablesTyped'
  <2>1. callerAt' \in {[callerAt EXCEPT ![c] = "await"], [callerAt EXCEPT ![c] = "idle"]}
    BY <1>8 DEF UploadEnd, Finish
  <2>2. currentCall' \in {currentCall, [currentCall EXCEPT ![c] = 0]}
    BY <1>8 DEF UploadEnd, Finish
  <2>3. awaiting' \in {awaiting, [awaiting EXCEPT ![currentCall[c]] = "none"]}
    BY <1>8 DEF UploadEnd
  <2>4. UNCHANGED <<shut, gone, crouter, srouter, server, client, work, sent, nextCall, result>>
    BY <1>8 DEF UploadEnd, rvars, svars
  <2>5. currentCall' \in [Callers -> 0..MaxCalls]
    BY <2>2, Bounds DEF ExchangeInv, ExchangeTypeOK, TablesTyped
  <2>6. awaiting' \in [CallIds -> {"none", "unary", "download"}]
    BY <2>3 DEF ExchangeInv, ExchangeTypeOK, TablesTyped
  <2>7. callerAt' \in [Callers -> {"idle", "reserve", "permit", "inserted", "await", "upload", "cancel"}]
    BY <2>1 DEF ExchangeInv, ExchangeTypeOK, TablesTyped
  <2> QED BY <2>4, <2>5, <2>6, <2>7 DEF ExchangeInv, ExchangeTypeOK, TablesTyped
<1>9. ASSUME NEW c \in Callers, Return(c) PROVE TablesTyped'
    BY <1>9
       DEF Return, Finish, rvars, svars, callVars, nvars, ExchangeInv, ExchangeTypeOK,
           TablesTyped, Dirs, CallIds
<1>10. ASSUME NEW c \in Callers, DropCall(c) PROVE TablesTyped'
    BY <1>10
       DEF DropCall, rvars, svars, callVars, nvars, ExchangeInv, ExchangeTypeOK,
           TablesTyped, Dirs, CallIds
<1>11. ASSUME NEW c \in Callers, SendCancel(c) PROVE TablesTyped'
  <2>1. callerAt' = [callerAt EXCEPT ![c] = "idle"] /\ currentCall' = [currentCall EXCEPT ![c] = 0]
    BY <1>11 DEF SendCancel, Finish
  <2>2. shut' = shut \/ shut' = [shut EXCEPT !["toSrv"] = TRUE]
    BY <1>11 DEF SendCancel, TrySend
  <2>3. UNCHANGED <<gone, crouter, srouter, server, client, work, sent, nextCall, awaiting, result>>
    BY <1>11 DEF SendCancel, rvars, svars, callVars
  <2>4. currentCall' \in [Callers -> 0..MaxCalls] /\ shut' \in [Dirs -> BOOLEAN]
    BY <2>1, <2>2, Bounds DEF ExchangeInv, ExchangeTypeOK, TablesTyped
  <2> QED BY <2>1, <2>3, <2>4 DEF ExchangeInv, ExchangeTypeOK, TablesTyped
<1>12. CASE DropClient
    BY <1>12
       DEF DropClient, rvars, svars, callVars, nvars, ExchangeInv, ExchangeTypeOK,
           TablesTyped, Dirs, CallIds
<1>13. ASSUME NEW how \in {"try", "wait", "lossy"}, Tell(how) PROVE TablesTyped'
    BY <1>13
       DEF Tell, TrySend, rvars, svars, callVars, nvars, ExchangeInv, ExchangeTypeOK,
           TablesTyped, Dirs
<1>14. CASE ServerRoute
    BY <1>14
       DEF ServerRoute, svars, callVars, ExchangeInv, ExchangeTypeOK, TablesTyped, Dirs
<1>15. CASE ServerRouterEnd
    BY <1>15
       DEF ServerRouterEnd, rvars, svars, callVars, nvars, ExchangeInv, ExchangeTypeOK,
           TablesTyped, Dirs, CallIds
<1>16. CASE ServerRouterClose
    BY <1>16
       DEF ServerRouterClose, rvars, svars, callVars, nvars, ExchangeInv,
           ExchangeTypeOK, TablesTyped, Dirs, CallIds
<1>17. CASE ServerRouterSignal
    BY <1>17
       DEF ServerRouterSignal, rvars, svars, callVars, nvars, ExchangeInv,
           ExchangeTypeOK, TablesTyped, Dirs, CallIds
<1>18. CASE ServerRecv
  <2>1. FirstFrame("srvIn").t = "cancel" => FirstFrame("srvIn").id \in CallIds
    <3>1. FirstFrame("srvIn") \in UpFrame \cup CancelFrame
      BY <1>18, LanePop, LaneFrames DEF ServerRecv, ExchangeInv, Dirs, Queues
    <3> QED BY <3>1 DEF UpFrame, CancelFrame
  <2> QED BY <1>18, <2>1 DEF ServerRecv, ExchangeInv, ExchangeTypeOK, TablesTyped, rvars, callVars
<1>19. CASE ServerStop
    BY <1>19
       DEF ServerStop, rvars, svars, callVars, nvars, ExchangeInv, ExchangeTypeOK,
           TablesTyped, Dirs, CallIds
<1>20. ASSUME NEW id \in CallIds, SendChunk(id) PROVE TablesTyped'
    BY <1>20
       DEF SendChunk, rvars, svars, callVars, nvars, ExchangeInv, ExchangeTypeOK,
           TablesTyped, Dirs, CallIds
<1>21. ASSUME NEW id \in CallIds, Reply(id) PROVE TablesTyped'
    BY <1>21
       DEF Reply, rvars, svars, callVars, nvars, ExchangeInv, ExchangeTypeOK,
           TablesTyped, Dirs, CallIds
<1>22. CASE ClientRoute
  <2>1. work' = work /\ sent' = sent /\ server' = server
    BY <1>22 DEF ClientRoute, svars
  <2>2. CASE RouteReply(FirstFrame("toCli"))
    BY <1>22, <2>1, <2>2 DEF ClientRoute, RouteReply, Settle, ExchangeInv, ExchangeTypeOK, TablesTyped
  <2>3. CASE RouteChunk(FirstFrame("toCli"))
    BY <1>22, <2>1, <2>3 DEF ClientRoute, RouteChunk, ExchangeInv, ExchangeTypeOK, TablesTyped
  <2>4. CASE RouteNotice(FirstFrame("toCli"))
    BY <1>22, <2>1, <2>4 DEF ClientRoute, RouteNotice, ExchangeInv, ExchangeTypeOK, TablesTyped
  <2> QED BY <1>22, <2>2, <2>3, <2>4 DEF ClientRoute
<1>23. CASE ClientRouterEnd
    BY <1>23
       DEF ClientRouterEnd, rvars, svars, callVars, nvars, ExchangeInv, ExchangeTypeOK,
           TablesTyped, Dirs, CallIds
<1>24. CASE ClientRouterClose
    BY <1>24
       DEF ClientRouterClose, FailPending, rvars, svars, callVars, nvars, ExchangeInv,
           ExchangeTypeOK, TablesTyped, Dirs, CallIds
<1>25. CASE ClientRouterSignal
    BY <1>25
       DEF ClientRouterSignal, rvars, svars, callVars, nvars, ExchangeInv,
           ExchangeTypeOK, TablesTyped, Dirs, CallIds
<1> QED BY <1>2, <1>3, <1>4, <1>5, <1>6, <1>7, <1>8, <1>9, <1>10, <1>11, <1>12, <1>13, <1>14,
   <1>15, <1>16, <1>17, <1>18, <1>19, <1>20, <1>21, <1>22, <1>23, <1>24, <1>25
   DEF ExchangeNext, CallerStep, ServerRouter, ClientRouter

(* The ids last for everybody who waits for a slot. *)
LEMMA ReserveKept == ASSUME ExchangeInv, ExchangeNext PROVE ReserveInv'
<1> USE ExchangeAssumption
<1>1. ASSUME nextCall' = nextCall /\ Reserving' = Reserving PROVE ReserveInv'
    BY <1>1 DEF ExchangeInv, ReserveInv
<1>2. CASE
       \/ \E c \in Callers : \E after \in {"await", "upload"} : PermitSend(c, after)
       \/ \E c \in Callers : UploadWrite(c) \/ UploadEnd(c) \/ Return(c) \/ DropCall(c)
             \/ SendCancel(c)
       \/ DropClient \/ ServerRoute \/ ServerRouterEnd \/ ServerRouterClose
       \/ ServerRouterSignal \/ ServerRecv \/ ServerStop \/ Notice \/ ClientRoute
       \/ ClientRouterEnd \/ ClientRouterClose \/ ClientRouterSignal \/ Subscribe \/ TakeNotice
       \/ \E how \in {"try", "wait", "lossy"} : Tell(how)
       \/ \E id \in CallIds : SendChunk(id) \/ Reply(id)
  <2>1. nextCall' = nextCall /\ Reserving' = Reserving
    BY <1>2
       DEF PermitSend, UploadWrite, UploadEnd, Finish, Return, DropCall, SendCancel,
           TrySend, DropClient, Tell, ServerRoute, ServerRouterEnd, ServerRouterClose,
           ServerRouterSignal, ServerRecv, ServerStop, SendChunk, Reply, Notice,
           ClientRoute, RouteReply, RouteChunk, RouteNotice, Settle, ClientRouterEnd,
           ClientRouterClose, FailPending, ClientRouterSignal, Subscribe, TakeNotice,
           rvars, svars, callVars, nvars, ExchangeInv, ExchangeTypeOK, TablesTyped,
           Reserving
  <2> QED BY <2>1, <1>1
<1>3. ASSUME NEW c \in Callers, CallStart(c) PROVE ReserveInv'
  <2>1. Reserving' = Reserving \cup {c} /\ c \notin Reserving
    BY <1>3 DEF CallStart, Reserving, ExchangeInv, ExchangeTypeOK, TablesTyped
  <2>2. Cardinality(Reserving') = Cardinality(Reserving) + 1
    BY <2>1, ReservingCount, FS_AddElement DEF ExchangeInv, ExchangeTypeOK
  <2> QED BY <1>3, <2>2, ReservingCount
          DEF CallStart, callVars, Reserving, ReserveInv, ExchangeInv, ExchangeTypeOK, TablesTyped
<1>4. ASSUME NEW c \in Callers, ReserveSlot(c) PROVE ReserveInv'
  <2>1. Reserving' = Reserving \ {c} \/ Reserving' = Reserving
    BY <1>4 DEF ReserveSlot, Reserving, ExchangeInv, ExchangeTypeOK, TablesTyped
  <2>2. Cardinality(Reserving') <= Cardinality(Reserving) /\ Cardinality(Reserving') \in Nat
    <3>1. IsFiniteSet(Reserving) /\ Cardinality(Reserving) \in Nat
      BY ReservingCount DEF ExchangeInv, ExchangeTypeOK
    <3>2. Reserving \ {c} \in SUBSET Reserving
      OBVIOUS
    <3>3. /\ Cardinality(Reserving \ {c}) <= Cardinality(Reserving)
          /\ Cardinality(Reserving \ {c}) \in Nat
      BY <3>1, <3>2, FS_Subset, FS_CardinalityType
    <3> QED BY <2>1, <3>1, <3>3
  <2> QED BY <1>4, <2>2, ReservingCount
          DEF ReserveSlot, callVars, ReserveInv, ExchangeInv, ExchangeTypeOK, TablesTyped
<1>5. ASSUME NEW c \in Callers, DropReserve(c) PROVE ReserveInv'
  <2>1. Reserving' = Reserving \ {c} \/ Reserving' = Reserving
    BY <1>5 DEF DropReserve, Reserving, ExchangeInv, ExchangeTypeOK, TablesTyped
  <2>2. Cardinality(Reserving') <= Cardinality(Reserving) /\ Cardinality(Reserving') \in Nat
    <3>1. IsFiniteSet(Reserving) /\ Cardinality(Reserving) \in Nat
      BY ReservingCount DEF ExchangeInv, ExchangeTypeOK
    <3>2. Reserving \ {c} \in SUBSET Reserving
      OBVIOUS
    <3>3. /\ Cardinality(Reserving \ {c}) <= Cardinality(Reserving)
          /\ Cardinality(Reserving \ {c}) \in Nat
      BY <3>1, <3>2, FS_Subset, FS_CardinalityType
    <3> QED BY <2>1, <3>1, <3>3
  <2> QED BY <1>5, <2>2, ReservingCount
          DEF DropReserve, callVars, ReserveInv, ExchangeInv, ExchangeTypeOK, TablesTyped
<1>6. ASSUME NEW c \in Callers, NEW kind \in {"unary", "download"}, InsertPending(c, kind) PROVE ReserveInv'
  <2>1. Reserving' = Reserving \ {c} /\ c \in Reserving
    BY <1>6 DEF InsertPending, Reserving, ExchangeInv, ExchangeTypeOK, TablesTyped
  <2>2. Cardinality(Reserving') = Cardinality(Reserving) - 1
    BY <2>1, ReservingCount, FS_RemoveElement DEF ExchangeInv, ExchangeTypeOK
  <2> QED BY <1>6, <2>2, ReservingCount
          DEF InsertPending, ReserveInv, ExchangeInv, ExchangeTypeOK, TablesTyped
<1> QED BY <1>2, <1>3, <1>4, <1>5, <1>6 DEF ExchangeNext, CallerStep, ServerRouter, ClientRouter

-----------------------------------------------------------------------------
(* Every step keeps the calls apart. *)

(* What the server receives: a call frame is one the invariant knows, and   *)
(* every cancellation names a call.                                         *)
LEMMA ReceivedFrame ==
    ASSUME ExchangeInv, ServerRecv
    PROVE  LET f == FirstFrame("srvIn") IN
           /\ f.t = "call" => /\ In # <<>> /\ f = In[1] /\ f.id \in CallIds
                              /\ f.id < nextCall /\ work[f.id] = "none"
           /\ f.t = "cancel" => f.id \in CallIds
           /\ \/ In' = In /\ f.t = "cancel"
              \/ In # <<>> /\ f = In[1] /\ In' = Tail(In)
           /\ Up' = Up
<1> DEFINE f == FirstFrame("srvIn")
           q == NextQueue("srvIn")
<1>1. /\ "srvIn" \in Dirs /\ "toSrv" \in Dirs /\ "data" \in Queues /\ Waiting("srvIn")
      /\ lane' = Popped("srvIn")
    BY DEF Dirs, Queues, ServerRecv
<1>2. /\ q \in Queues /\ lane["srvIn"][q] # <<>> /\ lane["srvIn"][q] \in Seq(FramesOf("srvIn", q))
      /\ f = lane["srvIn"][q][1] /\ f \in FramesOf("srvIn", q)
      /\ lane'["srvIn"][q] = Tail(lane["srvIn"][q])
      /\ \A e \in Dirs, r \in Queues : e # "srvIn" \/ r # q => lane'[e][r] = lane[e][r]
    BY <1>1, LanePop DEF ExchangeInv
<1>3. CASE q = "control"
  <2>1. FramesOf("srvIn", q) = CancelFrame
    BY <1>3, LaneFrames
  <2>2. f.t = "cancel" /\ f.id \in CallIds
    <3>1. f \in CancelFrame
      BY <1>2, <2>1
    <3> QED BY <3>1 DEF CancelFrame
  <2>3. /\ lane'["srvIn"]["data"] = lane["srvIn"]["data"]
        /\ lane'["toSrv"]["data"] = lane["toSrv"]["data"]
    BY <1>1, <1>2, <1>3
  <2> QED BY <2>2, <2>3 DEF In, Up
<1>4. CASE q = "data"
  <2>1. f \in UpFrame /\ lane["srvIn"]["data"] \in Seq(UpFrame) /\ f.t # "cancel"
    <3>1. FramesOf("srvIn", q) = UpFrame
      BY <1>4, LaneFrames
    <3>2. f \in UpFrame /\ lane["srvIn"]["data"] \in Seq(UpFrame)
      BY <1>2, <1>4, <3>1
    <3>3. f.t # "cancel"
      BY <3>2 DEF UpFrame
    <3> QED BY <3>2, <3>3
  <2>2. 1 \in 1..Len(lane["srvIn"]["data"])
    BY <2>1, <1>2, <1>4, TailFacts
  <2>3. ASSUME f.t = "call" PROVE f.id \in CallIds /\ f.id < nextCall /\ work[f.id] = "none"
    <3>1. Travelling(f.id)
      BY <2>2, <2>3, <1>2, <1>4 DEF IsCall, AllTravel, In, ExchangeInv, TravelInv
    <3> QED BY <3>1, Bounds DEF Travelling, ExchangeInv, ExchangeTypeOK, TablesTyped, CallIds
  <2>4. In # <<>> /\ f = In[1] /\ In' = Tail(In) /\ Up' = Up
    BY <1>1, <1>2, <1>4 DEF In, Up
  <2> QED BY <2>1, <2>3, <2>4
<1> QED BY <1>2, <1>3, <1>4 DEF Queues

(* What the client's router reads. *)
LEMMA RoutedFrame ==
    ASSUME ExchangeInv, ClientRoute
    PROVE  /\ FirstFrame("toCli") = Down[1] /\ Down # <<>> /\ Down \in Seq(DownFrame)
           /\ Down' = Tail(Down) /\ Len(Down) \in Nat \ {0} /\ Down[1] \in DownFrame
           /\ Len(Down') = Len(Down) - 1
           /\ \A i \in 1..Len(Down') : Down'[i] = Down[i + 1]
           /\ \A q \in Queues, d \in Dirs : d # "toCli" => lane'[d][q] = lane[d][q]
           /\ \E f \in DownFrame :
                 /\ f = Down[1] /\ f.n \in Nat
                 /\ \/ f.t = "reply" /\ f.id \in CallIds /\ RouteReply(f)
                    \/ f.t = "chunk" /\ f.id \in CallIds /\ RouteChunk(f)
                    \/ f.t = "notice" /\ RouteNotice(f)
<1>1. /\ FirstFrame("toCli") = Down[1] /\ Down # <<>> /\ Down \in Seq(DownFrame)
      /\ Down' = Tail(Down)
      /\ \A q \in Queues, d \in Dirs : d # "toCli" => lane'[d][q] = lane[d][q]
    BY PopDown DEF ClientRoute, ExchangeInv, Down
<1>2. Len(Down) \in Nat \ {0} /\ Down[1] \in DownFrame
    BY <1>1, TailFacts
<1>3. PICK f \in DownFrame : f = Down[1]
    BY <1>2
<1>4. f.n \in Nat /\ (f.t \in {"reply", "chunk"} => f.id \in CallIds)
    BY DEF DownFrame
<1>5. \/ f.t = "reply" /\ RouteReply(f)
      \/ f.t = "chunk" /\ RouteChunk(f)
      \/ f.t = "notice" /\ RouteNotice(f)
    BY <1>1, <1>3 DEF ClientRoute
<1>6. /\ Len(Down') = Len(Down) - 1
      /\ \A i \in 1..Len(Down') : Down'[i] = Down[i + 1]
    BY <1>1, TailFacts
<1>7. \E g \in DownFrame :
         /\ g = Down[1] /\ g.n \in Nat
         /\ \/ g.t = "reply" /\ g.id \in CallIds /\ RouteReply(g)
            \/ g.t = "chunk" /\ g.id \in CallIds /\ RouteChunk(g)
            \/ g.t = "notice" /\ RouteNotice(g)
    BY <1>3, <1>4, <1>5
<1> QED BY <1>1, <1>2, <1>6, <1>7

(* An id is left for a caller that has its slot. *)
LEMMA HandedOut ==
    ASSUME ExchangeInv, NEW c \in Callers, callerAt[c] = "permit"
    PROVE  nextCall \in CallIds
<1>1. Cardinality(Reserving) # 0
    BY ReservingCount, FS_EmptySet DEF Reserving, ExchangeInv, ExchangeTypeOK
<1> QED BY <1>1, ReservingCount, Bounds DEF ExchangeInv, ReserveInv, ExchangeTypeOK, TablesTyped, CallIds

(* No call changes hands when calls only end. *)
LEMMA OwnersFrom ==
    ASSUME ExchangeInv, nextCall' = nextCall,
           \A b \in Callers : callerAt'[b] \in Calling =>
              callerAt[b] \in Calling /\ currentCall'[b] = currentCall[b]
    PROVE  OwnInv'
BY DEF OwnInv, ExchangeInv

(* An id belongs to one caller. *)
LEMMA OwnersKept == ASSUME ExchangeInv, ExchangeNext PROVE OwnInv'
<1> USE ExchangeAssumption, Bounds
<1>1. ASSUME UNCHANGED <<nextCall, callerAt, currentCall>> PROVE OwnInv'
    BY <1>1 DEF OwnInv, Calling, ExchangeInv
<1>2. CASE
       \/ \E c \in Callers : UploadWrite(c)
       \/ DropClient \/ ServerRoute \/ ServerRouterEnd \/ ServerRouterClose
       \/ ServerRouterSignal \/ ServerRecv \/ ServerStop \/ Notice \/ ClientRoute
       \/ ClientRouterEnd \/ ClientRouterClose \/ ClientRouterSignal \/ Subscribe \/ TakeNotice
       \/ \E how \in {"try", "wait", "lossy"} : Tell(how)
       \/ \E id \in CallIds : SendChunk(id) \/ Reply(id)
  <2>1. UNCHANGED <<nextCall, callerAt, currentCall>>
    BY <1>2
       DEF UploadWrite, DropClient, Tell, TrySend, ServerRoute, ServerRouterEnd,
           ServerRouterClose, ServerRouterSignal, ServerRecv, ServerStop, SendChunk,
           Reply, Notice, ClientRoute, RouteReply, RouteChunk, RouteNotice, Settle,
           ClientRouterEnd, ClientRouterClose, FailPending, ClientRouterSignal,
           Subscribe, TakeNotice, rvars, svars, callVars, nvars
  <2> QED BY <2>1, <1>1
<1>3. ASSUME NEW c \in Callers, CallStart(c) PROVE OwnInv'
  <2>1. \A b \in Callers : callerAt'[b] \in Calling =>
           callerAt[b] \in Calling /\ currentCall'[b] = currentCall[b]
    BY <1>3 DEF CallStart, Calling, ExchangeInv, ExchangeTypeOK, TablesTyped
  <2>2. nextCall' = nextCall
    BY <1>3 DEF CallStart, callVars
  <2> QED BY <2>1, <2>2, OwnersFrom
<1>4. ASSUME NEW c \in Callers, ReserveSlot(c) PROVE OwnInv'
  <2>1. \A b \in Callers : callerAt'[b] \in Calling =>
           callerAt[b] \in Calling /\ currentCall'[b] = currentCall[b]
    BY <1>4 DEF ReserveSlot, Calling, ExchangeInv, ExchangeTypeOK, TablesTyped
  <2>2. nextCall' = nextCall
    BY <1>4 DEF ReserveSlot, callVars
  <2> QED BY <2>1, <2>2, OwnersFrom
<1>5. ASSUME NEW c \in Callers, DropReserve(c) PROVE OwnInv'
  <2>1. \A b \in Callers : callerAt'[b] \in Calling =>
           callerAt[b] \in Calling /\ currentCall'[b] = currentCall[b]
    BY <1>5 DEF DropReserve, Calling, ExchangeInv, ExchangeTypeOK, TablesTyped
  <2>2. nextCall' = nextCall
    BY <1>5 DEF DropReserve, callVars
  <2> QED BY <2>1, <2>2, OwnersFrom
<1>6. ASSUME NEW c \in Callers, NEW kind \in {"unary", "download"}, InsertPending(c, kind) PROVE OwnInv'
  <2>1. nextCall \in CallIds /\ nextCall' = nextCall + 1
    BY <1>6, HandedOut DEF InsertPending
  <2>2. /\ \A b \in Callers : b # c => callerAt'[b] = callerAt[b] /\ currentCall'[b] = currentCall[b]
        /\ currentCall'[c] = nextCall
    BY <1>6 DEF InsertPending, ExchangeInv, ExchangeTypeOK, TablesTyped
  <2>3. \A b \in Callers : callerAt[b] \in Calling => currentCall[b] \in 1..(nextCall - 1)
    BY DEF ExchangeInv, OwnInv
  <2>4. \A b \in Callers : callerAt'[b] \in Calling => currentCall'[b] \in 1..(nextCall' - 1)
    BY <2>1, <2>2, <2>3 DEF CallIds
  <2>5. ASSUME NEW d \in Callers, NEW b \in Callers, callerAt'[d] \in Calling, callerAt'[b] \in Calling,
               currentCall'[d] = currentCall'[b]
        PROVE  d = b
    <3>1. CASE d # c /\ b # c
      BY <2>2, <2>5, <3>1 DEF ExchangeInv, OwnInv
    <3>2. CASE d = c \/ b = c
      BY <2>1, <2>2, <2>3, <2>5, <3>2 DEF CallIds
    <3> QED BY <3>1, <3>2
  <2> QED BY <2>4, <2>5 DEF OwnInv
<1>7. ASSUME NEW c \in Callers, NEW after \in {"await", "upload"}, PermitSend(c, after) PROVE OwnInv'
  <2>1. \A b \in Callers : callerAt'[b] \in Calling =>
           callerAt[b] \in Calling /\ currentCall'[b] = currentCall[b]
    BY <1>7 DEF PermitSend, Calling, ExchangeInv, ExchangeTypeOK, TablesTyped
  <2>2. nextCall' = nextCall
    BY <1>7 DEF PermitSend, callVars
  <2> QED BY <2>1, <2>2, OwnersFrom
<1>8. ASSUME NEW c \in Callers, UploadEnd(c) PROVE OwnInv'
  <2>1. \A b \in Callers : callerAt'[b] \in Calling =>
           callerAt[b] \in Calling /\ currentCall'[b] = currentCall[b]
    BY <1>8 DEF UploadEnd, Finish, Calling, ExchangeInv, ExchangeTypeOK, TablesTyped
  <2>2. nextCall' = nextCall
    BY <1>8 DEF UploadEnd, callVars
  <2> QED BY <2>1, <2>2, OwnersFrom
<1>9. ASSUME NEW c \in Callers, Return(c) PROVE OwnInv'
  <2>1. \A b \in Callers : callerAt'[b] \in Calling =>
           callerAt[b] \in Calling /\ currentCall'[b] = currentCall[b]
    BY <1>9 DEF Return, Finish, Calling, ExchangeInv, ExchangeTypeOK, TablesTyped
  <2>2. nextCall' = nextCall
    BY <1>9 DEF Return, callVars
  <2> QED BY <2>1, <2>2, OwnersFrom
<1>10. ASSUME NEW c \in Callers, DropCall(c) PROVE OwnInv'
  <2>1. \A b \in Callers : callerAt'[b] \in Calling =>
           callerAt[b] \in Calling /\ currentCall'[b] = currentCall[b]
    BY <1>10 DEF DropCall, Calling, ExchangeInv, ExchangeTypeOK, TablesTyped
  <2>2. nextCall' = nextCall
    BY <1>10 DEF DropCall, callVars
  <2> QED BY <2>1, <2>2, OwnersFrom
<1>11. ASSUME NEW c \in Callers, SendCancel(c) PROVE OwnInv'
  <2>1. \A b \in Callers : callerAt'[b] \in Calling =>
           callerAt[b] \in Calling /\ currentCall'[b] = currentCall[b]
    BY <1>11 DEF SendCancel, Finish, Calling, ExchangeInv, ExchangeTypeOK, TablesTyped
  <2>2. nextCall' = nextCall
    BY <1>11 DEF SendCancel, callVars
  <2> QED BY <2>1, <2>2, OwnersFrom
<1> QED BY <1>2, <1>3, <1>4, <1>5, <1>6, <1>7, <1>8, <1>9, <1>10, <1>11
   DEF ExchangeNext, CallerStep, ServerRouter, ClientRouter

(* Ids that were not handed out stay out of the tables. *)
LEMMA FreshKept == ASSUME ExchangeInv, ExchangeNext PROVE FreshInv'
<1> USE ExchangeAssumption, Bounds
<1>1. ASSUME UNCHANGED <<got, nextCall, result, awaiting, work>> PROVE FreshInv'
    BY <1>1 DEF FreshInv, ExchangeInv
<1>2. CASE
       \/ \E c \in Callers : CallStart(c) \/ ReserveSlot(c) \/ DropReserve(c) \/ UploadWrite(c)
             \/ Return(c) \/ SendCancel(c)
       \/ \E c \in Callers : \E after \in {"await", "upload"} : PermitSend(c, after)
       \/ DropClient \/ ServerRoute \/ ServerRouterEnd \/ ServerRouterClose
       \/ ServerRouterSignal \/ ServerStop \/ Notice \/ ClientRouterEnd \/ ClientRouterSignal
       \/ Subscribe \/ TakeNotice
       \/ \E how \in {"try", "wait", "lossy"} : Tell(how)
       \/ \E id \in CallIds : SendChunk(id)
  <2>1. UNCHANGED <<got, nextCall, result, awaiting, work>>
    BY <1>2
       DEF CallStart, ReserveSlot, DropReserve, PermitSend, UploadWrite, Return, Finish,
           SendCancel, TrySend, DropClient, Tell, ServerRoute, ServerRouterEnd,
           ServerRouterClose, ServerRouterSignal, ServerStop, SendChunk, Notice,
           ClientRouterEnd, ClientRouterSignal, Subscribe, TakeNotice, rvars, svars,
           callVars, nvars
  <2> QED BY <2>1, <1>1
<1>3. ASSUME NEW c \in Callers, NEW kind \in {"unary", "download"}, InsertPending(c, kind) PROVE FreshInv'
  <2>1. nextCall \in CallIds /\ nextCall' = nextCall + 1
    BY <1>3, HandedOut DEF InsertPending
  <2> QED BY <1>3, <2>1 DEF InsertPending, FreshInv, ExchangeInv, ExchangeTypeOK, TablesTyped, CallIds, svars
<1>4. ASSUME NEW c \in Callers, UploadEnd(c) PROVE FreshInv'
  <2>1. currentCall[c] \in CallIds
    BY <1>4, CallerFrames DEF UploadEnd, Calling
  <2> QED BY <1>4, <2>1 DEF UploadEnd, FreshInv, ExchangeInv, ExchangeTypeOK, TablesTyped, CallIds, svars
<1>5. ASSUME NEW c \in Callers, DropCall(c) PROVE FreshInv'
  <2>1. currentCall[c] \in CallIds
    BY <1>5, CallerFrames DEF DropCall, Calling
  <2> QED BY <1>5, <2>1 DEF DropCall, FreshInv, ExchangeInv, ExchangeTypeOK, TablesTyped, CallIds, svars
<1>6. CASE ServerRecv
  <2>1. \A id \in CallIds : id >= nextCall /\ work[id] = "none" => work'[id] = "none"
    <3>1. CASE FirstFrame("srvIn").t = "call"
      <4>1. FirstFrame("srvIn").id < nextCall /\ work' = [work EXCEPT ![FirstFrame("srvIn").id] = "busy"]
        BY <1>6, <3>1, ReceivedFrame DEF ServerRecv
      <4> QED BY <4>1 DEF ExchangeInv, ExchangeTypeOK, TablesTyped, CallIds
    <3>2. CASE FirstFrame("srvIn").t # "call"
      <4>1. \/ work' = work
            \/ /\ work[FirstFrame("srvIn").id] = "busy"
               /\ work' = [work EXCEPT ![FirstFrame("srvIn").id] = "done"]
        BY <1>6, <3>2 DEF ServerRecv
      <4> QED BY <4>1 DEF ExchangeInv, ExchangeTypeOK, TablesTyped
    <3> QED BY <3>1, <3>2
  <2> QED BY <1>6, <2>1 DEF ServerRecv, callVars, FreshInv, ExchangeInv
<1>7. ASSUME NEW id \in CallIds, Reply(id) PROVE FreshInv'
    BY <1>7
       DEF Reply, rvars, svars, callVars, nvars, FreshInv, ExchangeInv, ExchangeTypeOK,
           TablesTyped, CallIds
<1>8. CASE ClientRoute
  <2>1. PICK f \in DownFrame :
             /\ f = Down[1] /\ f.n \in Nat
             /\ \/ f.t = "reply" /\ f.id \in CallIds /\ RouteReply(f)
                \/ f.t = "chunk" /\ f.id \in CallIds /\ RouteChunk(f)
                \/ f.t = "notice" /\ RouteNotice(f)
    BY <1>8, RoutedFrame
  <2>2. nextCall' = nextCall /\ work' = work
    BY <1>8 DEF ClientRoute, svars
  <2>3. CASE f.t = "reply" /\ f.id \in CallIds /\ RouteReply(f)
    BY <2>2, <2>3 DEF RouteReply, Settle, FreshInv, CallIds, ExchangeInv, ExchangeTypeOK, TablesTyped
  <2>4. CASE f.t = "chunk" /\ f.id \in CallIds /\ RouteChunk(f)
    <3>1. awaiting' = awaiting /\ result' = result
      BY <2>4 DEF RouteChunk
    <3>2. ASSUME NEW id \in CallIds, awaiting[id] = "none" PROVE got'[id] = got[id]
      BY <2>4, <3>2 DEF RouteChunk, EntryInv, ExchangeInv
    <3> QED BY <2>2, <3>1, <3>2 DEF FreshInv, ExchangeInv
  <2>5. CASE f.t = "notice" /\ RouteNotice(f)
    BY <2>2, <2>5 DEF RouteNotice, FreshInv, ExchangeInv
  <2> QED BY <2>1, <2>3, <2>4, <2>5
<1>9. CASE ClientRouterClose
    BY <1>9
       DEF ClientRouterClose, FailPending, rvars, svars, callVars, nvars, FreshInv,
           ExchangeInv, ExchangeTypeOK, TablesTyped, CallIds
<1> QED BY <1>2, <1>3, <1>4, <1>5, <1>6, <1>7, <1>8, <1>9
   DEF ExchangeNext, CallerStep, ServerRouter, ClientRouter

(* A result takes the entry out of the map. *)
LEMMA EntriesKept == ASSUME ExchangeInv, ExchangeNext PROVE EntryInv'
<1> USE ExchangeAssumption, Bounds
<1>1. ASSUME UNCHANGED <<got, result, awaiting>> PROVE EntryInv'
    BY <1>1 DEF EntryInv, ExchangeInv
<1>2. CASE
       \/ \E c \in Callers : CallStart(c) \/ ReserveSlot(c) \/ DropReserve(c) \/ UploadWrite(c)
             \/ Return(c) \/ SendCancel(c)
       \/ \E c \in Callers : \E after \in {"await", "upload"} : PermitSend(c, after)
       \/ DropClient \/ ServerRoute \/ ServerRouterEnd \/ ServerRouterClose
       \/ ServerRouterSignal \/ ServerRecv \/ ServerStop \/ Notice \/ ClientRouterEnd
       \/ ClientRouterSignal \/ Subscribe \/ TakeNotice
       \/ \E how \in {"try", "wait", "lossy"} : Tell(how)
       \/ \E id \in CallIds : SendChunk(id) \/ Reply(id)
  <2>1. UNCHANGED <<got, result, awaiting>>
    BY <1>2
       DEF CallStart, ReserveSlot, DropReserve, PermitSend, UploadWrite, Return, Finish,
           SendCancel, TrySend, DropClient, Tell, ServerRoute, ServerRouterEnd,
           ServerRouterClose, ServerRouterSignal, ServerRecv, ServerStop, SendChunk,
           Reply, Notice, ClientRouterEnd, ClientRouterSignal, Subscribe, TakeNotice,
           rvars, svars, callVars, nvars
  <2> QED BY <2>1, <1>1
<1>3. ASSUME NEW c \in Callers, NEW kind \in {"unary", "download"}, InsertPending(c, kind) PROVE EntryInv'
  <2>1. nextCall \in CallIds
    BY <1>3, HandedOut DEF InsertPending
  <2>2. result[nextCall] = "none" /\ got[nextCall] = <<>>
    BY <2>1 DEF ExchangeInv, FreshInv, ExchangeTypeOK, TablesTyped, CallIds
  <2> QED BY <1>3, <2>1, <2>2 DEF InsertPending, EntryInv, ExchangeInv, ExchangeTypeOK, TablesTyped
<1>4. ASSUME NEW c \in Callers, UploadEnd(c) PROVE EntryInv'
    BY <1>4
       DEF UploadEnd, Finish, rvars, svars, callVars, nvars, EntryInv, ExchangeInv,
           ExchangeTypeOK, TablesTyped, CallIds
<1>5. ASSUME NEW c \in Callers, DropCall(c) PROVE EntryInv'
    BY <1>5
       DEF DropCall, rvars, svars, callVars, nvars, EntryInv, ExchangeInv,
           ExchangeTypeOK, TablesTyped, CallIds
<1>6. CASE ClientRoute
  <2>1. PICK f \in DownFrame :
             /\ f = Down[1] /\ f.n \in Nat
             /\ \/ f.t = "reply" /\ f.id \in CallIds /\ RouteReply(f)
                \/ f.t = "chunk" /\ f.id \in CallIds /\ RouteChunk(f)
                \/ f.t = "notice" /\ RouteNotice(f)
    BY <1>6, RoutedFrame
  <2>2. CASE f.t = "reply" /\ f.id \in CallIds /\ RouteReply(f)
    <3>1. got' = got
      BY <2>2 DEF RouteReply
    <3>2. CASE awaiting[f.id] # "none"
      <4>1. awaiting' = [awaiting EXCEPT ![f.id] = "none"] /\ result' = [result EXCEPT ![f.id] = "ok"]
        BY <2>2, <3>2 DEF RouteReply, Settle
      <4> QED BY <2>2, <3>1, <4>1 DEF EntryInv, ExchangeInv, ExchangeTypeOK, TablesTyped
    <3>3. CASE awaiting[f.id] = "none"
      <4>1. awaiting' = awaiting /\ result' = result
        BY <2>2, <3>3 DEF RouteReply
      <4> QED BY <3>1, <4>1 DEF EntryInv, ExchangeInv
    <3> QED BY <3>2, <3>3
  <2>3. CASE f.t = "chunk" /\ f.id \in CallIds /\ RouteChunk(f)
    <3>1. got \in [CallIds -> Seq(Nat)] /\ Append(got[f.id], f.n) \in Seq(Nat)
      BY <2>1, <2>3, AppendFacts DEF EntryInv, ExchangeInv
    <3> QED BY <2>3, <3>1 DEF RouteChunk, EntryInv, ExchangeInv
  <2>4. CASE f.t = "notice" /\ RouteNotice(f)
    BY <2>4 DEF RouteNotice, EntryInv, ExchangeInv
  <2> QED BY <2>1, <2>2, <2>3, <2>4
<1>7. CASE ClientRouterClose
    BY <1>7
       DEF ClientRouterClose, FailPending, rvars, svars, callVars, nvars, EntryInv,
           ExchangeInv, ExchangeTypeOK, TablesTyped, CallIds
<1> QED BY <1>2, <1>3, <1>4, <1>5, <1>6, <1>7
   DEF ExchangeNext, CallerStep, ServerRouter, ClientRouter

(* The lanes to the server are sequences of their frames. *)
LEMMA UpLanes ==
    ASSUME LaneInv
    PROVE  Up \in Seq(UpFrame) /\ In \in Seq(UpFrame) /\ Len(Up) \in Nat /\ Len(In) \in Nat
<1>1. Up \in Seq(UpFrame) /\ In \in Seq(UpFrame)
    BY LaneFrames DEF LaneInv, LanesOK, Up, In, Dirs, Queues
<1> QED BY <1>1

(* Taking the first frame of a lane, and putting it in another, creates no  *)
(* second frame of any call.                                                *)
LEMMA CallsTaken ==
    ASSUME NEW s \in Seq(UpFrame), NEW u \in Seq(UpFrame), s # <<>>
    PROVE  /\ Distinct(s) => Distinct(Tail(s))
           /\ Apart(s, u) => Apart(Tail(s), u)
           /\ Apart(u, s) => Apart(u, Tail(s))
           /\ Apart(s, u) /\ Distinct(s) => Apart(Tail(s), Append(u, Head(s)))
           /\ Apart(s, u) /\ Distinct(u) => Distinct(Append(u, Head(s)))
           /\ AllTravel(s) => AllTravel(Tail(s))
           /\ AllTravel(s) /\ AllTravel(u) => AllTravel(Append(u, Head(s)))
<1>1. /\ Len(s) \in Nat \ {0} /\ Len(u) \in Nat /\ Head(s) = s[1] /\ Len(Tail(s)) = Len(s) - 1
      /\ \A i \in 1..Len(Tail(s)) : Tail(s)[i] = s[i + 1]
      /\ Head(s) \in UpFrame
    BY TailFacts
<1>2. /\ Len(Append(u, Head(s))) = Len(u) + 1 /\ Append(u, Head(s))[Len(u) + 1] = Head(s)
      /\ \A i \in 1..Len(u) : Append(u, Head(s))[i] = u[i]
    BY <1>1, AppendFacts
<1>3. Distinct(s) => Distinct(Tail(s))
    BY <1>1 DEF Distinct
<1>4. Apart(s, u) => Apart(Tail(s), u)
    BY <1>1 DEF Apart
<1>5. Apart(u, s) => Apart(u, Tail(s))
    BY <1>1 DEF Apart
<1>6. ASSUME Apart(s, u), Distinct(s) PROVE Apart(Tail(s), Append(u, Head(s)))
  <2> SUFFICES ASSUME NEW i \in 1..Len(Tail(s)), NEW j \in 1..Len(Append(u, Head(s))),
                      IsCall(Tail(s)[i]), IsCall(Append(u, Head(s))[j])
               PROVE  Tail(s)[i].id # Append(u, Head(s))[j].id
    BY DEF Apart
  <2>1. Tail(s)[i] = s[i + 1] /\ i + 1 \in 1..Len(s) /\ 1 \in 1..Len(s) /\ i + 1 # 1
    BY <1>1
  <2>2. CASE j = Len(u) + 1
    <3>1. Append(u, Head(s))[j] = s[1]
      BY <1>1, <1>2, <2>2
    <3> QED BY <1>6, <2>1, <3>1 DEF Distinct
  <2>3. CASE j \in 1..Len(u)
    BY <1>2, <1>6, <2>1, <2>3 DEF Apart
  <2> QED BY <1>1, <1>2, <2>2, <2>3
<1>7. ASSUME Apart(s, u), Distinct(u) PROVE Distinct(Append(u, Head(s)))
  <2>1. \A i \in 1..Len(u) : IsCall(u[i]) /\ IsCall(Head(s)) => u[i].id # Head(s).id
    BY <1>1, <1>7 DEF Apart
  <2> QED BY <1>1, <1>2, <1>7, <2>1 DEF Distinct
<1>8. AllTravel(s) => AllTravel(Tail(s))
    BY <1>1 DEF AllTravel
<1>9. AllTravel(s) /\ AllTravel(u) => AllTravel(Append(u, Head(s)))
    BY <1>1, <1>2 DEF AllTravel
<1> QED BY <1>3, <1>4, <1>5, <1>6, <1>7, <1>8, <1>9

(* Sending a frame that is no call, or the only one of its call. *)
LEMMA CallsSent ==
    ASSUME NEW s \in Seq(UpFrame), NEW u \in Seq(UpFrame), NEW f \in UpFrame,
           Distinct(s), Apart(s, u),
           IsCall(f) => /\ \A i \in 1..Len(s) : IsCall(s[i]) => s[i].id # f.id
                        /\ \A i \in 1..Len(u) : IsCall(u[i]) => u[i].id # f.id
    PROVE  Distinct(Append(s, f)) /\ Apart(Append(s, f), u)
<1>1. /\ Len(s) \in Nat /\ Len(u) \in Nat
      /\ Len(Append(s, f)) = Len(s) + 1 /\ Append(s, f)[Len(s) + 1] = f
      /\ \A i \in 1..Len(s) : Append(s, f)[i] = s[i]
    BY AppendFacts
<1>2. Distinct(Append(s, f))
  <2>1. \A i \in 1..Len(s) : IsCall(s[i]) /\ IsCall(f) => s[i].id # f.id
    OBVIOUS
  <2> QED BY <1>1, <2>1 DEF Distinct
<1>3. Apart(Append(s, f), u)
    BY <1>1 DEF Apart
<1> QED BY <1>2, <1>3

(* No sequence has two frames of one call, or two lanes, when all are empty. *)
LEMMA NoCalls ==
    ASSUME NEW s
    PROVE  Distinct(<<>>) /\ Apart(<<>>, s) /\ Apart(s, <<>>) /\ AllTravel(<<>>)
BY DEF Distinct, Apart, AllTravel

(* While calls only go on, whatever travelled still travels. *)
LEMMA TravelFrom ==
    ASSUME ExchangeInv,
           \A id \in CallIds : Travelling(id) => Travelling(id)',
           \A c \in Callers : callerAt'[c] = "inserted" => work'[currentCall'[c]] = "none",
           AllTravel(Up'), AllTravel(In'), Distinct(Up'), Distinct(In'), Apart(Up', In')
    PROVE  TravelInv'
<1>1. \A id : Travelling(id) => id \in CallIds
    BY Bounds DEF Travelling, CallIds, ExchangeInv, ExchangeTypeOK, TablesTyped
<1>2. AllTravel(Up)' /\ AllTravel(In)'
    BY <1>1 DEF AllTravel
<1>3. Distinct(Up)' /\ Distinct(In)' /\ Apart(Up, In)'
    BY DEF Distinct, Apart, IsCall
<1> QED BY <1>2, <1>3 DEF TravelInv

(* The lanes to the server change only when the client sends, when the      *)
(* server's side reads, and when one of its ends is gone.                   *)
LEMMA UpKept ==
    ASSUME ExchangeInv,
           \/ \E id \in CallIds : SendChunk(id)
           \/ Notice \/ ClientRoute \/ ClientRouterSignal
    PROVE  Up' = Up /\ In' = In
<1>1. ASSUME NEW id \in CallIds, SendChunk(id) PROVE Up' = Up /\ In' = In
    BY <1>1, ServerFrames, PushDown DEF SendChunk, ExchangeInv, Up, In, Dirs, Queues
<1>2. CASE Notice
    BY <1>2, ServerFrames, PushDown DEF Notice, ExchangeInv, Up, In, Dirs, Queues
<1>3. CASE ClientRoute
    BY <1>3, RoutedFrame DEF Up, In, Dirs, Queues
<1>4. CASE ClientRouterSignal
    BY <1>4, LaneClear DEF ClientRouterSignal, ExchangeInv, Up, In, Dirs, Queues
<1> QED BY <1>1, <1>2, <1>3, <1>4

(* A call frame is sent once and received once. *)
LEMMA CallsKept == ASSUME ExchangeInv, ExchangeNext PROVE TravelInv'
<1> USE ExchangeAssumption, Bounds
<1>1. ASSUME UNCHANGED <<callerAt, currentCall, work, nextCall, Up, In>> PROVE TravelInv'
    BY <1>1 DEF TravelInv, AllTravel, Travelling, Distinct, Apart, ExchangeInv, IsCall
<1>2. CASE
       \/ DropClient \/ ServerRouterEnd \/ ServerRouterClose \/ Notice \/ ClientRoute
       \/ ClientRouterEnd \/ ClientRouterClose \/ ClientRouterSignal \/ Subscribe \/ TakeNotice
       \/ \E id \in CallIds : SendChunk(id)
  <2>1. UNCHANGED <<callerAt, currentCall, work, nextCall, Up, In>>
    BY <1>2, UpKept
       DEF DropClient, ServerRouterEnd, ServerRouterClose, Notice, SendChunk,
           ClientRoute, RouteReply, RouteChunk, RouteNotice, Settle, ClientRouterEnd,
           ClientRouterClose, FailPending, ClientRouterSignal, Subscribe, TakeNotice,
           rvars, svars, callVars, nvars, Up, In
  <2> QED BY <2>1, <1>1
<1>3. ASSUME NEW c \in Callers, CallStart(c) PROVE TravelInv'
  <2>1. Up' = Up /\ In' = In
    BY <1>3 DEF CallStart, Up, In, rvars, svars, callVars, nvars
  <2>2. \A id \in CallIds : Travelling(id) => Travelling(id)'
    BY <1>3 DEF CallStart, Travelling, ExchangeInv, ExchangeTypeOK, TablesTyped, callVars, svars, CallIds
  <2>3. \A b \in Callers : callerAt'[b] = "inserted" => work'[currentCall'[b]] = "none"
    BY <1>3 DEF CallStart, ExchangeInv, ExchangeTypeOK, TablesTyped, TravelInv, callVars, svars
  <2> QED BY <2>1, <2>2, <2>3, TravelFrom DEF ExchangeInv, TravelInv
<1>4. ASSUME NEW c \in Callers, ReserveSlot(c) PROVE TravelInv'
  <2>1. Up' = Up /\ In' = In
    BY <1>4 DEF ReserveSlot, Up, In, rvars, svars, callVars, nvars
  <2>2. \A id \in CallIds : Travelling(id) => Travelling(id)'
    BY <1>4 DEF ReserveSlot, Travelling, ExchangeInv, ExchangeTypeOK, TablesTyped, callVars, svars, CallIds
  <2>3. \A b \in Callers : callerAt'[b] = "inserted" => work'[currentCall'[b]] = "none"
    BY <1>4 DEF ReserveSlot, ExchangeInv, ExchangeTypeOK, TablesTyped, TravelInv, callVars, svars
  <2> QED BY <2>1, <2>2, <2>3, TravelFrom DEF ExchangeInv, TravelInv
<1>5. ASSUME NEW c \in Callers, DropReserve(c) PROVE TravelInv'
  <2>1. Up' = Up /\ In' = In
    BY <1>5 DEF DropReserve, Up, In, rvars, svars, callVars, nvars
  <2>2. \A id \in CallIds : Travelling(id) => Travelling(id)'
    BY <1>5 DEF DropReserve, Travelling, ExchangeInv, ExchangeTypeOK, TablesTyped, callVars, svars, CallIds
  <2>3. \A b \in Callers : callerAt'[b] = "inserted" => work'[currentCall'[b]] = "none"
    BY <1>5 DEF DropReserve, ExchangeInv, ExchangeTypeOK, TablesTyped, TravelInv, callVars, svars
  <2> QED BY <2>1, <2>2, <2>3, TravelFrom DEF ExchangeInv, TravelInv
<1>6. ASSUME NEW c \in Callers, NEW kind \in {"unary", "download"}, InsertPending(c, kind) PROVE TravelInv'
  <2>1. Up' = Up /\ In' = In
    BY <1>6 DEF InsertPending, Up, In, rvars, svars, callVars, nvars
  <2>2. nextCall \in CallIds /\ nextCall' = nextCall + 1 /\ work[nextCall] = "none"
    BY <1>6, HandedOut DEF InsertPending, ExchangeInv, FreshInv, CallIds
  <2>3. \A id \in CallIds : Travelling(id) => Travelling(id)'
    BY <1>6, <2>2 DEF InsertPending, Travelling, ExchangeInv, ExchangeTypeOK, TablesTyped, svars, CallIds
  <2>4. \A b \in Callers : callerAt'[b] = "inserted" => work'[currentCall'[b]] = "none"
    BY <1>6, <2>2 DEF InsertPending, ExchangeInv, ExchangeTypeOK, TablesTyped, TravelInv, svars
  <2> QED BY <2>1, <2>3, <2>4, TravelFrom DEF ExchangeInv, TravelInv
<1>7. ASSUME NEW c \in Callers, NEW after \in {"await", "upload"}, PermitSend(c, after) PROVE TravelInv'
  <2>1. \A id \in CallIds : Travelling(id) => Travelling(id)'
    BY <1>7 DEF PermitSend, Travelling, ExchangeInv, ExchangeTypeOK, TablesTyped, callVars, svars, CallIds
  <2>2. \A b \in Callers : callerAt'[b] = "inserted" => work'[currentCall'[b]] = "none"
    BY <1>7 DEF PermitSend, ExchangeInv, ExchangeTypeOK, TablesTyped, TravelInv, callVars, svars
  <2>3. CASE lane' = lane
    <3>1. Up' = Up /\ In' = In
      BY <2>3 DEF Up, In
    <3> QED BY <2>1, <2>2, <3>1, TravelFrom DEF ExchangeInv, TravelInv
  <2>4. CASE lane' # lane
    <3> DEFINE f == Frame("call", currentCall[c])
    <3>1. f \in UpFrame /\ IsCall(f) /\ f.id = currentCall[c] /\ Push("toSrv", f)
      BY <1>7, <2>4, CallerFrames DEF PermitSend, Calling, IsCall, Frame
    <3>2. Up' = Append(Up, f) /\ In' = In
      BY <3>1, PushUp DEF ExchangeInv, Up, In, Dirs, Queues
    <3>3. Up \in Seq(UpFrame) /\ In \in Seq(UpFrame)
      BY UpLanes DEF ExchangeInv
    <3>4. \A id \in CallIds : Travelling(id) => id # currentCall[c]
      BY <1>7 DEF PermitSend, Travelling
    <3>5. \A id : Travelling(id) => id \in CallIds
      BY Bounds DEF Travelling, CallIds, ExchangeInv, ExchangeTypeOK, TablesTyped
    <3>6. Distinct(Up') /\ Apart(Up', In')
      <4>1. /\ \A i \in 1..Len(Up) : IsCall(Up[i]) => Up[i].id # f.id
            /\ \A i \in 1..Len(In) : IsCall(In[i]) => In[i].id # f.id
        BY <3>1, <3>4, <3>5 DEF ExchangeInv, TravelInv, AllTravel
      <4> HIDE DEF f
      <4> QED BY <3>1, <3>2, <3>3, <4>1, CallsSent DEF ExchangeInv, TravelInv
    <3>7. Travelling(currentCall[c])'
      <4>1. currentCall[c] \in 1..(nextCall - 1) /\ work[currentCall[c]] = "none"
        BY <1>7 DEF PermitSend, ExchangeInv, OwnInv, TravelInv, Calling
      <4>2. \A b \in Callers : callerAt'[b] = "inserted" => b # c /\ callerAt[b] = "inserted"
        BY <1>7 DEF PermitSend, ExchangeInv, ExchangeTypeOK, TablesTyped
      <4>3. \A b \in Callers : callerAt'[b] = "inserted" => currentCall[b] # currentCall[c]
        BY <1>7, <4>2 DEF PermitSend, ExchangeInv, OwnInv, Calling
      <4> QED BY <1>7, <4>1, <4>3 DEF PermitSend, Travelling, callVars, svars
    <3>8. AllTravel(Up)' /\ AllTravel(In)'
      <4>1. /\ Len(Up) \in Nat /\ Len(Up') = Len(Up) + 1 /\ Up'[Len(Up) + 1] = f
            /\ \A i \in 1..Len(Up) : Up'[i] = Up[i]
        BY <3>1, <3>2, <3>3, AppendFacts
      <4>2. currentCall' = currentCall
        BY <1>7 DEF PermitSend
      <4>3. \A i \in 1..Len(Up) : IsCall(Up[i]) => Travelling(Up[i].id)'
        BY <2>1, <3>5, <4>1 DEF ExchangeInv, TravelInv, AllTravel
      <4>4. \A i \in 1..Len(In) : IsCall(In[i]) => Travelling(In[i].id)'
        BY <2>1, <3>2, <3>5 DEF ExchangeInv, TravelInv, AllTravel
      <4>5. \A i \in 1..Len(Up') : IsCall(Up'[i]) => Travelling(Up[i].id)'
        BY <3>1, <3>7, <4>1, <4>2, <4>3 DEF Travelling
      <4> QED BY <3>2, <4>4, <4>5 DEF AllTravel
    <3>9. Distinct(In')
      BY <3>2 DEF ExchangeInv, TravelInv
    <3>10. Distinct(Up)' /\ Distinct(In)' /\ Apart(Up, In)'
      BY <3>6, <3>9 DEF Distinct, Apart, IsCall
    <3> QED BY <2>2, <3>8, <3>10 DEF TravelInv
  <2> QED BY <2>3, <2>4
<1>8. ASSUME NEW c \in Callers, UploadWrite(c) PROVE TravelInv'
  <2>1. \A id \in CallIds : Travelling(id) => Travelling(id)'
    BY <1>8 DEF UploadWrite, Travelling, ExchangeInv, ExchangeTypeOK, TablesTyped, callVars, svars, CallIds
  <2>2. \A b \in Callers : callerAt'[b] = "inserted" => work'[currentCall'[b]] = "none"
    BY <1>8 DEF UploadWrite, ExchangeInv, ExchangeTypeOK, TablesTyped, TravelInv, callVars, svars
  <2>3. CASE lane' = lane
    <3>1. Up' = Up /\ In' = In
      BY <2>3 DEF Up, In
    <3> QED BY <2>1, <2>2, <3>1, TravelFrom DEF ExchangeInv, TravelInv
  <2>4. CASE lane' # lane
    <3>1. PICK f \in UpFrame : ~ IsCall(f) /\ Push("toSrv", f)
      BY <1>8, <2>4, CallerFrames DEF UploadWrite, Calling, IsCall, Frame
    <3>2. Up' = Append(Up, f) /\ In' = In
      BY <3>1, PushUp DEF ExchangeInv, Up, In, Dirs, Queues
    <3>3. Up \in Seq(UpFrame) /\ In \in Seq(UpFrame)
      BY UpLanes DEF ExchangeInv
    <3>4. Distinct(Up') /\ Apart(Up', In')
      BY <3>1, <3>2, <3>3, CallsSent DEF ExchangeInv, TravelInv
    <3>5. AllTravel(Up')
      BY <3>1, <3>2, <3>3, AppendFacts DEF ExchangeInv, TravelInv, AllTravel
    <3> QED BY <2>1, <2>2, <3>2, <3>4, <3>5, TravelFrom DEF ExchangeInv, TravelInv
  <2> QED BY <2>3, <2>4
<1>9. ASSUME NEW c \in Callers, UploadEnd(c) PROVE TravelInv'
  <2>1. \A id \in CallIds : Travelling(id) => Travelling(id)'
    BY <1>9 DEF UploadEnd, Finish, Travelling, ExchangeInv, ExchangeTypeOK, TablesTyped, callVars, svars, CallIds
  <2>2. \A b \in Callers : callerAt'[b] = "inserted" => work'[currentCall'[b]] = "none"
    BY <1>9 DEF UploadEnd, Finish, ExchangeInv, ExchangeTypeOK, TablesTyped, TravelInv, callVars, svars
  <2>3. CASE lane' = lane
    <3>1. Up' = Up /\ In' = In
      BY <2>3 DEF Up, In
    <3> QED BY <2>1, <2>2, <3>1, TravelFrom DEF ExchangeInv, TravelInv
  <2>4. CASE lane' # lane
    <3>1. PICK f \in UpFrame : ~ IsCall(f) /\ Push("toSrv", f)
      BY <1>9, <2>4, CallerFrames DEF UploadEnd, Finish, Calling, IsCall, Frame
    <3>2. Up' = Append(Up, f) /\ In' = In
      BY <3>1, PushUp DEF ExchangeInv, Up, In, Dirs, Queues
    <3>3. Up \in Seq(UpFrame) /\ In \in Seq(UpFrame)
      BY UpLanes DEF ExchangeInv
    <3>4. Distinct(Up') /\ Apart(Up', In')
      BY <3>1, <3>2, <3>3, CallsSent DEF ExchangeInv, TravelInv
    <3>5. AllTravel(Up')
      BY <3>1, <3>2, <3>3, AppendFacts DEF ExchangeInv, TravelInv, AllTravel
    <3> QED BY <2>1, <2>2, <3>2, <3>4, <3>5, TravelFrom DEF ExchangeInv, TravelInv
  <2> QED BY <2>3, <2>4
<1>10. ASSUME NEW c \in Callers, Return(c) PROVE TravelInv'
  <2>1. Up' = Up /\ In' = In
    BY <1>10 DEF Return, Finish, Up, In, rvars, svars, callVars, nvars
  <2>2. \A id \in CallIds : Travelling(id) => Travelling(id)'
    BY <1>10 DEF Return, Finish, Travelling, ExchangeInv, ExchangeTypeOK, TablesTyped, callVars, svars, CallIds
  <2>3. \A b \in Callers : callerAt'[b] = "inserted" => work'[currentCall'[b]] = "none"
    BY <1>10 DEF Return, Finish, ExchangeInv, ExchangeTypeOK, TablesTyped, TravelInv, callVars, svars
  <2> QED BY <2>1, <2>2, <2>3, TravelFrom DEF ExchangeInv, TravelInv
<1>11. ASSUME NEW c \in Callers, DropCall(c) PROVE TravelInv'
  <2>1. Up' = Up /\ In' = In
    BY <1>11 DEF DropCall, Up, In, rvars, svars, callVars, nvars
  <2>2. \A id \in CallIds : Travelling(id) => Travelling(id)'
    BY <1>11 DEF DropCall, Travelling, ExchangeInv, ExchangeTypeOK, TablesTyped, callVars, svars, CallIds
  <2>3. \A b \in Callers : callerAt'[b] = "inserted" => work'[currentCall'[b]] = "none"
    BY <1>11 DEF DropCall, ExchangeInv, ExchangeTypeOK, TablesTyped, TravelInv, callVars, svars
  <2> QED BY <2>1, <2>2, <2>3, TravelFrom DEF ExchangeInv, TravelInv
<1>12. ASSUME NEW c \in Callers, SendCancel(c) PROVE TravelInv'
  <2>1. \A id \in CallIds : Travelling(id) => Travelling(id)'
    BY <1>12 DEF SendCancel, Finish, Travelling, ExchangeInv, ExchangeTypeOK, TablesTyped, callVars, svars, CallIds
  <2>2. \A b \in Callers : callerAt'[b] = "inserted" => work'[currentCall'[b]] = "none"
    BY <1>12 DEF SendCancel, Finish, ExchangeInv, ExchangeTypeOK, TablesTyped, TravelInv, callVars, svars
  <2>3. Up' = Up /\ In' = In
    BY <1>12, CallerFrames, PushCancel DEF SendCancel, TrySend, Calling, ExchangeInv, Up, In, Dirs, Queues
  <2> QED BY <2>1, <2>2, <2>3, TravelFrom DEF ExchangeInv, TravelInv
<1>13. ASSUME NEW how \in {"try", "wait", "lossy"}, Tell(how) PROVE TravelInv'
  <2>1. \A id \in CallIds : Travelling(id) => Travelling(id)'
    BY <1>13 DEF Tell, Travelling, ExchangeInv, ExchangeTypeOK, TablesTyped, callVars, svars, CallIds
  <2>2. \A b \in Callers : callerAt'[b] = "inserted" => work'[currentCall'[b]] = "none"
    BY <1>13 DEF Tell, ExchangeInv, ExchangeTypeOK, TablesTyped, TravelInv, callVars, svars
  <2>3. CASE lane' = lane
    <3>1. Up' = Up /\ In' = In
      BY <2>3 DEF Up, In
    <3> QED BY <2>1, <2>2, <3>1, TravelFrom DEF ExchangeInv, TravelInv
  <2>4. CASE lane' # lane
    <3>1. PICK f \in UpFrame : ~ IsCall(f) /\ Push("toSrv", f)
      BY <1>13, <2>4, ServerFrames DEF Tell, TrySend, Calling, IsCall, Numbered
    <3>2. Up' = Append(Up, f) /\ In' = In
      BY <3>1, PushUp DEF ExchangeInv, Up, In, Dirs, Queues
    <3>3. Up \in Seq(UpFrame) /\ In \in Seq(UpFrame)
      BY UpLanes DEF ExchangeInv
    <3>4. Distinct(Up') /\ Apart(Up', In')
      BY <3>1, <3>2, <3>3, CallsSent DEF ExchangeInv, TravelInv
    <3>5. AllTravel(Up')
      BY <3>1, <3>2, <3>3, AppendFacts DEF ExchangeInv, TravelInv, AllTravel
    <3> QED BY <2>1, <2>2, <3>2, <3>4, <3>5, TravelFrom DEF ExchangeInv, TravelInv
  <2> QED BY <2>3, <2>4
<1>14. CASE ServerRoute
  <2>1. \A id \in CallIds : Travelling(id) => Travelling(id)'
    BY <1>14 DEF ServerRoute, Travelling, ExchangeInv, ExchangeTypeOK, TablesTyped, callVars, svars, CallIds
  <2>2. \A b \in Callers : callerAt'[b] = "inserted" => work'[currentCall'[b]] = "none"
    BY <1>14 DEF ServerRoute, ExchangeInv, ExchangeTypeOK, TablesTyped, TravelInv, callVars, svars
  <2>3. Up \in Seq(UpFrame) /\ In \in Seq(UpFrame)
    BY UpLanes DEF ExchangeInv
  <2>4. \/ Up' = Up /\ In' = In
        \/ Up # <<>> /\ Up' = Tail(Up) /\ In' = In
        \/ Up # <<>> /\ Up' = Tail(Up) /\ In' = Append(In, Head(Up))
    BY <1>14, RouteUp DEF ExchangeInv, Up, In, Dirs, Queues
  <2>5. /\ AllTravel(Up') /\ AllTravel(In') /\ Distinct(Up') /\ Distinct(In') /\ Apart(Up', In')
    BY <2>3, <2>4, CallsTaken DEF ExchangeInv, TravelInv
  <2> QED BY <2>1, <2>2, <2>5, TravelFrom
<1>15. CASE ServerRouterSignal
  <2>1. \A id \in CallIds : Travelling(id) => Travelling(id)'
    BY <1>15 DEF ServerRouterSignal, Travelling, ExchangeInv, ExchangeTypeOK, TablesTyped, callVars, svars, CallIds
  <2>2. \A b \in Callers : callerAt'[b] = "inserted" => work'[currentCall'[b]] = "none"
    BY <1>15 DEF ServerRouterSignal, ExchangeInv, ExchangeTypeOK, TablesTyped, TravelInv, callVars, svars
  <2>3. Up' = <<>> /\ In' = In
    BY <1>15, LaneClear DEF ServerRouterSignal, ExchangeInv, Up, In, Dirs, Queues
  <2> QED BY <2>1, <2>2, <2>3, NoCalls, TravelFrom DEF ExchangeInv, TravelInv
<1>16. CASE ServerRecv
  <2> DEFINE f == FirstFrame("srvIn")
  <2>1. Up \in Seq(UpFrame) /\ In \in Seq(UpFrame) /\ Up' = Up
    BY <1>16, UpLanes, ReceivedFrame DEF ExchangeInv
  <2>2. In' = In \/ (In # <<>> /\ In' = Tail(In) /\ f = Head(In))
    BY <1>16, <2>1, ReceivedFrame, TailFacts
  <2>3. CASE f.t = "call"
    <3>1. In # <<>> /\ In' = Tail(In) /\ f = Head(In) /\ f.id \in CallIds /\ work[f.id] = "none"
      BY <1>16, <2>1, <2>3, ReceivedFrame, TailFacts
    <3>2. \A id \in CallIds : id # f.id /\ Travelling(id) => Travelling(id)'
      BY <1>16, <2>3 DEF ServerRecv, Travelling, callVars, ExchangeInv, ExchangeTypeOK, TablesTyped
    <3>3. \A id : Travelling(id) => id \in CallIds
      BY Bounds DEF Travelling, CallIds, ExchangeInv, ExchangeTypeOK, TablesTyped
    <3>4. Distinct(In') /\ Apart(Up', In') /\ Distinct(Up')
      BY <2>1, <3>1, CallsTaken DEF ExchangeInv, TravelInv
    <3>5. /\ Len(In) \in Nat \ {0} /\ Len(In') = Len(In) - 1 /\ f = In[1]
          /\ \A i \in 1..Len(In') : In'[i] = In[i + 1]
      BY <2>1, <3>1, TailFacts
    <3>6. \A i \in 1..Len(In') : IsCall(In'[i]) => In'[i].id # f.id
      BY <2>3, <3>5 DEF ExchangeInv, TravelInv, Distinct, IsCall
    <3>7. \A i \in 1..Len(Up) : IsCall(Up[i]) => Up[i].id # f.id
      BY <2>3, <3>5 DEF ExchangeInv, TravelInv, Apart, IsCall
    <3>8. \A i \in 1..Len(In') : IsCall(In'[i]) => Travelling(In[i + 1].id)
      BY <3>5 DEF ExchangeInv, TravelInv, AllTravel
    <3>9. AllTravel(In)'
      BY <3>2, <3>3, <3>5, <3>6, <3>8 DEF AllTravel
    <3>10. AllTravel(Up)'
      BY <2>1, <3>2, <3>3, <3>7 DEF ExchangeInv, TravelInv, AllTravel
    <3>11. Travelling(f.id)
      BY <2>3, <3>5 DEF ExchangeInv, TravelInv, AllTravel, IsCall
    <3>12. \A b \in Callers : callerAt'[b] = "inserted" => work'[currentCall'[b]] = "none"
      BY <1>16, <2>3, <3>11 DEF ServerRecv, Travelling, ExchangeInv, ExchangeTypeOK, TablesTyped, TravelInv, callVars
    <3>13. Distinct(Up)' /\ Distinct(In)' /\ Apart(Up, In)'
      BY <3>4 DEF Distinct, Apart, IsCall
    <3> QED BY <3>9, <3>10, <3>12, <3>13 DEF TravelInv
  <2>4. CASE f.t # "call"
    <3>1. work' = work \/ (work[f.id] = "busy" /\ work' = [work EXCEPT ![f.id] = "done"])
      BY <1>16, <2>4 DEF ServerRecv
    <3>2. \A id \in CallIds : Travelling(id) => Travelling(id)'
      BY <1>16, <3>1 DEF ServerRecv, Travelling, callVars, ExchangeInv, ExchangeTypeOK, TablesTyped
    <3>3. \A b \in Callers : callerAt'[b] = "inserted" => work'[currentCall'[b]] = "none"
      BY <1>16, <3>1 DEF ServerRecv, ExchangeInv, ExchangeTypeOK, TablesTyped, TravelInv, callVars
    <3>4. AllTravel(In') /\ Distinct(In') /\ Apart(Up', In') /\ AllTravel(Up') /\ Distinct(Up')
      <4>1. CASE In' = In
        BY <2>1, <4>1 DEF ExchangeInv, TravelInv
      <4>2. CASE In # <<>> /\ In' = Tail(In)
        BY <2>1, <4>2, CallsTaken DEF ExchangeInv, TravelInv
      <4> QED BY <2>2, <4>1, <4>2
    <3> QED BY <3>2, <3>3, <3>4, TravelFrom
  <2> QED BY <2>3, <2>4
<1>17. CASE ServerStop
  <2>1. \A id \in CallIds : Travelling(id) => Travelling(id)'
    BY <1>17 DEF ServerStop, Travelling, ExchangeInv, ExchangeTypeOK, TablesTyped, callVars, svars, CallIds
  <2>2. \A b \in Callers : callerAt'[b] = "inserted" => work'[currentCall'[b]] = "none"
    BY <1>17 DEF ServerStop, ExchangeInv, ExchangeTypeOK, TablesTyped, TravelInv, callVars, svars
  <2>3. Up' = Up /\ In' = <<>>
    BY <1>17, LaneClear DEF ServerStop, ExchangeInv, Up, In, Dirs, Queues
  <2> QED BY <2>1, <2>2, <2>3, NoCalls, TravelFrom DEF ExchangeInv, TravelInv
<1>18. ASSUME NEW id \in CallIds, Reply(id) PROVE TravelInv'
  <2>1. Up' = Up /\ In' = In
    BY <1>18, ServerFrames, PushDown DEF Reply, ExchangeInv, Up, In, Dirs, Queues
  <2>2. \A i \in CallIds : Travelling(i) => Travelling(i)'
    BY <1>18 DEF Reply, Travelling, ExchangeInv, ExchangeTypeOK, TablesTyped, callVars, svars, CallIds
  <2>3. \A b \in Callers : callerAt'[b] = "inserted" => work'[currentCall'[b]] = "none"
    BY <1>18 DEF Reply, ExchangeInv, ExchangeTypeOK, TablesTyped, TravelInv, callVars, svars
  <2> QED BY <2>1, <2>2, <2>3, TravelFrom DEF ExchangeInv, TravelInv
<1> QED BY <1>2, <1>3, <1>4, <1>5, <1>6, <1>7, <1>8, <1>9, <1>10, <1>11, <1>12, <1>13, <1>14,
   <1>15, <1>16, <1>17, <1>18 DEF ExchangeNext, CallerStep, ServerRouter, ClientRouter

-----------------------------------------------------------------------------
(* Every step keeps the order of what the client is sent. *)

(* A frame for the client goes behind the others. *)
LEMMA SentDown ==
    ASSUME ExchangeInv, NEW f \in DownFrame, Push("toCli", f)
    PROVE  /\ Len(Down) \in Nat /\ Len(Down') = Len(Down) + 1 /\ Down'[Len(Down) + 1] = f
           /\ \A i \in 1..Len(Down) : Down'[i] = Down[i]
<1>1. Down' = Append(Down, f) /\ Down \in Seq(DownFrame)
    BY PushDown DEF ExchangeInv
<1> QED BY <1>1, AppendFacts

(* The fields of what a handler or the server sends. *)
LEMMA DownFields ==
    ASSUME NEW t \in {"chunk", "reply", "notice"}, NEW id, NEW n
    PROVE  LET f == Numbered(t, id, n) IN f.t = t /\ f.id = id /\ f.n = n
BY DEF Numbered

(* Every frame on its way to the client, by its fields. *)
LEMMA DownType ==
    ASSUME LaneInv
    PROVE  /\ Down \in Seq(DownFrame) /\ Len(Down) \in Nat
           /\ \A i \in 1..Len(Down) : /\ Down[i].n \in Nat /\ Down[i].t \in {"chunk", "reply", "notice"}
                                      /\ Down[i].t # "notice" => Down[i].id \in CallIds
<1>1. Down \in Seq(DownFrame)
    BY LaneFrames DEF LaneInv, LanesOK, Down, Dirs, Queues
<1>2. \A f \in DownFrame : /\ f.n \in Nat /\ f.t \in {"chunk", "reply", "notice"}
                           /\ f.t # "notice" => f.id \in CallIds
    BY DEF DownFrame
<1> QED BY <1>1, <1>2

(* A handler comes once and ends once. *)
LEMMA ReceivedWork ==
    ASSUME ExchangeInv, ServerRecv
    PROVE  \A id \in CallIds : /\ work'[id] = "none" => work[id] = "none"
                               /\ work[id] # "none" => work'[id] # "none"
                               /\ work[id] = "done" => work'[id] = "done"
<1>1. CASE FirstFrame("srvIn").t = "call"
  <2>1. work[FirstFrame("srvIn").id] = "none" /\ work' = [work EXCEPT ![FirstFrame("srvIn").id] = "busy"]
    BY <1>1, ReceivedFrame DEF ServerRecv
  <2> QED BY <2>1 DEF ExchangeInv, ExchangeTypeOK, TablesTyped
<1>2. CASE FirstFrame("srvIn").t # "call"
  <2>1. \/ work' = work
        \/ /\ work[FirstFrame("srvIn").id] = "busy"
           /\ work' = [work EXCEPT ![FirstFrame("srvIn").id] = "done"]
    BY <1>2 DEF ServerRecv
  <2> QED BY <2>1 DEF ExchangeInv, ExchangeTypeOK, TablesTyped
<1> QED BY <1>1, <1>2

(* One more frame for the client: a chunk numbered past the earlier ones, by *)
(* a handler at work, or a reply, which ends its handler.                    *)
LEMMA StreamAppend ==
    ASSUME ExchangeInv, NEW f \in DownFrame, Push("toCli", f),
           \A k \in CallIds : work'[k] = "none" => sent'[k] = 0 /\ result'[k] # "ok",
           \A k \in CallIds : sent'[k] \in Nat /\ sent[k] <= sent'[k],
           \A k \in CallIds : /\ work[k] # "none" => work'[k] # "none"
                              /\ work[k] = "done" => work'[k] = "done",
           f.t = "chunk" => /\ f.id \in CallIds /\ f.n \in 1..sent'[f.id] /\ f.n > sent[f.id]
                            /\ work[f.id] = "busy" /\ work'[f.id] # "none",
           f.t = "reply" => work'[f.id] = "done"
    PROVE  StreamInv'
<1>1. /\ Len(Down) \in Nat /\ Len(Down') = Len(Down) + 1 /\ Down'[Len(Down) + 1] = f
      /\ \A i \in 1..Len(Down) : Down'[i] = Down[i]
    BY SentDown
<1>2. \A i \in 1..Len(Down) : Down[i].n \in Nat /\ (Down[i].t # "notice" => Down[i].id \in CallIds)
    BY DownType DEF ExchangeInv
<1>3. \A i \in 1..Len(Down) : Down[i].t = "chunk" =>
         Down[i].n >= 1 /\ Down[i].n <= sent[Down[i].id] /\ work[Down[i].id] # "none"
    BY DEF ExchangeInv, StreamInv
<1>4. \A k \in CallIds : sent[k] \in Nat
    BY Bounds DEF ExchangeInv, ExchangeTypeOK, TablesTyped
<1>5. ASSUME NEW i \in 1..Len(Down'), Down'[i].t = "chunk"
      PROVE  Down'[i].n \in 1..sent'[Down'[i].id] /\ work'[Down'[i].id] # "none"
  <2>1. CASE i = Len(Down) + 1
    BY <1>1, <1>5, <2>1
  <2>2. CASE i \in 1..Len(Down)
    <3>1. Down'[i] = Down[i] /\ Down[i].id \in CallIds
      BY <1>1, <1>2, <1>5, <2>2
    <3>2. Down[i].n >= 1 /\ Down[i].n <= sent[Down[i].id] /\ work[Down[i].id] # "none" /\ Down[i].n \in Nat
      BY <1>2, <1>3, <1>5, <2>2, <3>1
    <3>3. sent'[Down[i].id] \in Nat /\ sent[Down[i].id] <= sent'[Down[i].id] /\ work'[Down[i].id] # "none"
      BY <3>1, <3>2
    <3> QED BY <1>4, <3>1, <3>2, <3>3
  <2> QED BY <1>1, <2>1, <2>2
<1>6. ASSUME NEW i \in 1..Len(Down'), NEW j \in 1..Len(Down'), i < j,
             Down'[i].t = "chunk", Down'[j].t = "chunk", Down'[j].id = Down'[i].id
      PROVE  Down'[i].n < Down'[j].n
  <2>1. i \in 1..Len(Down) /\ Down'[i] = Down[i]
    BY <1>1, <1>6
  <2>2. CASE j = Len(Down) + 1
    <3>1. Down[i].n <= sent[f.id] /\ f.n > sent[f.id] /\ Down'[j] = f /\ sent[f.id] \in Nat
      BY <1>1, <1>3, <1>4, <1>6, <2>1, <2>2
    <3>2. f.n \in Nat /\ Down[i].n \in Nat
      BY <1>2, <2>1 DEF DownFrame
    <3> QED BY <2>1, <3>1, <3>2
  <2>3. CASE j \in 1..Len(Down)
    <3>1. Down'[j] = Down[j]
      BY <1>1, <2>3
    <3> QED BY <1>6, <2>1, <2>3, <3>1 DEF ExchangeInv, StreamInv, Chunk
  <2> QED BY <1>1, <2>2, <2>3
<1>7. ASSUME NEW i \in 1..Len(Down'), Down'[i].t = "reply"
      PROVE  /\ work'[Down'[i].id] = "done"
             /\ \A j \in 1..Len(Down') : Down'[j].t = "chunk" /\ Down'[j].id = Down'[i].id => j < i
  <2>1. CASE i = Len(Down) + 1
    <3>1. Down'[i] = f /\ f.t # "chunk"
      BY <1>1, <1>7, <2>1
    <3>2. \A j \in 1..Len(Down') : Down'[j].t = "chunk" => j # i
      BY <3>1
    <3> QED BY <1>1, <1>7, <2>1, <3>1, <3>2
  <2>2. CASE i \in 1..Len(Down)
    <3>1. Down'[i] = Down[i] /\ Down[i].t = "reply" /\ Down[i].id \in CallIds
      BY <1>1, <1>2, <1>7, <2>2
    <3>2. work[Down[i].id] = "done" /\ \A j \in 1..Len(Down) : Chunk(j, Down[i].id) => j < i
      BY <2>2, <3>1 DEF ExchangeInv, StreamInv
    <3>3. ASSUME NEW j \in 1..Len(Down'), Down'[j].t = "chunk", Down'[j].id = Down'[i].id PROVE j < i
      <4>1. CASE j = Len(Down) + 1
        BY <1>1, <3>1, <3>2, <3>3, <4>1
      <4>2. CASE j \in 1..Len(Down)
        BY <1>1, <3>1, <3>2, <3>3, <4>2 DEF Chunk
      <4> QED BY <1>1, <4>1, <4>2
    <3> QED BY <3>1, <3>2, <3>3
  <2> QED BY <1>1, <2>1, <2>2
<1> QED BY <1>5, <1>6, <1>7 DEF StreamInv, Chunk

(* Chunks keep the order they were sent in, and a reply stays behind them. *)
LEMMA StreamKept == ASSUME ExchangeInv, ExchangeNext PROVE StreamInv'
<1> USE ExchangeAssumption, Bounds
<1>1. ASSUME UNCHANGED <<work, sent, result, Down>> PROVE StreamInv'
    BY <1>1 DEF StreamInv, Chunk, ExchangeInv
<1>2. CASE
       \/ \E c \in Callers : CallStart(c) \/ ReserveSlot(c) \/ DropReserve(c) \/ UploadWrite(c)
             \/ UploadEnd(c) \/ Return(c) \/ DropCall(c) \/ SendCancel(c)
       \/ \E c \in Callers : \E kind \in {"unary", "download"} : InsertPending(c, kind)
       \/ \E c \in Callers : \E after \in {"await", "upload"} : PermitSend(c, after)
       \/ DropClient \/ ServerRoute \/ ServerRouterEnd \/ ServerRouterClose
       \/ ServerRouterSignal \/ ServerStop \/ ClientRouterEnd \/ Subscribe \/ TakeNotice
       \/ \E how \in {"try", "wait", "lossy"} : Tell(how)
  <2>1. UNCHANGED <<work, sent, result, Down>>
    BY <1>2, DownKept
       DEF CallStart, ReserveSlot, DropReserve, InsertPending, PermitSend, UploadWrite,
           UploadEnd, Finish, Return, DropCall, SendCancel, TrySend, DropClient, Tell,
           ServerRoute, ServerRouterEnd, ServerRouterClose, ServerRouterSignal,
           ServerStop, ClientRouterEnd, Subscribe, TakeNotice, rvars, svars, callVars,
           nvars
  <2> QED BY <2>1, <1>1
<1>3. CASE ServerRecv
  <2>1. sent' = sent /\ result' = result /\ Down' = Down
    BY <1>3, DownKept DEF ServerRecv, callVars
  <2>2. \A k \in CallIds :
           /\ work'[k] = "none" => work[k] = "none"
           /\ work[k] # "none" => work'[k] # "none"
           /\ work[k] = "done" => work'[k] = "done"
    BY <1>3, ReceivedWork
  <2>3. \A k \in CallIds : work[k] = "none" => sent[k] = 0 /\ result[k] # "ok"
    BY DEF ExchangeInv, StreamInv
  <2>4. ASSUME NEW i \in 1..Len(Down), Down[i].t = "chunk"
        PROVE  Down[i].n \in 1..sent[Down[i].id] /\ work'[Down[i].id] # "none"
    <3>1. Down[i].id \in CallIds
      BY <2>4, DownType DEF ExchangeInv
    <3>2. Down[i].n \in 1..sent[Down[i].id] /\ work[Down[i].id] # "none"
      BY <2>4 DEF ExchangeInv, StreamInv
    <3> QED BY <2>2, <3>1, <3>2
  <2>5. ASSUME NEW i \in 1..Len(Down), Down[i].t = "reply" PROVE work'[Down[i].id] = "done"
    <3>1. Down[i].id \in CallIds
      BY <2>5, DownType DEF ExchangeInv
    <3>2. work[Down[i].id] = "done"
      BY <2>5 DEF ExchangeInv, StreamInv
    <3> QED BY <2>2, <3>1, <3>2
  <2>6. \A k \in CallIds : work'[k] = "none" => sent'[k] = 0 /\ result'[k] # "ok"
    BY <2>1, <2>2, <2>3
  <2> QED BY <2>1, <2>4, <2>5, <2>6 DEF ExchangeInv, StreamInv, Chunk
<1>4. ASSUME NEW id \in CallIds, SendChunk(id) PROVE StreamInv'
  <2> DEFINE f == Numbered("chunk", id, sent[id] + 1)
  <2>1. f \in DownFrame /\ f.t = "chunk" /\ f.id = id /\ f.n = sent[id] + 1 /\ Push("toCli", f)
    BY <1>4, ServerFrames, DownFields DEF SendChunk
  <2>2. \A k \in CallIds : sent[k] \in Nat /\ (work[k] = "none" => sent[k] = 0 /\ result[k] # "ok")
    BY DEF ExchangeInv, StreamInv, ExchangeTypeOK, TablesTyped
  <2> HIDE DEF f
  <2>3. /\ work' = work /\ result' = result /\ work[id] = "busy" /\ sent'[id] = sent[id] + 1
        /\ \A k \in CallIds : k # id => sent'[k] = sent[k]
    BY <1>4 DEF SendChunk, callVars, ExchangeInv, ExchangeTypeOK, TablesTyped
  <2>4. \A k \in CallIds : work'[k] = "none" => sent'[k] = 0 /\ result'[k] # "ok"
    BY <2>2, <2>3
  <2>5. \A k \in CallIds : sent'[k] \in Nat /\ sent[k] <= sent'[k]
    BY <2>2, <2>3
  <2>6. f.n \in 1..sent'[f.id] /\ f.n > sent[f.id]
    BY <2>1, <2>2, <2>3
  <2> QED BY <2>1, <2>3, <2>4, <2>5, <2>6, StreamAppend
<1>5. ASSUME NEW id \in CallIds, Reply(id) PROVE StreamInv'
  <2> DEFINE f == Numbered("reply", id, sent[id])
  <2>1. sent' = sent /\ result' = result /\ work' = [work EXCEPT ![id] = "done"] /\ work[id] = "busy"
    BY <1>5 DEF Reply, callVars
  <2>2. /\ \A k \in CallIds : work'[k] = "none" => work[k] = "none"
        /\ \A k \in CallIds :
              (work[k] # "none" => work'[k] # "none") /\ (work[k] = "done" => work'[k] = "done")
        /\ work'[id] = "done"
    BY <2>1 DEF ExchangeInv, ExchangeTypeOK, TablesTyped
  <2>3. \A k \in CallIds : work'[k] = "none" => sent'[k] = 0 /\ result'[k] # "ok"
    BY <2>1, <2>2 DEF ExchangeInv, StreamInv
  <2>4. CASE lane' = lane
    <3>1. Down' = Down /\ \A i \in 1..Len(Down) : Down[i].t # "notice" => Down[i].id \in CallIds
      BY <2>4, DownType DEF Down, ExchangeInv
    <3>2. \A i \in 1..Len(Down) : Down[i].t = "chunk" =>
             Down[i].n \in 1..sent[Down[i].id] /\ work'[Down[i].id] # "none"
      BY <2>2, <3>1 DEF ExchangeInv, StreamInv
    <3>3. \A i \in 1..Len(Down) : Down[i].t = "reply" =>
             /\ work'[Down[i].id] = "done"
             /\ \A j \in 1..Len(Down) : Chunk(j, Down[i].id) => j < i
      BY <2>2, <3>1 DEF ExchangeInv, StreamInv
    <3> QED BY <2>1, <2>3, <3>1, <3>2, <3>3 DEF ExchangeInv, StreamInv, Chunk
  <2>5. CASE lane' # lane
    <3>1. f \in DownFrame /\ f.t = "reply" /\ f.id = id /\ Push("toCli", f)
      BY <1>5, <2>5, ServerFrames, DownFields DEF Reply
    <3>2. \A k \in CallIds : sent'[k] \in Nat /\ sent[k] <= sent'[k]
      BY <2>1 DEF ExchangeInv, ExchangeTypeOK, TablesTyped
    <3> HIDE DEF f
    <3> QED BY <2>2, <2>3, <3>1, <3>2, StreamAppend
  <2> QED BY <2>4, <2>5
<1>6. CASE Notice
  <2> DEFINE f == Numbered("notice", 0, noticed + 1)
  <2>1. f \in DownFrame /\ f.t = "notice" /\ Push("toCli", f)
    BY <1>6, ServerFrames, DownFields DEF Notice
  <2>2. \A k \in CallIds : sent[k] \in Nat /\ (work[k] = "none" => sent[k] = 0 /\ result[k] # "ok")
    BY DEF ExchangeInv, StreamInv, ExchangeTypeOK, TablesTyped
  <2> HIDE DEF f
  <2>3. UNCHANGED <<work, sent, result>>
    BY <1>6 DEF Notice, svars, callVars
  <2>4. \A k \in CallIds : sent'[k] \in Nat /\ sent[k] <= sent'[k]
    BY <2>2, <2>3
  <2> QED BY <2>1, <2>2, <2>3, <2>4, StreamAppend
<1>7. CASE ClientRoute
  <2>1. PICK f \in DownFrame :
             /\ f = Down[1] /\ f.n \in Nat
             /\ \/ f.t = "reply" /\ f.id \in CallIds /\ RouteReply(f)
                \/ f.t = "chunk" /\ f.id \in CallIds /\ RouteChunk(f)
                \/ f.t = "notice" /\ RouteNotice(f)
    BY <1>7, RoutedFrame
  <2>2. /\ Len(Down) \in Nat \ {0} /\ Len(Down') = Len(Down) - 1
        /\ \A i \in 1..Len(Down') : Down'[i] = Down[i + 1]
        /\ 1 \in 1..Len(Down)
    BY <1>7, RoutedFrame
  <2>3. work' = work /\ sent' = sent
    BY <1>7 DEF ClientRoute, svars
  <2>4. \A k \in CallIds : work'[k] = "none" => sent'[k] = 0 /\ result'[k] # "ok"
    <3>1. CASE f.t = "reply" /\ f.id \in CallIds /\ RouteReply(f)
      <4>1. work[f.id] = "done"
        BY <2>1, <2>2, <3>1 DEF ExchangeInv, StreamInv
      <4> QED BY <2>3, <3>1, <4>1 DEF RouteReply, Settle, ExchangeInv, StreamInv, ExchangeTypeOK, TablesTyped
    <3>2. CASE result' = result
      BY <2>3, <3>2 DEF ExchangeInv, StreamInv
    <3> QED BY <2>1, <3>1, <3>2 DEF RouteChunk, RouteNotice
  <2>5. \A i \in 1..Len(Down') : i + 1 \in 1..Len(Down)
    BY <2>2
  <2>6. \A i \in 1..Len(Down') : Down'[i].t = "chunk" =>
           Down'[i].n \in 1..sent'[Down'[i].id] /\ work'[Down'[i].id] # "none"
    BY <2>2, <2>3, <2>5 DEF ExchangeInv, StreamInv
  <2>7. \A i, j \in 1..Len(Down') :
           i < j /\ Down'[i].t = "chunk" /\ Down'[j].t = "chunk" /\ Down'[j].id = Down'[i].id
             => Down'[i].n < Down'[j].n
    BY <2>2, <2>5 DEF ExchangeInv, StreamInv, Chunk
  <2>8. \A i \in 1..Len(Down') : Down'[i].t = "reply" =>
           /\ work'[Down'[i].id] = "done"
           /\ \A j \in 1..Len(Down') : Down'[j].t = "chunk" /\ Down'[j].id = Down'[i].id => j < i
    <3>1. SUFFICES ASSUME NEW i \in 1..Len(Down'), Down'[i].t = "reply"
                   PROVE  /\ work'[Down'[i].id] = "done"
                          /\ \A j \in 1..Len(Down') :
                                Down'[j].t = "chunk" /\ Down'[j].id = Down'[i].id => j < i
      OBVIOUS
    <3>2. Down'[i] = Down[i + 1] /\ i + 1 \in 1..Len(Down) /\ Down[i + 1].t = "reply"
      BY <2>2, <2>5, <3>1
    <3>3. /\ work[Down[i + 1].id] = "done"
          /\ \A j \in 1..Len(Down) : Chunk(j, Down[i + 1].id) => j < i + 1
      BY <3>2 DEF ExchangeInv, StreamInv
    <3>4. ASSUME NEW j \in 1..Len(Down'), Down'[j].t = "chunk", Down'[j].id = Down'[i].id PROVE j < i
      <4>1. j + 1 \in 1..Len(Down) /\ Chunk(j + 1, Down[i + 1].id)
        BY <2>2, <2>5, <3>2, <3>4 DEF Chunk
      <4> QED BY <3>3, <4>1
    <3> QED BY <2>3, <3>2, <3>3, <3>4
  <2> QED BY <2>4, <2>6, <2>7, <2>8 DEF StreamInv, Chunk
<1>8. CASE ClientRouterClose
  <2>1. Down' = Down /\ work' = work /\ sent' = sent
    BY <1>8, DownKept DEF ClientRouterClose, svars
  <2>2. \A id \in CallIds : result'[id] = "ok" => result[id] = "ok"
    BY <1>8 DEF ClientRouterClose, FailPending, ExchangeInv, ExchangeTypeOK, TablesTyped
  <2> QED BY <2>1, <2>2 DEF ExchangeInv, StreamInv, Chunk
<1>9. CASE ClientRouterSignal
  <2>1. Down' = <<>>
    BY <1>9, LaneClear DEF ClientRouterSignal, ExchangeInv, Down, Dirs, Queues
  <2>2. UNCHANGED <<work, sent, result>>
    BY <1>9 DEF ClientRouterSignal, svars, callVars
  <2> QED BY <2>1, <2>2 DEF ExchangeInv, StreamInv, Chunk
<1> QED BY <1>2, <1>3, <1>4, <1>5, <1>6, <1>7, <1>8, <1>9
   DEF ExchangeNext, CallerStep, ServerRouter, ClientRouter

(* What PendingInv says of one call. *)
Received(id) ==
    /\ Len(got[id]) <= sent[id]
    /\ \A k \in 1..Len(got[id]) : got[id][k] = k
    /\ \A i \in 1..Len(Down) : Chunk(i, id) => Down[i].n > Len(got[id])
    /\ \A n \in (Len(got[id]) + 1)..sent[id] : \E i \in 1..Len(Down) : Chunk(i, id) /\ Down[i].n = n

(* It is enough to look at one pending call at a time. *)
LEMMA PendingFrom ==
    ASSUME \A id \in CallIds : awaiting'[id] # "none" /\ crouter' = "run" => Received(id)'
    PROVE  PendingInv'
BY DEF PendingInv, Received

(* PendingInv, for one pending call. *)
LEMMA PendingNow ==
    ASSUME ExchangeInv, crouter = "run", NEW id \in CallIds, awaiting[id] # "none"
    PROVE  Received(id)
BY DEF ExchangeInv, PendingInv, Received

(* A frame that is no chunk of a call changes nothing for that call. *)
LEMMA ReceivedPush ==
    ASSUME ExchangeInv, NEW id \in CallIds, Received(id), NEW f \in DownFrame, Push("toCli", f),
           f.t # "chunk" \/ f.id # id, got'[id] = got[id], sent'[id] = sent[id]
    PROVE  Received(id)'
<1>1. /\ Len(Down) \in Nat /\ Len(Down') = Len(Down) + 1 /\ Down'[Len(Down) + 1] = f
      /\ \A i \in 1..Len(Down) : Down'[i] = Down[i]
    BY SentDown
<1>2. \A i \in 1..Len(Down') : Down'[i].t = "chunk" /\ Down'[i].id = id => i \in 1..Len(Down) /\ Down'[i] = Down[i]
    BY <1>1
<1>3. \A i \in 1..Len(Down) : i \in 1..Len(Down') /\ Down'[i] = Down[i]
    BY <1>1
<1>4. \A i \in 1..Len(Down') : Down'[i].t = "chunk" /\ Down'[i].id = id => Down'[i].n > Len(got[id])
    BY <1>2 DEF Received, Chunk
<1>5. \A n \in (Len(got[id]) + 1)..sent[id] :
         \E i \in 1..Len(Down') : Down'[i].t = "chunk" /\ Down'[i].id = id /\ Down'[i].n = n
    BY <1>3 DEF Received, Chunk
<1> QED BY <1>4, <1>5 DEF Received, Chunk

(* Reading a frame that is no chunk of a call changes nothing for that call. *)
LEMMA ReceivedPop ==
    ASSUME ExchangeInv, ClientRoute, NEW id \in CallIds, Received(id),
           Down[1].t # "chunk" \/ Down[1].id # id, got'[id] = got[id], sent'[id] = sent[id]
    PROVE  Received(id)'
<1>1. /\ Len(Down) \in Nat \ {0} /\ Len(Down') = Len(Down) - 1
      /\ \A i \in 1..Len(Down') : Down'[i] = Down[i + 1]
    BY RoutedFrame
<1>2. \A i \in 1..Len(Down') : Down'[i].t = "chunk" /\ Down'[i].id = id => Down'[i].n > Len(got[id])
    BY <1>1 DEF Received, Chunk
<1>3. ASSUME NEW n \in (Len(got[id]) + 1)..sent[id]
      PROVE  \E i \in 1..Len(Down') : Down'[i].t = "chunk" /\ Down'[i].id = id /\ Down'[i].n = n
  <2>1. PICK j \in 1..Len(Down) : Down[j].t = "chunk" /\ Down[j].id = id /\ Down[j].n = n
    BY DEF Received, Chunk
  <2>2. j - 1 \in 1..Len(Down') /\ Down'[j - 1] = Down[j]
    BY <1>1, <2>1
  <2> QED BY <2>1, <2>2
<1> QED BY <1>2, <1>3 DEF Received, Chunk

(* A chunk that is read is the next one of its call. *)
LEMMA ChunkTaken ==
    ASSUME ExchangeInv, ClientRoute, NEW id \in CallIds, Received(id), sent' = sent,
           Down[1].t = "chunk", Down[1].id = id,
           got' = [got EXCEPT ![id] = Append(@, Down[1].n)]
    PROVE  Received(id)'
<1>1. /\ Len(Down) \in Nat \ {0} /\ Len(Down') = Len(Down) - 1 /\ 1 \in 1..Len(Down)
      /\ \A i \in 1..Len(Down') : Down'[i] = Down[i + 1] /\ i + 1 \in 1..Len(Down)
    BY RoutedFrame
<1>2. got[id] \in Seq(Nat) /\ Len(got[id]) \in Nat /\ Down[1].n \in Nat /\ sent[id] \in Nat
    BY <1>1, DownType DEF ExchangeInv, EntryInv, ExchangeTypeOK, TablesTyped
<1>3. /\ Down[1].n > Len(got[id]) /\ Down[1].n <= sent[id]
    BY <1>1 DEF Received, Chunk, ExchangeInv, StreamInv
<1>4. Down[1].n = Len(got[id]) + 1
  <2>1. PICK i \in 1..Len(Down) : Chunk(i, id) /\ Down[i].n = Len(got[id]) + 1
    <3>1. Len(got[id]) + 1 \in (Len(got[id]) + 1)..sent[id]
      BY <1>2, <1>3
    <3> QED BY <3>1 DEF Received
  <2>2. CASE i = 1
    BY <2>1, <2>2
  <2>3. CASE i # 1
    <3>1. Down[1].n < Down[i].n
      BY <1>1, <2>1, <2>3 DEF ExchangeInv, StreamInv, Chunk
    <3> QED BY <1>2, <1>3, <2>1, <3>1
  <2> QED BY <2>2, <2>3
<1>5. /\ got'[id] = Append(got[id], Down[1].n) /\ Len(got'[id]) = Len(got[id]) + 1
      /\ got'[id][Len(got[id]) + 1] = Down[1].n
      /\ \A k \in 1..Len(got[id]) : got'[id][k] = got[id][k]
    BY <1>2, AppendFacts DEF ExchangeInv, EntryInv
<1>6. \A k \in 1..Len(got'[id]) : got'[id][k] = k
    BY <1>2, <1>4, <1>5 DEF Received
<1>7. \A i \in 1..Len(Down') : Down'[i].t = "chunk" /\ Down'[i].id = id => Down'[i].n > Len(got'[id])
  <2>1. ASSUME NEW i \in 1..Len(Down'), Down'[i].t = "chunk", Down'[i].id = id
        PROVE  Down'[i].n > Len(got'[id])
    <3>1. i + 1 \in 1..Len(Down) /\ Chunk(i + 1, id) /\ 1 < i + 1 /\ Down'[i] = Down[i + 1]
      BY <1>1, <2>1 DEF Chunk
    <3>2. Down[1].n < Down[i + 1].n
      BY <1>1, <3>1 DEF ExchangeInv, StreamInv
    <3> QED BY <1>4, <1>5, <3>1, <3>2
  <2> QED BY <2>1
<1>8. ASSUME NEW n \in (Len(got'[id]) + 1)..sent[id]
      PROVE  \E i \in 1..Len(Down') : Down'[i].t = "chunk" /\ Down'[i].id = id /\ Down'[i].n = n
  <2>1. n \in (Len(got[id]) + 1)..sent[id] /\ n # Down[1].n
    BY <1>2, <1>4, <1>5
  <2>2. PICK j \in 1..Len(Down) : Down[j].t = "chunk" /\ Down[j].id = id /\ Down[j].n = n
    BY <2>1 DEF Received, Chunk
  <2>3. j - 1 \in 1..Len(Down') /\ Down'[j - 1] = Down[j]
    BY <1>1, <2>1, <2>2
  <2> QED BY <2>2, <2>3
<1>9. Len(got'[id]) <= sent'[id]
    BY <1>2, <1>3, <1>4, <1>5
<1> QED BY <1>6, <1>7, <1>8, <1>9 DEF Received, Chunk

(* While its router runs, a pending call has received the first chunks, in   *)
(* order, and the others are on their way.                                  *)
LEMMA PendingKept == ASSUME ExchangeInv, ExchangeNext PROVE PendingInv'
<1> USE ExchangeAssumption, Bounds
<1>1. ASSUME UNCHANGED <<crouter, awaiting, got, sent, Down>> PROVE PendingInv'
  <2>1. ASSUME NEW id \in CallIds, awaiting'[id] # "none", crouter' = "run" PROVE Received(id)'
    <3>1. Received(id)
      BY <1>1, <2>1, PendingNow
    <3> QED BY <1>1, <3>1 DEF Received, Chunk
  <2> QED BY <2>1, PendingFrom
<1>2. CASE
       \/ \E c \in Callers : CallStart(c) \/ ReserveSlot(c) \/ DropReserve(c) \/ UploadWrite(c)
             \/ Return(c) \/ SendCancel(c)
       \/ \E c \in Callers : \E after \in {"await", "upload"} : PermitSend(c, after)
       \/ DropClient \/ ServerRoute \/ ServerRouterEnd \/ ServerRouterClose
       \/ ServerRouterSignal \/ ServerRecv \/ ServerStop \/ Subscribe \/ TakeNotice
       \/ \E how \in {"try", "wait", "lossy"} : Tell(how)
  <2>1. UNCHANGED <<crouter, awaiting, got, sent, Down>>
    BY <1>2, DownKept
       DEF CallStart, ReserveSlot, DropReserve, PermitSend, UploadWrite, Return, Finish,
           SendCancel, TrySend, DropClient, Tell, ServerRoute, ServerRouterEnd,
           ServerRouterClose, ServerRouterSignal, ServerRecv, ServerStop, Subscribe,
           TakeNotice, rvars, svars, callVars, nvars
  <2> QED BY <2>1, <1>1
<1>3. ASSUME NEW c \in Callers, NEW kind \in {"unary", "download"}, InsertPending(c, kind) PROVE PendingInv'
  <2>1. UNCHANGED <<got, sent, crouter, Down>>
    BY <1>3, DownKept DEF InsertPending, svars, rvars
  <2>2. nextCall \in CallIds
    BY <1>3, HandedOut DEF InsertPending
  <2>3. work[nextCall] = "none" /\ got[nextCall] = <<>>
    BY <2>2 DEF ExchangeInv, FreshInv, CallIds
  <2>4. /\ sent[nextCall] = 0
        /\ \A i \in 1..Len(Down) : ~ Chunk(i, nextCall)
    BY <2>2, <2>3 DEF ExchangeInv, StreamInv, Chunk
  <2>5. Received(nextCall)
    BY <2>3, <2>4 DEF Received
  <2>6. ASSUME NEW id \in CallIds, awaiting'[id] # "none", crouter' = "run" PROVE Received(id)'
    <3>1. Received(id)
      <4>1. CASE id = nextCall
        BY <2>5, <4>1
      <4>2. CASE id # nextCall
        <5>1. awaiting[id] # "none" /\ crouter = "run"
          BY <1>3, <2>1, <2>6, <4>2 DEF InsertPending, ExchangeInv, ExchangeTypeOK, TablesTyped
        <5> QED BY <5>1, PendingNow
      <4> QED BY <4>1, <4>2
    <3> QED BY <2>1, <3>1 DEF Received, Chunk
  <2> QED BY <2>6, PendingFrom
<1>4. ASSUME NEW c \in Callers, UploadEnd(c) PROVE PendingInv'
  <2>1. \A id \in CallIds : awaiting'[id] # "none" => awaiting[id] # "none"
    BY <1>4 DEF UploadEnd, ExchangeInv, ExchangeTypeOK, TablesTyped
  <2>2. UNCHANGED <<got, sent, crouter, Down>>
    BY <1>4, DownKept DEF UploadEnd, svars, rvars
  <2> QED BY <2>1, <2>2 DEF ExchangeInv, PendingInv, Chunk
<1>5. ASSUME NEW c \in Callers, DropCall(c) PROVE PendingInv'
  <2>1. \A id \in CallIds : awaiting'[id] # "none" => awaiting[id] # "none"
    BY <1>5 DEF DropCall, ExchangeInv, ExchangeTypeOK, TablesTyped
  <2>2. UNCHANGED <<got, sent, crouter, Down>>
    BY <1>5, DownKept DEF DropCall, svars, rvars
  <2> QED BY <2>1, <2>2 DEF ExchangeInv, PendingInv, Chunk
<1>6. ASSUME NEW id \in CallIds, SendChunk(id) PROVE PendingInv'
  <2> DEFINE f == Numbered("chunk", id, sent[id] + 1)
  <2>1. f \in DownFrame /\ f.t = "chunk" /\ f.id = id /\ f.n = sent[id] + 1 /\ Push("toCli", f)
    BY <1>6, ServerFrames, DownFields DEF SendChunk
  <2> HIDE DEF f
  <2>2. /\ got' = got /\ awaiting' = awaiting /\ crouter' = crouter /\ sent'[id] = sent[id] + 1
        /\ \A k \in CallIds : k # id => sent'[k] = sent[k]
    BY <1>6 DEF SendChunk, callVars, rvars, ExchangeInv, ExchangeTypeOK, TablesTyped
  <2>3. ASSUME NEW k \in CallIds, awaiting'[k] # "none", crouter' = "run" PROVE Received(k)'
    <3>1. Received(k)
      BY <2>2, <2>3, PendingNow
    <3>2. CASE k # id
      BY <2>1, <2>2, <3>1, <3>2, ReceivedPush
    <3>3. CASE k = id
      <4>1. /\ Len(Down) \in Nat /\ Len(Down') = Len(Down) + 1 /\ Down'[Len(Down) + 1] = f
            /\ \A i \in 1..Len(Down) : Down'[i] = Down[i]
        BY <2>1, SentDown
      <4>2. Len(got[id]) \in Nat /\ sent[id] \in Nat /\ Len(got[id]) <= sent[id]
        BY <3>1, <3>3 DEF Received, ExchangeInv, EntryInv, ExchangeTypeOK, TablesTyped
      <4>3. ASSUME NEW i \in 1..Len(Down'), Down'[i].t = "chunk", Down'[i].id = id
            PROVE  Down'[i].n > Len(got[id])
        <5>1. CASE i = Len(Down) + 1
          BY <2>1, <4>1, <4>2, <5>1
        <5>2. CASE i \in 1..Len(Down)
          BY <3>1, <3>3, <4>1, <4>3, <5>2 DEF Received, Chunk
        <5> QED BY <4>1, <5>1, <5>2
      <4>4. ASSUME NEW n \in (Len(got[id]) + 1)..(sent[id] + 1)
            PROVE  \E i \in 1..Len(Down') : Down'[i].t = "chunk" /\ Down'[i].id = id /\ Down'[i].n = n
        <5>1. CASE n = sent[id] + 1
          <6>1. Len(Down) + 1 \in 1..Len(Down')
            BY <4>1
          <6> QED BY <2>1, <4>1, <5>1, <6>1
        <5>2. CASE n # sent[id] + 1
          <6>1. n \in (Len(got[id]) + 1)..sent[id]
            BY <4>2, <5>2
          <6>2. PICK i \in 1..Len(Down) : Down[i].t = "chunk" /\ Down[i].id = id /\ Down[i].n = n
            BY <3>1, <3>3, <6>1 DEF Received, Chunk
          <6>3. i \in 1..Len(Down') /\ Down'[i] = Down[i]
            BY <4>1
          <6> QED BY <6>2, <6>3
        <5> QED BY <5>1, <5>2
      <4>5. Len(got[id]) <= sent[id] + 1 /\ \A j \in 1..Len(got[id]) : got[id][j] = j
        BY <3>1, <3>3, <4>2 DEF Received
      <4> QED BY <2>2, <3>3, <4>3, <4>4, <4>5 DEF Received, Chunk
    <3> QED BY <3>2, <3>3
  <2> QED BY <2>3, PendingFrom
<1>7. ASSUME NEW id \in CallIds, Reply(id) PROVE PendingInv'
  <2> DEFINE f == Numbered("reply", id, sent[id])
  <2>1. got' = got /\ awaiting' = awaiting /\ crouter' = crouter /\ sent' = sent
    BY <1>7 DEF Reply, callVars, rvars
  <2>2. CASE lane' = lane
    BY <2>1, <2>2 DEF ExchangeInv, PendingInv, Chunk, Down
  <2>3. CASE lane' # lane
    <3>1. f \in DownFrame /\ f.t = "reply" /\ Push("toCli", f)
      BY <1>7, <2>3, ServerFrames, DownFields DEF Reply
    <3> HIDE DEF f
    <3>2. ASSUME NEW k \in CallIds, awaiting'[k] # "none", crouter' = "run" PROVE Received(k)'
      <4>1. Received(k)
        BY <2>1, <3>2, PendingNow
      <4> QED BY <2>1, <3>1, <4>1, ReceivedPush
    <3> QED BY <3>2, PendingFrom
  <2> QED BY <2>2, <2>3
<1>8. CASE Notice
  <2> DEFINE f == Numbered("notice", 0, noticed + 1)
  <2>1. f \in DownFrame /\ f.t = "notice" /\ Push("toCli", f)
    BY <1>8, ServerFrames, DownFields DEF Notice
  <2> HIDE DEF f
  <2>2. got' = got /\ awaiting' = awaiting /\ crouter' = crouter /\ sent' = sent
    BY <1>8 DEF Notice, callVars, rvars, svars
  <2>3. ASSUME NEW k \in CallIds, awaiting'[k] # "none", crouter' = "run" PROVE Received(k)'
    <3>1. Received(k)
      BY <2>2, <2>3, PendingNow
    <3> QED BY <2>1, <2>2, <3>1, ReceivedPush
  <2> QED BY <2>3, PendingFrom
<1>9. CASE ClientRoute
  <2>1. PICK f \in DownFrame :
             /\ f = Down[1] /\ f.n \in Nat
             /\ \/ f.t = "reply" /\ f.id \in CallIds /\ RouteReply(f)
                \/ f.t = "chunk" /\ f.id \in CallIds /\ RouteChunk(f)
                \/ f.t = "notice" /\ RouteNotice(f)
    BY <1>9, RoutedFrame
  <2>2. crouter = "run" /\ sent' = sent
    BY <1>9 DEF ClientRoute, svars
  <2>3. CASE f.t = "reply" /\ f.id \in CallIds /\ RouteReply(f)
    <3>1. got' = got /\ \A k \in CallIds : awaiting'[k] # "none" => awaiting[k] # "none"
      BY <2>3 DEF RouteReply, Settle, ExchangeInv, ExchangeTypeOK, TablesTyped
    <3>2. ASSUME NEW k \in CallIds, awaiting'[k] # "none", crouter' = "run" PROVE Received(k)'
      <4>1. Received(k)
        BY <2>2, <3>1, <3>2, PendingNow
      <4> QED BY <1>9, <2>1, <2>2, <2>3, <3>1, <4>1, ReceivedPop
    <3> QED BY <3>2, PendingFrom
  <2>4. CASE f.t = "chunk" /\ f.id \in CallIds /\ RouteChunk(f)
    <3>1. awaiting' = awaiting
      BY <2>4 DEF RouteChunk
    <3>2. ASSUME NEW k \in CallIds, awaiting'[k] # "none", crouter' = "run" PROVE Received(k)'
      <4>1. Received(k) /\ awaiting[k] # "none"
        BY <2>2, <3>1, <3>2, PendingNow
      <4>2. CASE k # f.id
        <5>1. got'[k] = got[k]
          BY <2>4, <4>2 DEF RouteChunk, ExchangeInv, EntryInv
        <5> QED BY <1>9, <2>1, <2>2, <4>1, <4>2, <5>1, ReceivedPop
      <4>3. CASE k = f.id
        <5>1. got' = [got EXCEPT ![k] = Append(got[k], f.n)]
          BY <2>4, <3>2, <4>1, <4>3 DEF RouteChunk
        <5> QED BY <1>9, <2>1, <2>2, <2>4, <4>1, <4>3, <5>1, ChunkTaken
      <4> QED BY <4>2, <4>3
    <3> QED BY <3>2, PendingFrom
  <2>5. CASE f.t = "notice" /\ RouteNotice(f)
    <3>1. got' = got /\ awaiting' = awaiting
      BY <2>5 DEF RouteNotice
    <3>2. ASSUME NEW k \in CallIds, awaiting'[k] # "none", crouter' = "run" PROVE Received(k)'
      <4>1. Received(k)
        BY <2>2, <3>1, <3>2, PendingNow
      <4> QED BY <1>9, <2>1, <2>2, <2>5, <3>1, <4>1, ReceivedPop
    <3> QED BY <3>2, PendingFrom
  <2> QED BY <2>1, <2>3, <2>4, <2>5
<1>10. CASE ClientRouterEnd
    BY <1>10 DEF ClientRouterEnd, PendingInv
<1>11. CASE ClientRouterClose
    BY <1>11 DEF ClientRouterClose, PendingInv
<1>12. CASE ClientRouterSignal
    BY <1>12 DEF ClientRouterSignal, PendingInv
<1> QED BY <1>2, <1>3, <1>4, <1>5, <1>6, <1>7, <1>8, <1>9, <1>10, <1>11, <1>12
   DEF ExchangeNext, CallerStep, ServerRouter, ClientRouter

(* A call that was answered had a handler, which is over. *)
LEMMA AnsweredKept == ASSUME ExchangeInv, ExchangeNext PROVE AnsweredInv'
<1> USE ExchangeAssumption
<1>1. ASSUME UNCHANGED <<work, result>> PROVE AnsweredInv'
    BY <1>1 DEF AnsweredInv, ExchangeInv
<1>2. CASE
       \/ \E c \in Callers : CallStart(c) \/ ReserveSlot(c) \/ DropReserve(c) \/ UploadWrite(c)
             \/ UploadEnd(c) \/ Return(c) \/ DropCall(c) \/ SendCancel(c)
       \/ \E c \in Callers : \E kind \in {"unary", "download"} : InsertPending(c, kind)
       \/ \E c \in Callers : \E after \in {"await", "upload"} : PermitSend(c, after)
       \/ DropClient \/ ServerRoute \/ ServerRouterEnd \/ ServerRouterClose
       \/ ServerRouterSignal \/ ServerStop \/ Notice \/ ClientRouterEnd \/ ClientRouterSignal
       \/ Subscribe \/ TakeNotice
       \/ \E how \in {"try", "wait", "lossy"} : Tell(how)
       \/ \E id \in CallIds : SendChunk(id)
  <2>1. UNCHANGED <<work, result>>
    BY <1>2
       DEF CallStart, ReserveSlot, DropReserve, InsertPending, PermitSend, UploadWrite,
           UploadEnd, Finish, Return, DropCall, SendCancel, TrySend, DropClient, Tell,
           ServerRoute, ServerRouterEnd, ServerRouterClose, ServerRouterSignal,
           ServerStop, SendChunk, Notice, ClientRouterEnd, ClientRouterSignal,
           Subscribe, TakeNotice, rvars, svars, callVars, nvars
  <2> QED BY <2>1, <1>1
<1>3. CASE ServerRecv
  <2>1. result' = result
    BY <1>3 DEF ServerRecv, callVars
  <2> QED BY <1>3, <2>1, ReceivedWork DEF ExchangeInv, AnsweredInv
<1>4. ASSUME NEW id \in CallIds, Reply(id) PROVE AnsweredInv'
  <2>1. result' = result /\ work' = [work EXCEPT ![id] = "done"]
    BY <1>4 DEF Reply, callVars
  <2> QED BY <2>1 DEF ExchangeInv, AnsweredInv, ExchangeTypeOK, TablesTyped
<1>5. CASE ClientRoute
  <2>1. PICK f \in DownFrame :
             /\ f = Down[1] /\ f.n \in Nat
             /\ \/ f.t = "reply" /\ f.id \in CallIds /\ RouteReply(f)
                \/ f.t = "chunk" /\ f.id \in CallIds /\ RouteChunk(f)
                \/ f.t = "notice" /\ RouteNotice(f)
    BY <1>5, RoutedFrame
  <2>2. work' = work /\ 1 \in 1..Len(Down)
    BY <1>5, RoutedFrame DEF ClientRoute, svars
  <2>3. CASE f.t = "reply" /\ f.id \in CallIds /\ RouteReply(f)
    <3>1. work[f.id] = "done"
      BY <2>1, <2>2, <2>3 DEF ExchangeInv, StreamInv
    <3> QED BY <2>2, <2>3, <3>1
         DEF RouteReply, Settle, ExchangeInv, AnsweredInv, ExchangeTypeOK, TablesTyped
  <2>4. CASE result' = result
    BY <2>2, <2>4 DEF ExchangeInv, AnsweredInv
  <2> QED BY <2>1, <2>3, <2>4 DEF RouteChunk, RouteNotice
<1>6. CASE ClientRouterClose
  <2>1. work' = work
    BY <1>6 DEF ClientRouterClose, svars
  <2>2. \A id \in CallIds : result'[id] = "ok" => result[id] = "ok"
    BY <1>6 DEF ClientRouterClose, FailPending
  <2> QED BY <2>1, <2>2 DEF ExchangeInv, AnsweredInv
<1> QED BY <1>2, <1>3, <1>4, <1>5, <1>6 DEF ExchangeNext, CallerStep, ServerRouter, ClientRouter

(* The first n numbers, as a sequence. *)
LEMMA Counted ==
    ASSUME NEW s \in Seq(Nat), NEW n \in Nat, Len(s) = n, \A k \in 1..n : s[k] = k
    PROVE  s = [i \in 1..n |-> i]
OBVIOUS

(* A call that is answered has every chunk its handler sent. *)
LEMMA CompleteKept == ASSUME ExchangeInv, ExchangeNext PROVE DownloadComplete'
<1> USE ExchangeAssumption, Bounds
<1>1. ASSUME UNCHANGED <<result, got, sent>> PROVE DownloadComplete'
    BY <1>1 DEF DownloadComplete, ExchangeInv
<1>2. CASE
       \/ \E c \in Callers : CallStart(c) \/ ReserveSlot(c) \/ DropReserve(c) \/ UploadWrite(c)
             \/ UploadEnd(c) \/ Return(c) \/ DropCall(c) \/ SendCancel(c)
       \/ \E c \in Callers : \E kind \in {"unary", "download"} : InsertPending(c, kind)
       \/ \E c \in Callers : \E after \in {"await", "upload"} : PermitSend(c, after)
       \/ DropClient \/ ServerRoute \/ ServerRouterEnd \/ ServerRouterClose
       \/ ServerRouterSignal \/ ServerRecv \/ ServerStop \/ Notice \/ ClientRouterEnd
       \/ ClientRouterSignal \/ Subscribe \/ TakeNotice
       \/ \E how \in {"try", "wait", "lossy"} : Tell(how)
       \/ \E id \in CallIds : Reply(id)
  <2>1. UNCHANGED <<result, got, sent>>
    BY <1>2
       DEF CallStart, ReserveSlot, DropReserve, InsertPending, PermitSend, UploadWrite,
           UploadEnd, Finish, Return, DropCall, SendCancel, TrySend, DropClient, Tell,
           ServerRoute, ServerRouterEnd, ServerRouterClose, ServerRouterSignal,
           ServerRecv, ServerStop, Reply, Notice, ClientRouterEnd, ClientRouterSignal,
           Subscribe, TakeNotice, rvars, svars, callVars, nvars
  <2> QED BY <2>1, <1>1
<1>3. ASSUME NEW id \in CallIds, SendChunk(id) PROVE DownloadComplete'
  <2>1. UNCHANGED <<result, got>> /\ sent' = [sent EXCEPT ![id] = @ + 1] /\ work[id] = "busy"
    BY <1>3 DEF SendChunk, callVars
  <2>2. result[id] # "ok" /\ \A k \in CallIds : k # id => sent'[k] = sent[k]
    BY <2>1 DEF ExchangeInv, AnsweredInv, ExchangeTypeOK, TablesTyped
  <2> QED BY <2>1, <2>2 DEF ExchangeInv, DownloadComplete
<1>4. CASE ClientRoute
  <2>1. PICK f \in DownFrame :
             /\ f = Down[1] /\ f.n \in Nat
             /\ \/ f.t = "reply" /\ f.id \in CallIds /\ RouteReply(f)
                \/ f.t = "chunk" /\ f.id \in CallIds /\ RouteChunk(f)
                \/ f.t = "notice" /\ RouteNotice(f)
    BY <1>4, RoutedFrame
  <2>2. sent' = sent /\ crouter = "run" /\ Len(Down) \in Nat /\ 1 \in 1..Len(Down)
    BY <1>4, RoutedFrame DEF ClientRoute, svars
  <2>3. CASE f.t = "reply" /\ f.id \in CallIds /\ RouteReply(f)
    <3>1. got' = got /\ \A k \in CallIds : k # f.id => result'[k] = result[k]
      BY <2>3 DEF RouteReply, Settle, ExchangeInv, ExchangeTypeOK, TablesTyped
    <3>2. CASE awaiting[f.id] = "none"
      BY <2>2, <2>3, <3>1, <3>2 DEF RouteReply, ExchangeInv, DownloadComplete
    <3>3. CASE awaiting[f.id] # "none"
      <4>1. Received(f.id) /\ got[f.id] \in Seq(Nat) /\ sent[f.id] \in Nat
        BY <2>2, <2>3, <3>3, PendingNow DEF ExchangeInv, EntryInv, ExchangeTypeOK, TablesTyped
      <4>2. \A j \in 1..Len(Down) : ~ Chunk(j, f.id)
        BY <2>1, <2>2, <2>3 DEF ExchangeInv, StreamInv
      <4>3. Len(got[f.id]) = sent[f.id]
        BY <4>1, <4>2 DEF Received
      <4>4. got[f.id] = [i \in 1..sent[f.id] |-> i]
        BY <4>1, <4>3, Counted DEF Received
      <4> QED BY <2>2, <3>1, <4>4 DEF ExchangeInv, DownloadComplete
    <3> QED BY <3>2, <3>3
  <2>4. CASE f.t = "chunk" /\ f.id \in CallIds /\ RouteChunk(f)
    <3>1. result' = result /\ \A k \in CallIds : k # f.id => got'[k] = got[k]
      BY <2>4 DEF RouteChunk, ExchangeInv, EntryInv
    <3>2. result[f.id] = "ok" => got' = got
      BY <2>4 DEF RouteChunk, ExchangeInv, EntryInv
    <3> QED BY <2>2, <3>1, <3>2 DEF ExchangeInv, DownloadComplete
  <2>5. CASE f.t = "notice" /\ RouteNotice(f)
    BY <2>2, <2>5 DEF RouteNotice, ExchangeInv, DownloadComplete
  <2> QED BY <2>1, <2>3, <2>4, <2>5
<1>5. CASE ClientRouterClose
  <2>1. UNCHANGED <<sent, got>>
    BY <1>5 DEF ClientRouterClose, svars
  <2>2. \A id \in CallIds : result'[id] = "ok" => result[id] = "ok"
    BY <1>5 DEF ClientRouterClose, FailPending
  <2> QED BY <2>1, <2>2 DEF ExchangeInv, DownloadComplete
<1> QED BY <1>2, <1>3, <1>4, <1>5 DEF ExchangeNext, CallerStep, ServerRouter, ClientRouter

(* A download keeps its limit. *)
LEMMA BoundedKept == ASSUME ExchangeInv, ExchangeNext PROVE DownloadBounded'
<1> USE ExchangeAssumption, Bounds
<1>1. ASSUME UNCHANGED got PROVE DownloadBounded'
    BY <1>1 DEF DownloadBounded, ExchangeInv
<1>2. CASE
       \/ \E c \in Callers : CallStart(c) \/ ReserveSlot(c) \/ DropReserve(c) \/ UploadWrite(c)
             \/ UploadEnd(c) \/ Return(c) \/ DropCall(c) \/ SendCancel(c)
       \/ \E c \in Callers : \E kind \in {"unary", "download"} : InsertPending(c, kind)
       \/ \E c \in Callers : \E after \in {"await", "upload"} : PermitSend(c, after)
       \/ DropClient \/ ServerRoute \/ ServerRouterEnd \/ ServerRouterClose
       \/ ServerRouterSignal \/ ServerRecv \/ ServerStop \/ Notice \/ ClientRouterEnd
       \/ ClientRouterClose \/ ClientRouterSignal \/ Subscribe \/ TakeNotice
       \/ \E how \in {"try", "wait", "lossy"} : Tell(how)
       \/ \E id \in CallIds : SendChunk(id) \/ Reply(id)
  <2>1. UNCHANGED got
    BY <1>2
       DEF CallStart, ReserveSlot, DropReserve, InsertPending, PermitSend, UploadWrite,
           UploadEnd, Finish, Return, DropCall, SendCancel, TrySend, DropClient, Tell,
           ServerRoute, ServerRouterEnd, ServerRouterClose, ServerRouterSignal,
           ServerRecv, ServerStop, SendChunk, Reply, Notice, ClientRouterEnd,
           ClientRouterClose, FailPending, ClientRouterSignal, Subscribe, TakeNotice,
           rvars, svars, callVars, nvars
  <2> QED BY <2>1, <1>1
<1>3. CASE ClientRoute
  <2>1. PICK f \in DownFrame :
             /\ f = Down[1] /\ f.n \in Nat
             /\ \/ f.t = "reply" /\ f.id \in CallIds /\ RouteReply(f)
                \/ f.t = "chunk" /\ f.id \in CallIds /\ RouteChunk(f)
                \/ f.t = "notice" /\ RouteNotice(f)
    BY <1>3, RoutedFrame
  <2>2. CASE f.t = "chunk" /\ f.id \in CallIds /\ RouteChunk(f)
    <3>1. CASE got' = got
      BY <3>1 DEF ExchangeInv, DownloadBounded
    <3>2. CASE Len(got[f.id]) < ChunkLimit /\ got' = [got EXCEPT ![f.id] = Append(@, f.n)]
      <4>1. got[f.id] \in Seq(Nat) /\ got'[f.id] = Append(got[f.id], f.n)
        BY <2>2, <3>2 DEF ExchangeInv, EntryInv
      <4>2. Len(got'[f.id]) <= ChunkLimit
        BY <2>1, <3>2, <4>1, AppendFacts
      <4>3. \A k \in CallIds : k # f.id => got'[k] = got[k]
        BY <3>2 DEF ExchangeInv, EntryInv
      <4> QED BY <4>2, <4>3 DEF ExchangeInv, DownloadBounded
    <3> QED BY <2>2, <3>1, <3>2 DEF RouteChunk
  <2>3. CASE got' = got
    BY <2>3 DEF ExchangeInv, DownloadBounded
  <2> QED BY <2>1, <2>2, <2>3 DEF RouteReply, RouteNotice
<1> QED BY <1>2, <1>3 DEF ExchangeNext, CallerStep, ServerRouter, ClientRouter

(* A call that holds on to its entry. *)
Holding == {"inserted", "await", "upload"}

(* Entries go, and callers keep theirs or find it gone. *)
LEMMA LeakFrom ==
    ASSUME ExchangeInv,
           \A id \in CallIds : awaiting'[id] # "none" => awaiting[id] # "none",
           \A c \in Callers : callerAt[c] \in Holding =>
              \/ callerAt'[c] \in Holding /\ currentCall'[c] = currentCall[c]
              \/ awaiting'[currentCall[c]] = "none"
    PROVE  NoPendingLeak'
BY DEF ExchangeInv, NoPendingLeak, Holding

(* Every pending entry has a caller that will take it out. *)
LEMMA LeakKept == ASSUME ExchangeInv, ExchangeNext PROVE NoPendingLeak'
<1> USE ExchangeAssumption, Bounds
<1>1. ASSUME UNCHANGED <<awaiting, callerAt, currentCall>> PROVE NoPendingLeak'
    BY <1>1 DEF NoPendingLeak, ExchangeInv
<1>2. CASE
       \/ \E c \in Callers : UploadWrite(c)
       \/ DropClient \/ ServerRoute \/ ServerRouterEnd \/ ServerRouterClose
       \/ ServerRouterSignal \/ ServerRecv \/ ServerStop \/ Notice \/ ClientRouterEnd
       \/ ClientRouterSignal \/ Subscribe \/ TakeNotice
       \/ \E how \in {"try", "wait", "lossy"} : Tell(how)
       \/ \E id \in CallIds : SendChunk(id) \/ Reply(id)
  <2>1. UNCHANGED <<awaiting, callerAt, currentCall>>
    BY <1>2
       DEF UploadWrite, DropClient, Tell, TrySend, ServerRoute, ServerRouterEnd,
           ServerRouterClose, ServerRouterSignal, ServerRecv, ServerStop, SendChunk,
           Reply, Notice, ClientRouterEnd, ClientRouterSignal, Subscribe, TakeNotice,
           rvars, svars, callVars, nvars
  <2> QED BY <2>1, <1>1
<1>3. ASSUME NEW c \in Callers, CallStart(c) PROVE NoPendingLeak'
  <2>1. awaiting' = awaiting
    BY <1>3 DEF CallStart, callVars
  <2>2. \A b \in Callers : callerAt[b] \in Holding => callerAt'[b] \in Holding /\ currentCall'[b] = currentCall[b]
    BY <1>3 DEF CallStart, Finish, Holding, ExchangeInv, ExchangeTypeOK, TablesTyped
  <2> QED BY <2>1, <2>2, LeakFrom
<1>4. ASSUME NEW c \in Callers, ReserveSlot(c) PROVE NoPendingLeak'
  <2>1. awaiting' = awaiting
    BY <1>4 DEF ReserveSlot, callVars
  <2>2. \A b \in Callers : callerAt[b] \in Holding => callerAt'[b] \in Holding /\ currentCall'[b] = currentCall[b]
    BY <1>4 DEF ReserveSlot, Finish, Holding, ExchangeInv, ExchangeTypeOK, TablesTyped
  <2> QED BY <2>1, <2>2, LeakFrom
<1>5. ASSUME NEW c \in Callers, DropReserve(c) PROVE NoPendingLeak'
  <2>1. awaiting' = awaiting
    BY <1>5 DEF DropReserve, callVars
  <2>2. \A b \in Callers : callerAt[b] \in Holding => callerAt'[b] \in Holding /\ currentCall'[b] = currentCall[b]
    BY <1>5 DEF DropReserve, Finish, Holding, ExchangeInv, ExchangeTypeOK, TablesTyped
  <2> QED BY <2>1, <2>2, LeakFrom
<1>6. ASSUME NEW c \in Callers, NEW kind \in {"unary", "download"}, InsertPending(c, kind) PROVE NoPendingLeak'
  <2>1. /\ callerAt'[c] \in Holding /\ currentCall'[c] = nextCall
        /\ \A b \in Callers : b # c => callerAt'[b] = callerAt[b] /\ currentCall'[b] = currentCall[b]
        /\ callerAt[c] \notin Holding
    BY <1>6 DEF InsertPending, Holding, ExchangeInv, ExchangeTypeOK, TablesTyped
  <2>2. \A id \in CallIds : id # nextCall => awaiting'[id] = awaiting[id]
    BY <1>6 DEF InsertPending, ExchangeInv, ExchangeTypeOK, TablesTyped
  <2> QED BY <2>1, <2>2 DEF ExchangeInv, NoPendingLeak, Holding
<1>7. ASSUME NEW c \in Callers, NEW after \in {"await", "upload"}, PermitSend(c, after) PROVE NoPendingLeak'
  <2>1. awaiting' = awaiting
    BY <1>7 DEF PermitSend, callVars
  <2>2. \A b \in Callers : callerAt[b] \in Holding => callerAt'[b] \in Holding /\ currentCall'[b] = currentCall[b]
    BY <1>7 DEF PermitSend, Finish, Holding, ExchangeInv, ExchangeTypeOK, TablesTyped
  <2> QED BY <2>1, <2>2, LeakFrom
<1>8. ASSUME NEW c \in Callers, UploadEnd(c) PROVE NoPendingLeak'
  <2>1. currentCall[c] \in CallIds
    BY <1>8, CallerFrames DEF UploadEnd, Calling
  <2>2. \A b \in Callers : callerAt[b] \in Holding =>
           \/ callerAt'[b] \in Holding /\ currentCall'[b] = currentCall[b]
           \/ awaiting'[currentCall[b]] = "none"
    BY <1>8, <2>1 DEF UploadEnd, Finish, Holding, ExchangeInv, ExchangeTypeOK, TablesTyped
  <2>3. \A id \in CallIds : awaiting'[id] # "none" => awaiting[id] # "none"
    BY <1>8 DEF UploadEnd, callVars, ExchangeInv, ExchangeTypeOK, TablesTyped
  <2> QED BY <2>2, <2>3, LeakFrom
<1>9. ASSUME NEW c \in Callers, Return(c) PROVE NoPendingLeak'
  <2>1. currentCall[c] \in CallIds
    BY <1>9, CallerFrames DEF Return, Calling
  <2>2. \A b \in Callers : callerAt[b] \in Holding =>
           \/ callerAt'[b] \in Holding /\ currentCall'[b] = currentCall[b]
           \/ awaiting'[currentCall[b]] = "none"
    BY <1>9, <2>1 DEF Return, Finish, Holding, EntryInv, callVars, ExchangeInv, ExchangeTypeOK, TablesTyped
  <2>3. \A id \in CallIds : awaiting'[id] # "none" => awaiting[id] # "none"
    BY <1>9 DEF Return, callVars, ExchangeInv, ExchangeTypeOK, TablesTyped
  <2> QED BY <2>2, <2>3, LeakFrom
<1>10. ASSUME NEW c \in Callers, DropCall(c) PROVE NoPendingLeak'
  <2>1. currentCall[c] \in CallIds
    BY <1>10, CallerFrames DEF DropCall, Calling
  <2>2. \A b \in Callers : callerAt[b] \in Holding =>
           \/ callerAt'[b] \in Holding /\ currentCall'[b] = currentCall[b]
           \/ awaiting'[currentCall[b]] = "none"
    BY <1>10, <2>1 DEF DropCall, Finish, Holding, ExchangeInv, ExchangeTypeOK, TablesTyped
  <2>3. \A id \in CallIds : awaiting'[id] # "none" => awaiting[id] # "none"
    BY <1>10 DEF DropCall, callVars, ExchangeInv, ExchangeTypeOK, TablesTyped
  <2> QED BY <2>2, <2>3, LeakFrom
<1>11. ASSUME NEW c \in Callers, SendCancel(c) PROVE NoPendingLeak'
  <2>1. awaiting' = awaiting
    BY <1>11 DEF SendCancel, callVars
  <2>2. \A b \in Callers : callerAt[b] \in Holding => callerAt'[b] \in Holding /\ currentCall'[b] = currentCall[b]
    BY <1>11 DEF SendCancel, Finish, Holding, ExchangeInv, ExchangeTypeOK, TablesTyped
  <2> QED BY <2>1, <2>2, LeakFrom
<1>12. CASE ClientRoute
  <2>1. PICK f \in DownFrame :
             /\ f = Down[1] /\ f.n \in Nat
             /\ \/ f.t = "reply" /\ f.id \in CallIds /\ RouteReply(f)
                \/ f.t = "chunk" /\ f.id \in CallIds /\ RouteChunk(f)
                \/ f.t = "notice" /\ RouteNotice(f)
    BY <1>12, RoutedFrame
  <2>2. \A id \in CallIds : awaiting'[id] # "none" => awaiting[id] # "none"
    BY <2>1 DEF RouteReply, RouteChunk, RouteNotice, Settle, ExchangeInv, ExchangeTypeOK, TablesTyped
  <2>3. UNCHANGED <<callerAt, currentCall>>
    BY <1>12 DEF ClientRoute
  <2> QED BY <2>2, <2>3, LeakFrom
<1>13. CASE ClientRouterClose
    BY <1>13 DEF ClientRouterClose, FailPending, NoPendingLeak
<1> QED BY <1>2, <1>3, <1>4, <1>5, <1>6, <1>7, <1>8, <1>9, <1>10, <1>11, <1>12, <1>13
   DEF ExchangeNext, CallerStep, ServerRouter, ClientRouter

(* A subscriber's notices, seen and unseen. *)
LEMMA HeardFacts ==
    ASSUME NoticeTypes
    PROVE  /\ Heard \in Seq(Nat) /\ Len(Heard) \in Nat /\ Len(Heard) = Len(sub.seen) + Len(sub.queue)
           /\ Len(Heard) > 0 => Heard[Len(Heard)] \in Nat
           /\ NoticesContiguous <=> \A i \in 1..(Len(Heard) - 1) : Heard[i + 1] = Heard[i] + 1
<1>1. Heard \in Seq(Nat) /\ Len(Heard) \in Nat /\ Len(Heard) = Len(sub.seen) + Len(sub.queue)
    BY DEF NoticeTypes, Heard
<1>2. Len(Heard) > 0 => Heard[Len(Heard)] \in Nat
  <2>1. \A s \in Seq(Nat) : Len(s) > 0 => s[Len(s)] \in Nat
    OBVIOUS
  <2> QED BY <1>1, <2>1
<1>3. NoticesContiguous <=> \A i \in 1..(Len(Heard) - 1) : Heard[i + 1] = Heard[i] + 1
    BY DEF NoticesContiguous, Heard
<1> QED BY <1>1, <1>2, <1>3

(* One more notice is the last of those heard. *)
LEMMA ConcatAppend ==
    ASSUME NEW s \in Seq(Nat), NEW q \in Seq(Nat), NEW n \in Nat
    PROVE  s \o Append(q, n) = Append(s \o q, n)
OBVIOUS

(* Taking a notice from the queue hears nothing new. *)
LEMMA ConcatShift ==
    ASSUME NEW s \in Seq(Nat), NEW q \in Seq(Nat), q # <<>>
    PROVE  Append(s, Head(q)) \o Tail(q) = s \o q
OBVIOUS

(* A notice that is sent carries the next number. *)
LEMMA OrderedAppend ==
    ASSUME ExchangeInv, NEW f \in DownFrame, Push("toCli", f), f.n \in Nat,
           \/ f.t # "notice" /\ noticed' = noticed
           \/ f.t = "notice" /\ f.n = noticed + 1 /\ noticed' = noticed + 1
    PROVE  /\ NoticesOrdered'
           /\ \A k \in Nat : Follows(k) => Follows(k)'
<1>1. PICK l \in Nat :
         /\ l = Len(Down) /\ Len(Down') = l + 1 /\ Down'[l + 1] = f
         /\ \A i \in 1..Len(Down) : Down'[i] = Down[i]
    BY SentDown
<1>2. \A i \in 1..Len(Down) : Down[i].n \in Nat
    BY DownType DEF ExchangeInv
<1>3. noticed \in Nat /\ noticed' \in Nat /\ noticed <= noticed'
    BY DEF ExchangeInv, NoticeInv, NoticeTypes
<1>4. \A i \in 1..Len(Down') : i \in 1..Len(Down) \/ i = l + 1
    BY <1>1
<1>5. \A i \in 1..Len(Down) : i \in 1..Len(Down') /\ IsNotice(i)' = IsNotice(i) /\ Down'[i].n = Down[i].n
    BY <1>1 DEF IsNotice
<1>6. IsNotice(l + 1)' <=> f.t = "notice"
    BY <1>1 DEF IsNotice
<1>7. ASSUME NEW i \in 1..Len(Down'), IsNotice(i)' PROVE Down'[i].n \in 1..noticed'
  <2>1. CASE i \in 1..Len(Down)
    <3>1. IsNotice(i) /\ Down[i].n \in 1..noticed
      BY <1>5, <1>7, <2>1 DEF ExchangeInv, NoticeInv, NoticesOrdered
    <3> QED BY <1>3, <1>5, <2>1, <3>1
  <2>2. CASE i = l + 1
    BY <1>1, <1>3, <1>6, <1>7, <2>2
  <2> QED BY <1>4, <2>1, <2>2
<1>8. ASSUME NEW i \in 1..Len(Down'), NEW j \in 1..Len(Down'), i < j, IsNotice(i)', IsNotice(j)'
      PROVE  Down'[i].n < Down'[j].n
  <2>1. i \in 1..Len(Down) /\ IsNotice(i) /\ Down[i].n \in 1..noticed /\ Down'[i].n = Down[i].n
    BY <1>1, <1>5, <1>8 DEF ExchangeInv, NoticeInv, NoticesOrdered
  <2>2. CASE j \in 1..Len(Down)
    <3>1. IsNotice(j) /\ Down'[j].n = Down[j].n
      BY <1>5, <1>8, <2>2
    <3>2. Down[i].n < Down[j].n
      BY <1>8, <2>1, <2>2, <3>1 DEF ExchangeInv, NoticeInv, NoticesOrdered
    <3> QED BY <2>1, <3>1, <3>2
  <2>3. CASE j = l + 1
    <3>1. Down'[j].n = noticed + 1
      BY <1>1, <1>6, <1>8, <2>3
    <3> QED BY <1>3, <2>1, <3>1
  <2> QED BY <1>4, <2>2, <2>3
<1>9. ASSUME NEW m \in Nat, NEW n \in (m + 1)..noticed',
             n \in (m + 1)..noticed => \E j \in 1..Len(Down) : IsNotice(j) /\ Down[j].n = n
      PROVE  \E j \in 1..Len(Down') : IsNotice(j)' /\ Down'[j].n = n
  <2>1. CASE n \in (m + 1)..noticed
    <3>1. PICK j \in 1..Len(Down) : IsNotice(j) /\ Down[j].n = n
      BY <1>9, <2>1
    <3>2. j \in 1..Len(Down') /\ IsNotice(j)' /\ Down'[j].n = n
      BY <1>5, <3>1
    <3> QED BY <3>2
  <2>2. CASE n \notin (m + 1)..noticed
    <3>1. n = noticed + 1 /\ f.t = "notice" /\ f.n = noticed + 1
      BY <1>3, <1>9, <2>2
    <3>2. l + 1 \in 1..Len(Down') /\ IsNotice(l + 1)' /\ Down'[l + 1].n = n
      BY <1>1, <1>6, <3>1
    <3> QED BY <3>2
  <2> QED BY <2>1, <2>2
<1>10. ASSUME NEW i \in 1..Len(Down'), IsNotice(i)', NEW n \in (Down'[i].n + 1)..noticed'
       PROVE  \E j \in 1..Len(Down') : IsNotice(j)' /\ Down'[j].n = n
  <2>1. CASE i \in 1..Len(Down)
    <3>1. IsNotice(i) /\ Down'[i].n = Down[i].n /\ Down[i].n \in Nat
      BY <1>2, <1>5, <1>10, <2>1
    <3>2. n \in (Down[i].n + 1)..noticed => \E j \in 1..Len(Down) : IsNotice(j) /\ Down[j].n = n
      BY <2>1, <3>1 DEF ExchangeInv, NoticeInv, NoticesOrdered
    <3> QED BY <1>9, <1>10, <3>1, <3>2
  <2>2. CASE i = l + 1
    <3>1. Down'[i].n = noticed' /\ noticed' \in Nat
      BY <1>1, <1>3, <1>6, <1>10, <2>2
    <3>2. n \in (noticed' + 1)..noticed'
      BY <1>10, <3>1
    <3>3. \A m \in Nat : (m + 1)..m = {}
      OBVIOUS
    <3> QED BY <3>1, <3>2, <3>3
  <2> QED BY <1>4, <2>1, <2>2
<1>11. ASSUME NEW k \in Nat, Follows(k) PROVE Follows(k)'
  <2>1. k <= noticed'
    BY <1>3, <1>11 DEF Follows
  <2>2. ASSUME NEW i \in 1..Len(Down'), IsNotice(i)' PROVE Down'[i].n > k
    <3>1. CASE i \in 1..Len(Down)
      BY <1>5, <1>11, <2>2, <3>1 DEF Follows
    <3>2. CASE i = l + 1
      BY <1>1, <1>3, <1>6, <1>11, <2>2, <3>2 DEF Follows
    <3> QED BY <1>4, <3>1, <3>2
  <2>3. \A n \in (k + 1)..noticed' : \E j \in 1..Len(Down') : IsNotice(j)' /\ Down'[j].n = n
    BY <1>9, <1>11 DEF Follows
  <2> QED BY <2>1, <2>2, <2>3 DEF Follows
<1> QED BY <1>7, <1>8, <1>10, <1>11 DEF NoticesOrdered

(* A frame that is read leaves the notices behind it in order; a notice     *)
(* that is read is followed by the next one.                                *)
LEMMA OrderedPop ==
    ASSUME ExchangeInv, ClientRoute
    PROVE  /\ NoticesOrdered'
           /\ \A k \in Nat : Down[1].t # "notice" /\ Follows(k) => Follows(k)'
           /\ \A k \in Nat : Down[1].t = "notice" /\ k = Down[1].n => Follows(k)'
<1>1. /\ Len(Down) \in Nat \ {0} /\ Len(Down') = Len(Down) - 1 /\ 1 \in 1..Len(Down)
      /\ \A i \in 1..Len(Down') : Down'[i] = Down[i + 1]
    BY RoutedFrame
<1>2. noticed' = noticed /\ noticed \in Nat
    BY DEF ClientRoute, ExchangeInv, NoticeInv, NoticeTypes
<1>3. \A i \in 1..Len(Down) : Down[i].n \in Nat
    BY DownType DEF ExchangeInv
<1>4. \A i \in 1..Len(Down') :
         /\ i + 1 \in 1..Len(Down) /\ IsNotice(i)' = IsNotice(i + 1) /\ Down'[i].n = Down[i + 1].n
         /\ 1 < i + 1
    BY <1>1 DEF IsNotice
<1>5. ASSUME NEW j \in 1..Len(Down), j # 1
      PROVE  j - 1 \in 1..Len(Down') /\ IsNotice(j - 1)' = IsNotice(j) /\ Down'[j - 1].n = Down[j].n
  <2>1. j - 1 \in 1..Len(Down') /\ (j - 1) + 1 = j
    BY <1>1, <1>5
  <2> QED BY <1>4, <2>1
<1>6. ASSUME NEW i \in 1..Len(Down'), IsNotice(i)' PROVE Down'[i].n \in 1..noticed'
    BY <1>2, <1>4, <1>6 DEF ExchangeInv, NoticeInv, NoticesOrdered
<1>7. ASSUME NEW i \in 1..Len(Down'), NEW j \in 1..Len(Down'), i < j, IsNotice(i)', IsNotice(j)'
      PROVE  Down'[i].n < Down'[j].n
  <2>1. /\ i + 1 \in 1..Len(Down) /\ j + 1 \in 1..Len(Down) /\ i + 1 < j + 1
        /\ IsNotice(i + 1) /\ IsNotice(j + 1)
    BY <1>4, <1>7
  <2>2. Down[i + 1].n < Down[j + 1].n
    BY <2>1 DEF ExchangeInv, NoticeInv, NoticesOrdered
  <2> QED BY <1>4, <2>2
<1>8. ASSUME NEW m \in Nat, NEW n \in (m + 1)..noticed, IsNotice(1) => n # Down[1].n,
             \E j \in 1..Len(Down) : IsNotice(j) /\ Down[j].n = n
      PROVE  \E j \in 1..Len(Down') : IsNotice(j)' /\ Down'[j].n = n
  <2>1. PICK j \in 1..Len(Down) : IsNotice(j) /\ Down[j].n = n
    BY <1>8
  <2>2. j # 1
    BY <1>8, <2>1
  <2>3. j - 1 \in 1..Len(Down') /\ IsNotice(j - 1)' /\ Down'[j - 1].n = n
    BY <1>5, <2>1, <2>2
  <2> QED BY <2>3
<1>9. ASSUME NEW i \in 1..Len(Down'), IsNotice(i)', NEW n \in (Down'[i].n + 1)..noticed
      PROVE  \E j \in 1..Len(Down') : IsNotice(j)' /\ Down'[j].n = n
  <2>1. i + 1 \in 1..Len(Down) /\ IsNotice(i + 1) /\ Down'[i].n = Down[i + 1].n /\ Down[i + 1].n \in Nat
    BY <1>3, <1>4, <1>9
  <2>2. \E j \in 1..Len(Down) : IsNotice(j) /\ Down[j].n = n
    BY <1>9, <2>1 DEF ExchangeInv, NoticeInv, NoticesOrdered
  <2>3. IsNotice(1) => Down[1].n < Down[i + 1].n
    BY <1>1, <1>4, <2>1 DEF ExchangeInv, NoticeInv, NoticesOrdered
  <2>4. IsNotice(1) => n # Down[1].n
    BY <1>1, <1>2, <1>3, <1>9, <2>1, <2>3
  <2> QED BY <1>8, <1>9, <2>1, <2>2, <2>4
<1>10. ASSUME NEW k \in Nat, Down[1].t # "notice", Follows(k) PROVE Follows(k)'
  <2>1. \A i \in 1..Len(Down') : IsNotice(i)' => Down'[i].n > k
    BY <1>4, <1>10 DEF Follows
  <2>2. \A n \in (k + 1)..noticed : \E j \in 1..Len(Down') : IsNotice(j)' /\ Down'[j].n = n
    BY <1>8, <1>10 DEF Follows, IsNotice
  <2> QED BY <1>2, <1>10, <2>1, <2>2 DEF Follows
<1>11. ASSUME NEW k \in Nat, Down[1].t = "notice", k = Down[1].n PROVE Follows(k)'
  <2>1. IsNotice(1) /\ Down[1].n \in 1..noticed
    BY <1>1, <1>11 DEF IsNotice, ExchangeInv, NoticeInv, NoticesOrdered
  <2>2. ASSUME NEW i \in 1..Len(Down'), IsNotice(i)' PROVE Down'[i].n > k
    <3>1. Down[1].n < Down[i + 1].n
      BY <1>1, <1>4, <2>1, <2>2 DEF ExchangeInv, NoticeInv, NoticesOrdered
    <3> QED BY <1>3, <1>4, <1>11, <3>1
  <2>3. \A n \in (k + 1)..noticed : \E j \in 1..Len(Down) : IsNotice(j) /\ Down[j].n = n
    BY <1>1, <1>11, <2>1 DEF ExchangeInv, NoticeInv, NoticesOrdered
  <2>4. \A n \in (k + 1)..noticed : \E j \in 1..Len(Down') : IsNotice(j)' /\ Down'[j].n = n
    BY <1>8, <1>11, <2>3
  <2>5. k <= noticed'
    BY <1>2, <1>11, <2>1
  <2> QED BY <1>2, <2>2, <2>4, <2>5 DEF Follows
<1> QED BY <1>2, <1>6, <1>7, <1>9, <1>10, <1>11 DEF NoticesOrdered

(* A subscription keeps its type when its parts are replaced. *)
LEMMA SubWith ==
    ASSUME NEW s \in [on : BOOLEAN, queue : Seq(Nat), seen : Seq(Nat)],
           NEW q \in Seq(Nat), NEW v \in Seq(Nat), NEW s1, NEW s2,
           s1 = [s EXCEPT !.queue = q], s2 = [s EXCEPT !.queue = q, !.seen = v]
    PROVE  /\ s1 \in [on : BOOLEAN, queue : Seq(Nat), seen : Seq(Nat)]
           /\ s1.on = s.on /\ s1.queue = q /\ s1.seen = s.seen
           /\ s2 \in [on : BOOLEAN, queue : Seq(Nat), seen : Seq(Nat)]
OBVIOUS

(* The subscription after a frame was read. *)
LEMMA RoutedSub ==
    ASSUME ExchangeInv, ClientRoute, Down[1].t = "notice"
    PROVE  /\ Down[1].n \in Nat /\ crouter' = "run" /\ crouter = "run"
           /\ \/ ~ sub.on /\ sub' = sub
              \/ ~ sub'.on /\ sub'.queue = sub.queue /\ sub'.seen = sub.seen
              \/ /\ sub.on /\ sub'.on /\ Len(sub.queue) < SubCap /\ sub'.seen = sub.seen
                 /\ sub'.queue = Append(sub.queue, Down[1].n)
           /\ sub' \in [on : BOOLEAN, queue : Seq(Nat), seen : Seq(Nat)]
<1>1. PICK f \in DownFrame :
             /\ f = Down[1] /\ f.n \in Nat
             /\ \/ f.t = "reply" /\ f.id \in CallIds /\ RouteReply(f)
                \/ f.t = "chunk" /\ f.id \in CallIds /\ RouteChunk(f)
                \/ f.t = "notice" /\ RouteNotice(f)
    BY RoutedFrame
<1>2. RouteNotice(f) /\ crouter = "run"
    BY <1>1 DEF ClientRoute
<1>3. sub \in [on : BOOLEAN, queue : Seq(Nat), seen : Seq(Nat)]
    BY DEF ExchangeInv, NoticeInv, NoticeTypes
<1>4. CASE ~ sub.on
    BY <1>1, <1>2, <1>3, <1>4 DEF RouteNotice
<1>5. CASE sub.on /\ Len(sub.queue) < SubCap
  <2>1. sub' = [sub EXCEPT !.queue = Append(sub.queue, f.n)] /\ crouter' = crouter
    BY <1>2, <1>5 DEF RouteNotice
  <2>2. Append(sub.queue, f.n) \in Seq(Nat) /\ sub.seen \in Seq(Nat)
    BY <1>1, <1>3, AppendFacts
  <2>3. /\ sub' \in [on : BOOLEAN, queue : Seq(Nat), seen : Seq(Nat)]
        /\ sub'.on = sub.on /\ sub'.queue = Append(sub.queue, f.n) /\ sub'.seen = sub.seen
    BY <1>3, <2>1, <2>2, SubWith
  <2> QED BY <1>1, <1>2, <1>5, <2>1, <2>3
<1>6. CASE sub.on /\ ~ Len(sub.queue) < SubCap
    BY <1>1, <1>2, <1>3, <1>6 DEF RouteNotice
<1> QED BY <1>4, <1>5, <1>6

(* Other frames do not touch the subscription. *)
LEMMA RoutedOther ==
    ASSUME ExchangeInv, ClientRoute, Down[1].t # "notice"
    PROVE  sub' = sub /\ crouter = "run"
<1>1. PICK f \in DownFrame :
             /\ f = Down[1] /\ f.n \in Nat
             /\ \/ f.t = "reply" /\ f.id \in CallIds /\ RouteReply(f)
                \/ f.t = "chunk" /\ f.id \in CallIds /\ RouteChunk(f)
                \/ f.t = "notice" /\ RouteNotice(f)
    BY RoutedFrame
<1> QED BY <1>1 DEF RouteReply, RouteChunk, ClientRoute

(* Notices are numbers. *)
LEMMA NoticeTyped == ASSUME ExchangeInv, ExchangeNext PROVE NoticeTypes'
<1> USE ExchangeAssumption, Bounds
<1>1. ASSUME UNCHANGED <<sub, noticed, told>> PROVE NoticeTypes'
    BY <1>1 DEF NoticeTypes, NoticeInv, ExchangeInv
<1>2. CASE
       \/ \E c \in Callers : CallStart(c) \/ ReserveSlot(c) \/ DropReserve(c) \/ UploadWrite(c)
             \/ UploadEnd(c) \/ Return(c) \/ DropCall(c) \/ SendCancel(c)
       \/ \E c \in Callers : \E kind \in {"unary", "download"} : InsertPending(c, kind)
       \/ \E c \in Callers : \E after \in {"await", "upload"} : PermitSend(c, after)
       \/ DropClient \/ ServerRoute \/ ServerRouterEnd \/ ServerRouterClose
       \/ ServerRouterSignal \/ ServerRecv \/ ServerStop \/ ClientRouterEnd \/ ClientRouterClose
       \/ ClientRouterSignal
       \/ \E id \in CallIds : SendChunk(id) \/ Reply(id)
  <2>1. UNCHANGED <<sub, noticed, told>>
    BY <1>2
       DEF CallStart, ReserveSlot, DropReserve, InsertPending, PermitSend, UploadWrite,
           UploadEnd, Finish, Return, DropCall, SendCancel, TrySend, DropClient,
           ServerRoute, ServerRouterEnd, ServerRouterClose, ServerRouterSignal,
           ServerRecv, ServerStop, SendChunk, Reply, ClientRouterEnd, ClientRouterClose,
           FailPending, ClientRouterSignal, rvars, svars, callVars, nvars
  <2> QED BY <2>1, <1>1
<1>3. ASSUME NEW how \in {"try", "wait", "lossy"}, Tell(how) PROVE NoticeTypes'
  <2>1. UNCHANGED <<sub, noticed>> /\ told'.tries = told.tries + 1
    BY <1>3 DEF Tell, Numbered
  <2> QED BY <2>1 DEF ExchangeInv, NoticeInv, NoticeTypes
<1>4. CASE Notice
    BY <1>4 DEF Notice, ExchangeInv, NoticeInv, NoticeTypes
<1>5. CASE ClientRoute
  <2>1. UNCHANGED <<noticed, told>>
    BY <1>5 DEF ClientRoute
  <2>2. sub' \in [on : BOOLEAN, queue : Seq(Nat), seen : Seq(Nat)]
    BY <1>5, RoutedSub, RoutedOther DEF ExchangeInv, NoticeInv, NoticeTypes
  <2> QED BY <2>1, <2>2 DEF ExchangeInv, NoticeInv, NoticeTypes
<1>6. CASE Subscribe
    BY <1>6 DEF Subscribe, ExchangeInv, NoticeInv, NoticeTypes
<1>7. CASE TakeNotice
  <2>1. UNCHANGED <<noticed, told>>
    BY <1>7 DEF TakeNotice
  <2>2. Head(sub.queue) \in Nat /\ Tail(sub.queue) \in Seq(Nat) /\ sub.seen \in Seq(Nat)
    BY <1>7, TailFacts DEF TakeNotice, ExchangeInv, NoticeInv, NoticeTypes
  <2>3. sub' = [sub EXCEPT !.queue = Tail(sub.queue), !.seen = Append(sub.seen, Head(sub.queue))]
    BY <1>7 DEF TakeNotice
  <2>4. sub \in [on : BOOLEAN, queue : Seq(Nat), seen : Seq(Nat)] /\ Append(sub.seen, Head(sub.queue)) \in Seq(Nat)
    BY <2>2, AppendFacts DEF ExchangeInv, NoticeInv, NoticeTypes
  <2>5. sub' \in [on : BOOLEAN, queue : Seq(Nat), seen : Seq(Nat)]
    BY <2>2, <2>3, <2>4, SubWith
  <2> QED BY <2>1, <2>5 DEF ExchangeInv, NoticeInv, NoticeTypes
<1> QED BY <1>2, <1>3, <1>4, <1>5, <1>6, <1>7
   DEF ExchangeNext, CallerStep, ServerRouter, ClientRouter

(* The notices on their way are consecutive. *)
LEMMA OrderedKept == ASSUME ExchangeInv, ExchangeNext PROVE NoticesOrdered'
<1> USE ExchangeAssumption, Bounds
<1>1. ASSUME UNCHANGED <<noticed, Down>> PROVE NoticesOrdered'
    BY <1>1 DEF NoticesOrdered, IsNotice, NoticeInv, ExchangeInv
<1>2. CASE
       \/ \E c \in Callers : CallStart(c) \/ ReserveSlot(c) \/ DropReserve(c) \/ UploadWrite(c)
             \/ UploadEnd(c) \/ Return(c) \/ DropCall(c) \/ SendCancel(c)
       \/ \E c \in Callers : \E kind \in {"unary", "download"} : InsertPending(c, kind)
       \/ \E c \in Callers : \E after \in {"await", "upload"} : PermitSend(c, after)
       \/ DropClient \/ ServerRoute \/ ServerRouterEnd \/ ServerRouterClose
       \/ ServerRouterSignal \/ ServerRecv \/ ServerStop \/ ClientRouterEnd \/ ClientRouterClose
       \/ Subscribe \/ TakeNotice
       \/ \E how \in {"try", "wait", "lossy"} : Tell(how)
  <2>1. UNCHANGED <<noticed, Down>>
    BY <1>2, DownKept
       DEF CallStart, ReserveSlot, DropReserve, InsertPending, PermitSend, UploadWrite,
           UploadEnd, Finish, Return, DropCall, SendCancel, TrySend, DropClient, Tell,
           ServerRoute, ServerRouterEnd, ServerRouterClose, ServerRouterSignal,
           ServerRecv, ServerStop, ClientRouterEnd, ClientRouterClose, FailPending,
           Subscribe, TakeNotice, rvars, svars, callVars, nvars
  <2> QED BY <2>1, <1>1
<1>3. ASSUME NEW id \in CallIds, SendChunk(id) PROVE NoticesOrdered'
  <2> DEFINE f == Numbered("chunk", id, sent[id] + 1)
  <2>1. f \in DownFrame /\ f.t = "chunk" /\ Push("toCli", f) /\ f.n \in Nat
    BY <1>3, ServerFrames, DownFields DEF SendChunk, ExchangeInv, ExchangeTypeOK, TablesTyped
  <2>2. UNCHANGED <<sub, crouter, noticed>>
    BY <1>3 DEF SendChunk, nvars, rvars
  <2> HIDE DEF f
  <2> QED BY <2>1, <2>2, OrderedAppend
<1>4. ASSUME NEW id \in CallIds, Reply(id) PROVE NoticesOrdered'
  <2>1. UNCHANGED <<sub, crouter, noticed>>
    BY <1>4 DEF Reply, nvars, rvars
  <2>2. CASE lane' = lane
    BY <2>1, <2>2 DEF Down, ExchangeInv, NoticeInv, NoticesOrdered, IsNotice
  <2>3. CASE lane' # lane
    <3> DEFINE f == Numbered("reply", id, sent[id])
    <3>1. f \in DownFrame /\ f.t = "reply" /\ Push("toCli", f) /\ f.n \in Nat
      BY <1>4, <2>3, ServerFrames, DownFields DEF Reply, ExchangeInv, ExchangeTypeOK, TablesTyped
    <3> HIDE DEF f
    <3> QED BY <2>1, <3>1, OrderedAppend
  <2> QED BY <2>2, <2>3
<1>5. CASE Notice
  <2> DEFINE f == Numbered("notice", 0, noticed + 1)
  <2>1. f \in DownFrame /\ f.t = "notice" /\ Push("toCli", f) /\ f.n = noticed + 1 /\ f.n \in Nat
    BY <1>5, ServerFrames, DownFields DEF Notice, ExchangeInv, NoticeInv, NoticeTypes
  <2>2. UNCHANGED <<sub, crouter>> /\ noticed' = noticed + 1
    BY <1>5 DEF Notice, rvars
  <2> HIDE DEF f
  <2> QED BY <2>1, <2>2, OrderedAppend
<1>6. CASE ClientRoute
    BY <1>6, OrderedPop
<1>7. CASE ClientRouterSignal
  <2>1. Down' = <<>>
    BY <1>7, LaneClear DEF ClientRouterSignal, ExchangeInv, Down, Dirs, Queues
  <2> QED BY <2>1 DEF NoticesOrdered
<1> QED BY <1>2, <1>3, <1>4, <1>5, <1>6, <1>7
   DEF ExchangeNext, CallerStep, ServerRouter, ClientRouter

(* A subscriber that heard nothing new waits for what it waited for. *)
LEMMA NextFrom ==
    ASSUME ExchangeInv, Heard' = Heard, sub'.on => sub.on, crouter' = "run" => crouter = "run",
           \A k \in Nat : Follows(k) => Follows(k)'
    PROVE  NextNoticeComes'
<1>1. SUFFICES ASSUME crouter' = "run", sub'.on, Len(Heard') > 0
               PROVE  \A k \in Nat : k = Heard'[Len(Heard')] => Follows(k)'
  <2>1. Len(Heard) > 0 => Heard[Len(Heard)] \in Nat
    BY HeardFacts DEF ExchangeInv, NoticeInv
  <2> QED BY <2>1 DEF NextNoticeComes
<1>2. Follows(Heard[Len(Heard)])
    BY <1>1 DEF ExchangeInv, NoticeInv, NextNoticeComes
<1> QED BY <1>2

(* A live subscriber is sent the notice after the last one it heard. *)
LEMMA NextKept == ASSUME ExchangeInv, ExchangeNext PROVE NextNoticeComes'
<1> USE ExchangeAssumption, Bounds
<1>1. ASSUME UNCHANGED <<crouter, sub, noticed, Down>> PROVE NextNoticeComes'
  <2>1. Heard' = Heard
    BY <1>1 DEF Heard
  <2>2. \A k \in Nat : Follows(k) => Follows(k)'
    BY <1>1 DEF Follows, IsNotice
  <2> QED BY <1>1, <2>1, <2>2, NextFrom
<1>2. CASE
       \/ \E c \in Callers : CallStart(c) \/ ReserveSlot(c) \/ DropReserve(c) \/ UploadWrite(c)
             \/ UploadEnd(c) \/ Return(c) \/ DropCall(c) \/ SendCancel(c)
       \/ \E c \in Callers : \E kind \in {"unary", "download"} : InsertPending(c, kind)
       \/ \E c \in Callers : \E after \in {"await", "upload"} : PermitSend(c, after)
       \/ DropClient \/ ServerRoute \/ ServerRouterEnd \/ ServerRouterClose
       \/ ServerRouterSignal \/ ServerRecv \/ ServerStop
       \/ \E how \in {"try", "wait", "lossy"} : Tell(how)
  <2>1. UNCHANGED <<crouter, sub, noticed, Down>>
    BY <1>2, DownKept
       DEF CallStart, ReserveSlot, DropReserve, InsertPending, PermitSend, UploadWrite,
           UploadEnd, Finish, Return, DropCall, SendCancel, TrySend, DropClient, Tell,
           ServerRoute, ServerRouterEnd, ServerRouterClose, ServerRouterSignal,
           ServerRecv, ServerStop, rvars, svars, callVars, nvars
  <2> QED BY <2>1, <1>1
<1>3. ASSUME NEW id \in CallIds, SendChunk(id) PROVE NextNoticeComes'
  <2> DEFINE f == Numbered("chunk", id, sent[id] + 1)
  <2>1. f \in DownFrame /\ f.t = "chunk" /\ Push("toCli", f) /\ f.n \in Nat
    BY <1>3, ServerFrames, DownFields DEF SendChunk, ExchangeInv, ExchangeTypeOK, TablesTyped
  <2>2. UNCHANGED <<sub, crouter, noticed>>
    BY <1>3 DEF SendChunk, nvars, rvars
  <2> HIDE DEF f
  <2>3. Heard' = Heard
    BY <2>2 DEF Heard
  <2>4. \A k \in Nat : Follows(k) => Follows(k)'
    BY <2>1, <2>2, OrderedAppend
  <2> QED BY <2>2, <2>3, <2>4, NextFrom
<1>4. ASSUME NEW id \in CallIds, Reply(id) PROVE NextNoticeComes'
  <2>1. UNCHANGED <<sub, crouter, noticed, Heard>>
    BY <1>4 DEF Reply, nvars, rvars, Heard
  <2>2. CASE lane' = lane
    <3>1. \A k \in Nat : Follows(k) => Follows(k)'
      BY <2>1, <2>2 DEF Down, Follows, IsNotice
    <3> QED BY <2>1, <3>1, NextFrom
  <2>3. CASE lane' # lane
    <3> DEFINE f == Numbered("reply", id, sent[id])
    <3>1. f \in DownFrame /\ f.t = "reply" /\ Push("toCli", f) /\ f.n \in Nat
      BY <1>4, <2>3, ServerFrames, DownFields DEF Reply, ExchangeInv, ExchangeTypeOK, TablesTyped
    <3> HIDE DEF f
    <3>2. \A k \in Nat : Follows(k) => Follows(k)'
      BY <2>1, <3>1, OrderedAppend
    <3> QED BY <2>1, <3>2, NextFrom
  <2> QED BY <2>2, <2>3
<1>5. CASE Notice
  <2> DEFINE f == Numbered("notice", 0, noticed + 1)
  <2>1. f \in DownFrame /\ f.t = "notice" /\ Push("toCli", f) /\ f.n = noticed + 1 /\ f.n \in Nat
    BY <1>5, ServerFrames, DownFields DEF Notice, ExchangeInv, NoticeInv, NoticeTypes
  <2>2. UNCHANGED <<sub, crouter>> /\ noticed' = noticed + 1
    BY <1>5 DEF Notice, rvars
  <2> HIDE DEF f
  <2>3. Heard' = Heard
    BY <2>2 DEF Heard
  <2>4. \A k \in Nat : Follows(k) => Follows(k)'
    BY <2>1, <2>2, OrderedAppend
  <2> QED BY <2>2, <2>3, <2>4, NextFrom
<1>6. CASE ClientRoute
  <2>1. CASE Down[1].t # "notice"
    <3>1. Heard' = Heard /\ sub' = sub /\ crouter = "run"
      BY <1>6, <2>1, RoutedOther DEF Heard
    <3>2. \A k \in Nat : Follows(k) => Follows(k)'
      BY <1>6, <2>1, OrderedPop
    <3> QED BY <3>1, <3>2, NextFrom
  <2>2. CASE Down[1].t = "notice" /\ ~ sub'.on
    BY <2>2 DEF NextNoticeComes
  <2>3. CASE Down[1].t = "notice" /\ sub'.on
    <3>1. PICK k \in Nat : k = Down[1].n
      BY <1>6, <2>3, RoutedSub
    <3>2. sub.seen \in Seq(Nat) /\ sub.queue \in Seq(Nat)
      BY DEF ExchangeInv, NoticeInv, NoticeTypes
    <3>3. sub'.seen = sub.seen /\ sub'.queue = Append(sub.queue, k)
      BY <1>6, <2>3, <3>1, RoutedSub
    <3>4. Heard' = Append(Heard, k) /\ Heard \in Seq(Nat)
      <4>1. Heard' = sub.seen \o Append(sub.queue, k)
        BY <3>3 DEF Heard
      <4>2. sub.seen \o Append(sub.queue, k) = Append(sub.seen \o sub.queue, k)
        BY <3>2, ConcatAppend
      <4>3. Heard \in Seq(Nat)
        BY HeardFacts DEF ExchangeInv, NoticeInv
      <4> QED BY <4>1, <4>2, <4>3 DEF Heard
    <3>5. Heard'[Len(Heard')] = k
      BY <3>1, <3>4, AppendFacts
    <3>6. Follows(k)'
      BY <1>6, <2>3, <3>1, OrderedPop
    <3> QED BY <3>5, <3>6 DEF NextNoticeComes
  <2> QED BY <2>1, <2>2, <2>3
<1>7. CASE ClientRouterEnd
    BY <1>7 DEF ClientRouterEnd, NextNoticeComes
<1>8. CASE ClientRouterClose
    BY <1>8 DEF ClientRouterClose, NextNoticeComes
<1>9. CASE ClientRouterSignal
    BY <1>9 DEF ClientRouterSignal, NextNoticeComes
<1>10. CASE Subscribe
  <2>1. sub \in [on : BOOLEAN, queue : Seq(Nat), seen : Seq(Nat)]
    BY DEF ExchangeInv, NoticeInv, NoticeTypes
  <2>2. sub'.seen = <<>> /\ sub'.queue = <<>>
    BY <1>10, <2>1 DEF Subscribe
  <2>3. Len(Heard') = 0
    BY <2>2 DEF Heard
  <2> QED BY <2>3 DEF NextNoticeComes
<1>11. CASE TakeNotice
  <2>1. sub \in [on : BOOLEAN, queue : Seq(Nat), seen : Seq(Nat)]
    BY DEF ExchangeInv, NoticeInv, NoticeTypes
  <2>2. /\ sub'.on = sub.on /\ sub'.queue = Tail(sub.queue) /\ sub.queue # <<>>
        /\ sub'.seen = Append(sub.seen, Head(sub.queue))
    BY <1>11, <2>1 DEF TakeNotice
  <2>3. Heard' = Heard
    BY <2>1, <2>2, ConcatShift DEF Heard
  <2>4. UNCHANGED <<crouter, noticed, Down>>
    BY <1>11, DownKept DEF TakeNotice, rvars
  <2>5. \A k \in Nat : Follows(k) => Follows(k)'
    BY <2>4 DEF Follows, IsNotice
  <2> QED BY <2>2, <2>3, <2>4, <2>5, NextFrom
<1> QED BY <1>2, <1>3, <1>4, <1>5, <1>6, <1>7, <1>8, <1>9, <1>10, <1>11
   DEF ExchangeNext, CallerStep, ServerRouter, ClientRouter

(* What a subscriber hears has no gap, and what it has not seen fits its    *)
(* channel.                                                                 *)
LEMMA HeardKept == ASSUME ExchangeInv, ExchangeNext PROVE (NoticesContiguous /\ Len(sub.queue) <= SubCap)'
<1> USE ExchangeAssumption, Bounds
<1>1. ASSUME UNCHANGED sub PROVE (NoticesContiguous /\ Len(sub.queue) <= SubCap)'
    BY <1>1 DEF NoticesContiguous, ExchangeInv, ExchangeTypeOK
<1>2. CASE
       \/ \E c \in Callers : CallStart(c) \/ ReserveSlot(c) \/ DropReserve(c) \/ UploadWrite(c)
             \/ UploadEnd(c) \/ Return(c) \/ DropCall(c) \/ SendCancel(c)
       \/ \E c \in Callers : \E kind \in {"unary", "download"} : InsertPending(c, kind)
       \/ \E c \in Callers : \E after \in {"await", "upload"} : PermitSend(c, after)
       \/ DropClient \/ ServerRoute \/ ServerRouterEnd \/ ServerRouterClose
       \/ ServerRouterSignal \/ ServerRecv \/ ServerStop \/ Notice \/ ClientRouterEnd
       \/ ClientRouterClose \/ ClientRouterSignal
       \/ \E how \in {"try", "wait", "lossy"} : Tell(how)
       \/ \E id \in CallIds : SendChunk(id) \/ Reply(id)
  <2>1. UNCHANGED sub
    BY <1>2
       DEF CallStart, ReserveSlot, DropReserve, InsertPending, PermitSend, UploadWrite,
           UploadEnd, Finish, Return, DropCall, SendCancel, TrySend, DropClient, Tell,
           ServerRoute, ServerRouterEnd, ServerRouterClose, ServerRouterSignal,
           ServerRecv, ServerStop, SendChunk, Reply, Notice, ClientRouterEnd,
           ClientRouterClose, FailPending, ClientRouterSignal, rvars, svars, callVars,
           nvars
  <2> QED BY <2>1, <1>1
<1>3. CASE ClientRoute
  <2>1. CASE sub'.queue = sub.queue /\ sub'.seen = sub.seen
    BY <2>1 DEF NoticesContiguous, ExchangeInv, ExchangeTypeOK
  <2>2. CASE ~ (sub'.queue = sub.queue /\ sub'.seen = sub.seen)
    <3>1. Down[1].t = "notice"
      BY <1>3, <2>2, RoutedOther
    <3>2. PICK k \in Nat : k = Down[1].n
      BY <1>3, <3>1, RoutedSub
    <3>3. /\ sub.on /\ Len(sub.queue) < SubCap /\ sub'.seen = sub.seen
          /\ sub'.queue = Append(sub.queue, k) /\ crouter = "run"
      BY <1>3, <2>2, <3>1, <3>2, RoutedSub
    <3>4. NoticeTypes /\ NoticeTypes' /\ sub.seen \in Seq(Nat) /\ sub.queue \in Seq(Nat)
      BY NoticeTyped DEF ExchangeInv, NoticeInv, NoticeTypes
    <3>5. Len(sub'.queue) <= SubCap
      BY <3>3, <3>4, AppendFacts
    <3>6. Heard' = Append(Heard, k) /\ Heard \in Seq(Nat) /\ Len(Heard) \in Nat
      <4>1. Heard' = sub.seen \o Append(sub.queue, k)
        BY <3>3 DEF Heard
      <4>2. sub.seen \o Append(sub.queue, k) = Append(sub.seen \o sub.queue, k)
        BY <3>4, ConcatAppend
      <4>3. Heard \in Seq(Nat) /\ Len(Heard) \in Nat
        BY <3>4, HeardFacts
      <4> QED BY <4>1, <4>2, <4>3 DEF Heard
    <3>7. /\ Len(Heard') = Len(Heard) + 1 /\ Heard'[Len(Heard) + 1] = k
          /\ \A i \in 1..Len(Heard) : Heard'[i] = Heard[i]
      BY <3>6, AppendFacts
    <3>8. ASSUME NEW last \in Nat, Len(Heard) > 0, last = Heard[Len(Heard)] PROVE k = last + 1
      <4>1. Follows(last)
        BY <3>3, <3>8 DEF ExchangeInv, NoticeInv, NextNoticeComes
      <4>2. 1 \in 1..Len(Down) /\ IsNotice(1) /\ Len(Down) \in Nat
        BY <1>3, <3>1, RoutedFrame DEF IsNotice
      <4>3. k > last /\ k \in 1..noticed
        BY <3>2, <4>1, <4>2 DEF Follows, ExchangeInv, NoticeInv, NoticesOrdered
      <4>4. last + 1 \in (last + 1)..noticed
        BY <3>4, <4>3 DEF NoticeTypes
      <4>5. PICK j \in 1..Len(Down) : IsNotice(j) /\ Down[j].n = last + 1
        BY <4>1, <4>4 DEF Follows
      <4>6. j # 1 => Down[1].n < Down[j].n
        BY <4>2, <4>5 DEF ExchangeInv, NoticeInv, NoticesOrdered
      <4> QED BY <3>2, <4>3, <4>5, <4>6
    <3>9. Len(Heard) > 0 => k = Heard[Len(Heard)] + 1
      BY <3>4, <3>8, HeardFacts
    <3>10. \A i \in 1..(Len(Heard) - 1) : Heard[i + 1] = Heard[i] + 1
      BY <3>4, HeardFacts DEF ExchangeInv
    <3>11. ASSUME NEW i \in 1..(Len(Heard') - 1) PROVE Heard'[i + 1] = Heard'[i] + 1
      <4>1. CASE i = Len(Heard)
        BY <3>6, <3>7, <3>9, <4>1
      <4>2. CASE i # Len(Heard)
        <5>1. i \in 1..(Len(Heard) - 1) /\ i \in 1..Len(Heard) /\ i + 1 \in 1..Len(Heard)
          BY <3>6, <3>7, <4>2
        <5> QED BY <3>7, <3>10, <5>1
      <4> QED BY <4>1, <4>2
    <3>12. NoticesContiguous'
      BY <3>11 DEF NoticesContiguous, Heard
    <3> QED BY <3>5, <3>12
  <2> QED BY <2>1, <2>2
<1>4. CASE Subscribe
  <2>1. sub \in [on : BOOLEAN, queue : Seq(Nat), seen : Seq(Nat)]
    BY DEF ExchangeInv, NoticeInv, NoticeTypes
  <2>2. sub'.seen = sub.seen /\ sub'.queue = sub.queue
    BY <1>4, <2>1 DEF Subscribe
  <2> QED BY <2>2 DEF NoticesContiguous, ExchangeInv, ExchangeTypeOK
<1>5. CASE TakeNotice
  <2>1. sub \in [on : BOOLEAN, queue : Seq(Nat), seen : Seq(Nat)]
    BY DEF ExchangeInv, NoticeInv, NoticeTypes
  <2>2. /\ sub'.on = sub.on /\ sub'.queue = Tail(sub.queue) /\ sub.queue # <<>>
        /\ sub'.seen = Append(sub.seen, Head(sub.queue))
    BY <1>5, <2>1 DEF TakeNotice
  <2>3. Heard' = Heard
    BY <2>1, <2>2, ConcatShift DEF Heard
  <2>4. NoticesContiguous'
    BY <2>3 DEF Heard, NoticesContiguous, ExchangeInv
  <2>5. Len(sub'.queue) <= SubCap
    BY <2>1, <2>2, TailFacts DEF ExchangeInv, ExchangeTypeOK
  <2> QED BY <2>4, <2>5
<1> QED BY <1>2, <1>3, <1>4, <1>5 DEF ExchangeNext, CallerStep, ServerRouter, ClientRouter

-----------------------------------------------------------------------------
(* The invariant, and what follows from it. *)

(* A new exchange: empty lanes, no calls, nobody subscribed. *)
LEMMA ExchangeInitial == ASSUME ExchangeInit PROVE ExchangeInv
<1> USE ExchangeAssumption, Bounds
<1>1. \A d \in Dirs, q \in Queues : lane[d][q] = <<>>
    BY DEF ExchangeInit, EmptyLane
<1>2. LaneInv
    BY DEF ExchangeInit, EmptyLane, LaneInv, LanesOK
<1>3. Down = <<>> /\ Up = <<>> /\ In = <<>>
    BY <1>1 DEF Down, Up, In, Dirs, Queues
<1>4. Permits = {} /\ Reserving = {}
    BY DEF ExchangeInit, Permits, Reserving
<1>5. Cardinality(Permits) = 0 /\ Cardinality(Reserving) = 0
    BY <1>4, FS_EmptySet
<1>6. ExchangeTypeOK
  <2>1. LanesBounded
    BY <1>1, <1>5 DEF LanesBounded
  <2>2. TablesTyped
    BY DEF ExchangeInit, TablesTyped, CallIds
  <2>3. Len(sub.queue) <= SubCap
    BY DEF ExchangeInit
  <2> QED BY <2>1, <2>2, <2>3 DEF ExchangeTypeOK
<1>7. ReserveInv
    BY <1>5 DEF ExchangeInit, ReserveInv
<1>8. OwnInv /\ FreshInv /\ EntryInv
    BY DEF ExchangeInit, OwnInv, FreshInv, EntryInv, Calling
<1>9. TravelInv
    BY <1>3 DEF ExchangeInit, TravelInv, AllTravel, Distinct, Apart
<1>10. StreamInv /\ PendingInv /\ AnsweredInv
    BY <1>3 DEF ExchangeInit, StreamInv, PendingInv, AnsweredInv
<1>11. DownloadComplete /\ DownloadBounded /\ NoPendingLeak
    BY DEF ExchangeInit, DownloadComplete, DownloadBounded, NoPendingLeak
<1>12. NoticeTypes /\ NoticesOrdered /\ NextNoticeComes
    BY <1>3 DEF ExchangeInit, NoticeTypes, NoticesOrdered, NextNoticeComes
<1>13. NoticesContiguous
  <2>1. sub.seen = <<>> /\ sub.queue = <<>>
    BY DEF ExchangeInit
  <2> QED BY <2>1 DEF NoticesContiguous
<1> QED BY <1>2, <1>6, <1>7, <1>8, <1>9, <1>10, <1>11, <1>12, <1>13 DEF ExchangeInv, NoticeInv

(* Every step of every task keeps the invariant. *)
LEMMA ExchangeStep == ASSUME ExchangeInv, [ExchangeNext]_exchangeVars PROVE ExchangeInv'
<1>1. CASE ExchangeNext
  <2>1. ExchangeTypeOK'
    BY <1>1, BoundKept, TablesKept, HeardKept DEF ExchangeTypeOK
  <2>2. LaneInv' /\ ReserveInv' /\ OwnInv' /\ FreshInv' /\ EntryInv' /\ TravelInv'
    BY <1>1, LaneKept, ReserveKept, OwnersKept, FreshKept, EntriesKept, CallsKept
  <2>3. StreamInv' /\ PendingInv' /\ AnsweredInv'
    BY <1>1, StreamKept, PendingKept, AnsweredKept
  <2>4. DownloadComplete' /\ DownloadBounded' /\ NoPendingLeak'
    BY <1>1, CompleteKept, BoundedKept, LeakKept
  <2>5. NoticeInv' /\ NoticesContiguous'
    BY <1>1, NoticeTyped, OrderedKept, NextKept, HeardKept DEF NoticeInv
  <2> QED BY <2>1, <2>2, <2>3, <2>4, <2>5 DEF ExchangeInv
<1>2. CASE UNCHANGED exchangeVars
  <2>1. UNCHANGED <<Down, Up, In, Permits, Reserving, Heard>>
    BY <1>2 DEF exchangeVars, Down, Up, In, Permits, Reserving, Heard
  <2>2. ExchangeTypeOK'
    BY <1>2, <2>1 DEF ExchangeInv, exchangeVars, ExchangeTypeOK, LanesBounded, TablesTyped
  <2>3. LaneInv' /\ ReserveInv' /\ OwnInv' /\ FreshInv' /\ EntryInv'
    BY <1>2, <2>1 DEF ExchangeInv, exchangeVars, LaneInv, LanesOK, ReserveInv, OwnInv, FreshInv, EntryInv
  <2>4. TravelInv'
    BY <1>2, <2>1 DEF ExchangeInv, exchangeVars, TravelInv, AllTravel, Distinct, Apart, Travelling
  <2>5. StreamInv'
    BY <1>2, <2>1 DEF ExchangeInv, exchangeVars, StreamInv, Chunk
  <2>6. PendingInv'
    BY <1>2, <2>1 DEF ExchangeInv, exchangeVars, PendingInv, Chunk
  <2>7. AnsweredInv' /\ DownloadComplete' /\ DownloadBounded' /\ NoPendingLeak'
    BY <1>2 DEF ExchangeInv, exchangeVars, AnsweredInv, DownloadComplete, DownloadBounded, NoPendingLeak
  <2>8. NoticeTypes' /\ NoticesOrdered' /\ NoticesContiguous'
    BY <1>2, <2>1 DEF ExchangeInv, exchangeVars, NoticeInv, NoticeTypes, NoticesOrdered, IsNotice,
                      NoticesContiguous
  <2>9. NextNoticeComes'
    BY <1>2, <2>1 DEF ExchangeInv, exchangeVars, NoticeInv, NextNoticeComes, Follows, IsNotice
  <2> QED BY <2>2, <2>3, <2>4, <2>5, <2>6, <2>7, <2>8, <2>9 DEF ExchangeInv, NoticeInv
<1> QED BY <1>1, <1>2

(* The invariant holds of every exchange that `local' wires, whatever its   *)
(* callers, its server and its two routers do, in whatever order.           *)
THEOREM ExchangeInvariant == ExchangeSpec => []ExchangeInv
<1>1. ExchangeInit => ExchangeInv
    BY ExchangeInitial
<1>2. ExchangeInv /\ [ExchangeNext]_exchangeVars => ExchangeInv'
    BY ExchangeStep
<1> QED BY <1>1, <1>2, PTL DEF ExchangeSpec

(* No lane holds more frames and reserved slots than its capacity, however  *)
(* permits, sends and routers interleave, and every table keeps its type.   *)
THEOREM ExchangeTypeCorrect == ExchangeSpec => []ExchangeTypeOK
<1>1. ExchangeInv => ExchangeTypeOK
    BY DEF ExchangeInv
<1> QED BY <1>1, ExchangeInvariant, PTL

(* A call_download that returns Ok has exactly the chunks its handler sent  *)
(* before its reply, in order.                                              *)
THEOREM DownloadsComplete == ExchangeSpec => []DownloadComplete
<1>1. ExchangeInv => DownloadComplete
    BY DEF ExchangeInv
<1> QED BY <1>1, ExchangeInvariant, PTL

(* route_chunk never stores more than the limit of the download.            *)
THEOREM DownloadsBounded == ExchangeSpec => []DownloadBounded
<1>1. ExchangeInv => DownloadBounded
    BY DEF ExchangeInv
<1> QED BY <1>1, ExchangeInvariant, PTL

(* The pending map has no entry that nobody will take out: a returned or    *)
(* dropped call leaves nothing behind.                                      *)
THEOREM NoEntryLeaks == ExchangeSpec => []NoPendingLeak
<1>1. ExchangeInv => NoPendingLeak
    BY DEF ExchangeInv
<1> QED BY <1>1, ExchangeInvariant, PTL

(* What a subscriber reads is a run of notices without a gap.               *)
THEOREM NoticesHaveNoGap == ExchangeSpec => []NoticesContiguous
<1>1. ExchangeInv => NoticesContiguous
    BY DEF ExchangeInv
<1> QED BY <1>1, ExchangeInvariant, PTL

(* What a caller of the exchange may rely on, all of it, whatever drops,    *)
(* cancels, closes or overflows: types, whole downloads below the limit,    *)
(* and a table of pending calls that holds nothing but awaited ones.        *)
THEOREM ExchangeIsSafe == ExchangeSpec => []ExchangeSafe
BY ExchangeTypeCorrect, DownloadsComplete, DownloadsBounded, NoEntryLeaks, PTL DEF ExchangeSafe
=============================================================================
