------------------------------ MODULE Exchange ------------------------------
(***************************************************************************)
(* One bounded exchange of crates/browser/src/exchange.rs, as `local' wires *)
(* it: a Client (cloned freely), a Server, and the two router tasks `bind'  *)
(* spawns.  Every browser handle and every tab handle is such an exchange.  *)
(*                                                                         *)
(*    Client --toSrv--> [server router] --srvIn--> Server                   *)
(*    Client <-pending-- [client router] <--toCli-- Server, handlers        *)
(*                                                                         *)
(* A direction is a `pair': a control lane, a data lane and a watch flag.   *)
(* Callers, both routers, the server and its handlers run on different      *)
(* threads; what one of them does between two lock acquisitions or awaits   *)
(* is one action.                                                           *)
(***************************************************************************)
EXTENDS Integers, Sequences, FiniteSets

CONSTANTS
    Callers,      \* tasks that call through a clone of the client
    MaxCalls,     \* bound on the request ids used
    LaneCap,          \* capacity of every lane
    ChunkLimit,   \* `limit' of call_download, in chunks
    MaxNotices,   \* bound on the notices the server sends
    MaxTells,     \* bound on the notices the client sends
    SubCap        \* capacity of a subscriber's channel

CallIds == 1..MaxCalls
Dirs == {"toSrv", "srvIn", "toCli"}
Queues == {"control", "data"}
EmptyLane == [q \in Queues |-> <<>>]

ASSUME ExchangeAssumption ==
    /\ {MaxCalls, LaneCap, SubCap} \subseteq Nat \ {0}
    /\ {ChunkLimit, MaxNotices, MaxTells} \subseteq Nat
    /\ IsFiniteSet(Callers)

VARIABLES
    lane,       \* direction -> queue -> frames in flight
    shut,       \* direction -> the watch flag `closed'
    gone,       \* direction -> the receiver has closed its lanes
    crouter,    \* the client's router task
    srouter,    \* the server's router task
    server,     \* the Server value exists
    client,     \* some Client clone exists
    work,       \* id -> its handler on the server side
    sent,       \* id -> chunks its handler has sent
    nextCall,       \* AtomicU64 next
    awaiting,    \* id -> entry of the pending map, or "none"
    got,        \* id -> bytes of a Download entry
    result,     \* id -> what its oneshot carries
    callerAt, currentCall,    \* each caller, and the id of its call
    noticed,    \* notices the server has sent
    sub,        \* one subscriber: on, queue, seen
    told, heard \* notices the client has sent, those the server received

callVars == <<nextCall, awaiting, got, result>>
svars == <<server, work, sent>>
nvars == <<noticed, sub, told, heard>>
rvars == <<crouter, srouter, client>>
exchangeVars == <<lane, shut, gone, crouter, srouter, server, client, work, sent,
          nextCall, awaiting, got, result, callerAt, currentCall, noticed, sub, told, heard>>

-----------------------------------------------------------------------------
(* Frames and lanes *)

(* Mutant: replies travel on the control lane. *)
QueueReplyFirst(f) == IF f.t \in {"cancel", "reply"} THEN "control" ELSE "data"

Queue(f) == IF f.t = "cancel" THEN "control" ELSE "data"

Frame(t, id) == [t |-> t, id |-> id, n |-> 0]
Numbered(t, id, n) == [t |-> t, id |-> id, n |-> n]

Permits == {c \in Callers : callerAt[c] \in {"permit", "inserted"}}

Used(d, q) ==
    Len(lane[d][q]) + (IF d = "toSrv" /\ q = "data" THEN Cardinality(Permits) ELSE 0)
Room(d, q) == Used(d, q) < LaneCap
IsClosed(d) == shut[d] \/ gone[d]

Push(d, f) == lane' = [lane EXCEPT ![d][Queue(f)] = Append(@, f)]

(* Mutant: a full lane drops the frame and says Ok. *)
TrySendDrops(d, f) ==
    /\ IF ~ IsClosed(d) /\ Room(d, Queue(f)) THEN Push(d, f) ELSE lane' = lane
    /\ shut' = shut

(* try_send: a full lane disconnects. *)
TrySend(d, f) ==
    IF IsClosed(d) THEN UNCHANGED <<lane, shut>>
    ELSE IF Room(d, Queue(f)) THEN Push(d, f) /\ shut' = shut
    ELSE lane' = lane /\ shut' = [shut EXCEPT ![d] = TRUE]

TrySendOk(d, f) == ~ IsClosed(d) /\ Room(d, Queue(f))

(* Receiver::recv with a frame waiting: control first. *)
NextQueue(d) == IF lane[d]["control"] # <<>> THEN "control" ELSE "data"
Waiting(d) == lane[d]["control"] # <<>> \/ lane[d]["data"] # <<>>
FirstFrame(d) == Head(lane[d][NextQueue(d)])
Popped(d) == [lane EXCEPT ![d][NextQueue(d)] = Tail(@)]

-----------------------------------------------------------------------------
(* Settling calls *)

Settle(id, r) ==
    /\ awaiting' = [awaiting EXCEPT ![id] = "none"]
    /\ result' = [result EXCEPT ![id] = r]

(* Mutant: the drain forgets downloads. *)
FailPendingUnary ==
    /\ awaiting' = [id \in CallIds |-> IF awaiting[id] = "unary" THEN "none" ELSE awaiting[id]]
    /\ result' = [id \in CallIds |-> IF awaiting[id] = "unary" THEN "closed" ELSE result[id]]

FailPending ==
    /\ awaiting' = [id \in CallIds |-> "none"]
    /\ result' = [id \in CallIds |-> IF awaiting[id] # "none" THEN "closed" ELSE result[id]]

-----------------------------------------------------------------------------
(* Client::start_call *)

(* reserve, up to its wait: the watch flag is read once.  When it is up the *)
(* call has failed with Closed and nothing has changed.                     *)
CallStart(c) ==
    /\ callerAt[c] = "idle" /\ client /\ ~ shut["toSrv"]
    /\ nextCall + Cardinality({b \in Callers : callerAt[b] \in {"reserve", "permit"}}) <= MaxCalls
    /\ callerAt' = [callerAt EXCEPT ![c] = "reserve"]
    /\ UNCHANGED <<lane, shut, gone, rvars, svars, callVars, currentCall, nvars>>

(* ... the select: a permit, or Closed.  The permit wins when both are there. *)
ReserveSlot(c) ==
    /\ callerAt[c] = "reserve"
    /\ \/ ~ gone["toSrv"] /\ Room("toSrv", "data") /\ callerAt' = [callerAt EXCEPT ![c] = "permit"]
       \/ gone["toSrv"] /\ callerAt' = [callerAt EXCEPT ![c] = "idle"]
       \/ /\ shut["toSrv"] /\ ~ gone["toSrv"] /\ ~ Room("toSrv", "data")
          /\ callerAt' = [callerAt EXCEPT ![c] = "idle"]
    /\ UNCHANGED <<lane, shut, gone, rvars, svars, callVars, currentCall, nvars>>

(* The caller gives up while it waits for a permit: nothing to undo. *)
DropReserve(c) ==
    /\ callerAt[c] = "reserve"
    /\ callerAt' = [callerAt EXCEPT ![c] = "idle"]
    /\ UNCHANGED <<lane, shut, gone, rvars, svars, callVars, currentCall, nvars>>

(* The id and the pending entry ... *)
InsertPending(c, kind) ==
    /\ callerAt[c] = "permit"
    /\ nextCall' = nextCall + 1
    /\ awaiting' = [awaiting EXCEPT ![nextCall] = kind]
    /\ currentCall' = [currentCall EXCEPT ![c] = nextCall]
    /\ callerAt' = [callerAt EXCEPT ![c] = "inserted"]
    /\ UNCHANGED <<lane, shut, gone, rvars, svars, got, result, nvars>>

(* ... then permit.send, which cannot fail: after the receiver has closed   *)
(* the frame goes nowhere.  call and call_download await, begin_upload      *)
(* returns.                                                                 *)
PermitSend(c, after) ==
    /\ callerAt[c] = "inserted"
    /\ after = "upload" => awaiting[currentCall[c]] # "download"
    /\ IF gone["toSrv"] THEN lane' = lane ELSE Push("toSrv", Frame("call", currentCall[c]))
    /\ callerAt' = [callerAt EXCEPT ![c] = after]
    /\ UNCHANGED <<shut, gone, rvars, svars, callVars, currentCall, nvars>>

Finish(c) == callerAt' = [callerAt EXCEPT ![c] = "idle"] /\ currentCall' = [currentCall EXCEPT ![c] = 0]

(* Upload::write and Upload::end, an awaiting send each. *)
UploadWrite(c) ==
    /\ callerAt[c] = "upload"
    /\ ~ IsClosed("toSrv") /\ Room("toSrv", "data")
    /\ Push("toSrv", Frame("reqchunk", currentCall[c]))
    /\ UNCHANGED <<shut, gone, rvars, svars, callVars, callerAt, currentCall, nvars>>

UploadEnd(c) ==
    /\ callerAt[c] = "upload"
    /\ \/ /\ ~ IsClosed("toSrv") /\ Room("toSrv", "data")
          /\ Push("toSrv", Frame("reqend", currentCall[c]))
          /\ callerAt' = [callerAt EXCEPT ![c] = "await"]
          /\ UNCHANGED <<awaiting, currentCall>>
       \/ /\ IsClosed("toSrv")
          /\ awaiting' = [awaiting EXCEPT ![currentCall[c]] = "none"]
          /\ Finish(c)
          /\ lane' = lane
    /\ UNCHANGED <<shut, gone, rvars, svars, nextCall, got, result, nvars>>

(* The oneshot has a value (or its sender is gone): the call returns. *)
Return(c) ==
    /\ callerAt[c] = "await"
    /\ result[currentCall[c]] # "none"
    /\ Finish(c)
    /\ UNCHANGED <<lane, shut, gone, rvars, svars, callVars, nvars>>

(* The caller drops the future (or the Upload): CancelOnDrop removes the    *)
(* entry ...                                                                *)
DropCall(c) ==
    /\ callerAt[c] \in {"await", "upload"}
    /\ awaiting' = [awaiting EXCEPT ![currentCall[c]] = "none"]
    /\ callerAt' = [callerAt EXCEPT ![c] = "cancel"]
    /\ UNCHANGED <<lane, shut, gone, rvars, svars, nextCall, got, result, currentCall, nvars>>

(* ... and tries to send Cancel. *)
SendCancel(c) ==
    /\ callerAt[c] = "cancel"
    /\ TrySend("toSrv", Frame("cancel", currentCall[c]))
    /\ Finish(c)
    /\ UNCHANGED <<gone, rvars, svars, callVars, nvars>>

(* The last Client clone goes. *)
DropClient ==
    /\ client /\ \A c \in Callers : callerAt[c] = "idle"
    /\ client' = FALSE
    /\ UNCHANGED <<lane, shut, gone, crouter, srouter, svars, callVars, callerAt, currentCall, nvars>>

(* try_notify, notify (awaits room) and try_notify_lossy.  told.ok records  *)
(* the notices the peer is owed: all that were neither refused with an      *)
(* error nor given up by the lossy form.                                    *)
Tell(how) ==
    /\ client /\ told.tries < MaxTells
    /\ LET f == Numbered("tell", 0, told.tries + 1)
           full == ~ IsClosed("toSrv") /\ ~ Room("toSrv", "data") IN
       /\ how = "wait" => ~ full
       /\ IF how = "lossy" /\ full THEN UNCHANGED <<lane, shut>> ELSE TrySend("toSrv", f)
       /\ told' = [tries |-> f.n,
                   ok |-> IF shut'["toSrv"] \/ gone["toSrv"] \/ (how = "lossy" /\ full)
                            THEN told.ok ELSE Append(told.ok, f.n)]
    /\ UNCHANGED <<gone, rvars, svars, callVars, callerAt, currentCall, noticed, sub, heard>>

-----------------------------------------------------------------------------
(* The server's router: bind's loop over toSrv *)

ServerRoute ==
    /\ srouter = "run" /\ ~ shut["toSrv"] /\ Waiting("toSrv")
    /\ LET f == FirstFrame("toSrv")
           rest == Popped("toSrv") IN
       IF TrySendOk("srvIn", f)
         THEN /\ lane' = [rest EXCEPT !["srvIn"][Queue(f)] = Append(@, f)]
              /\ UNCHANGED <<shut, srouter>>
         ELSE /\ lane' = rest
              /\ shut' = IF IsClosed("srvIn") THEN shut
                         ELSE [shut EXCEPT !["srvIn"] = TRUE]
              \* A notice for a server that was already gone is not an error.
              /\ srouter' = IF f.t = "tell" /\ IsClosed("srvIn") THEN "run" ELSE "close"
    /\ UNCHANGED <<gone, crouter, client, svars, callVars, callerAt, currentCall, nvars>>

(* recv returns None: the flag is up, or every sender is gone. *)
ServerRouterEnd ==
    /\ srouter = "run"
    /\ \/ shut["toSrv"] /\ gone' = [gone EXCEPT !["toSrv"] = TRUE]
       \/ ~ shut["toSrv"] /\ ~ client /\ ~ Waiting("toSrv") /\ gone' = gone
    /\ srouter' = "close"
    /\ UNCHANGED <<lane, shut, crouter, client, svars, callVars, callerAt, currentCall, nvars>>

(* router.close: no calls are pending on this side; the server is told ... *)
ServerRouterClose ==
    /\ srouter = "close"
    /\ shut' = [shut EXCEPT !["srvIn"] = TRUE]
    /\ srouter' = "signal"
    /\ UNCHANGED <<lane, gone, crouter, client, svars, callVars, callerAt, currentCall, nvars>>

(* ... then the opposite direction is closed, and the receiver dropped. *)
ServerRouterSignal ==
    /\ srouter = "signal"
    /\ shut' = [shut EXCEPT !["toCli"] = TRUE]
    /\ gone' = [gone EXCEPT !["toSrv"] = TRUE]
    /\ lane' = [lane EXCEPT !["toSrv"] = EmptyLane]
    /\ srouter' = "done"
    /\ UNCHANGED <<crouter, client, svars, callVars, callerAt, currentCall, nvars>>

-----------------------------------------------------------------------------
(* The server and the handlers it spawns *)

ServerRecv ==
    /\ server /\ ~ shut["srvIn"] /\ Waiting("srvIn")
    /\ LET f == FirstFrame("srvIn") IN
       /\ work' = CASE f.t = "call" -> [work EXCEPT ![f.id] = "busy"]
                    [] f.t = "cancel" /\ work[f.id] = "busy" -> [work EXCEPT ![f.id] = "done"]
                    [] OTHER -> work
       /\ heard' = IF f.t = "tell" THEN Append(heard, f.n) ELSE heard
    /\ lane' = Popped("srvIn")
    /\ UNCHANGED <<shut, gone, rvars, server, sent, callVars, callerAt, currentCall, noticed, sub, told>>

(* The server task ends: by its own decision, or because recv said None. *)
ServerStop ==
    /\ server
    /\ server' = FALSE
    /\ gone' = [gone EXCEPT !["srvIn"] = TRUE]
    /\ lane' = [lane EXCEPT !["srvIn"] = EmptyLane]
    /\ UNCHANGED <<shut, rvars, work, sent, callVars, callerAt, currentCall, nvars>>

(* A handler awaits room for a chunk, or for its reply; a closed direction  *)
(* ends it.  A peer may send chunks nobody asked for, or too many.          *)
SendChunk(id) ==
    /\ work[id] = "busy"
    /\ sent[id] <= ChunkLimit
    /\ ~ IsClosed("toCli") /\ Room("toCli", "data")
    /\ Push("toCli", Numbered("chunk", id, sent[id] + 1))
    /\ sent' = [sent EXCEPT ![id] = @ + 1]
    /\ UNCHANGED <<shut, gone, rvars, server, work, callVars, callerAt, currentCall, nvars>>

Reply(id) ==
    /\ work[id] = "busy"
    /\ \/ ~ IsClosed("toCli") /\ Room("toCli", Queue(Frame("reply", id)))
          /\ Push("toCli", Numbered("reply", id, sent[id]))
       \/ IsClosed("toCli") /\ lane' = lane
    /\ work' = [work EXCEPT ![id] = "done"]
    /\ UNCHANGED <<shut, gone, rvars, server, sent, callVars, callerAt, currentCall, nvars>>

Notice ==
    /\ server /\ noticed < MaxNotices
    /\ ~ IsClosed("toCli") /\ Room("toCli", "data")
    /\ Push("toCli", Numbered("notice", 0, noticed + 1))
    /\ noticed' = noticed + 1
    /\ UNCHANGED <<shut, gone, rvars, svars, callVars, callerAt, currentCall, sub, told, heard>>

-----------------------------------------------------------------------------
(* The client's router: bind's loop over toCli *)

(* route_reply *)
RouteReply(f) ==
    /\ IF awaiting[f.id] # "none" THEN Settle(f.id, "ok") ELSE UNCHANGED <<awaiting, result>>
    /\ UNCHANGED <<got, sub, crouter>>

(* route_chunk: bytes for a unary call, or past the limit, end the exchange. *)
RouteChunk(f) ==
    /\ \/ /\ awaiting[f.id] = "download" /\ Len(got[f.id]) < ChunkLimit
          /\ got' = [got EXCEPT ![f.id] = Append(@, f.n)]
          /\ crouter' = "run"
       \/ /\ \/ awaiting[f.id] = "unary"
             \/ awaiting[f.id] = "download" /\ Len(got[f.id]) = ChunkLimit
          /\ got' = got /\ crouter' = "close"
       \/ awaiting[f.id] = "none" /\ got' = got /\ crouter' = "run"
    /\ UNCHANGED <<awaiting, result, sub>>

(* Mutant: a full subscriber only misses the notice. *)
RouteNoticeLossy(f) ==
    /\ sub' = IF sub.on /\ Len(sub.queue) < SubCap
                THEN [sub EXCEPT !.queue = Append(@, f.n)] ELSE sub
    /\ UNCHANGED <<awaiting, result, got, crouter>>

(* route_notice: a subscriber that cannot take it is removed.  The client's *)
(* own Server was dropped by `local', so the forward to it is not an error. *)
RouteNotice(f) ==
    /\ sub' = IF ~ sub.on THEN sub
              ELSE IF Len(sub.queue) < SubCap THEN [sub EXCEPT !.queue = Append(@, f.n)]
              ELSE [sub EXCEPT !.on = FALSE]
    /\ UNCHANGED <<awaiting, result, got, crouter>>

ClientRoute ==
    /\ crouter = "run" /\ ~ shut["toCli"] /\ Waiting("toCli")
    /\ lane' = Popped("toCli")
    /\ LET f == FirstFrame("toCli") IN
       \/ f.t = "reply" /\ RouteReply(f)
       \/ f.t = "chunk" /\ RouteChunk(f)
       \/ f.t = "notice" /\ RouteNotice(f)
    /\ UNCHANGED <<shut, gone, srouter, client, svars, nextCall, callerAt, currentCall, noticed, told, heard>>

ClientRouterEnd ==
    /\ crouter = "run"
    /\ \/ shut["toCli"] /\ gone' = [gone EXCEPT !["toCli"] = TRUE]
       \/ /\ ~ shut["toCli"] /\ ~ server /\ \A id \in CallIds : work[id] # "busy"
          /\ ~ Waiting("toCli") /\ gone' = gone
    /\ crouter' = "close"
    /\ UNCHANGED <<lane, shut, srouter, client, svars, callVars, callerAt, currentCall, nvars>>

(* router.close: every pending call fails ... *)
ClientRouterClose ==
    /\ crouter = "close"
    /\ FailPending
    /\ crouter' = "signal"
    /\ UNCHANGED <<lane, shut, gone, srouter, client, svars, nextCall, got, callerAt, currentCall, nvars>>

(* ... and only then is the calling direction closed. *)
ClientRouterSignal ==
    /\ crouter = "signal"
    /\ shut' = [shut EXCEPT !["toSrv"] = TRUE]
    /\ gone' = [gone EXCEPT !["toCli"] = TRUE]
    /\ lane' = [lane EXCEPT !["toCli"] = EmptyLane]
    /\ crouter' = "done"
    /\ UNCHANGED <<srouter, client, svars, callVars, callerAt, currentCall, nvars>>

-----------------------------------------------------------------------------
(* The subscriber *)

Subscribe ==
    /\ client /\ ~ sub.on /\ sub.queue = <<>> /\ sub.seen = <<>>
    /\ ~ IsClosed("toSrv")
    /\ sub' = [sub EXCEPT !.on = TRUE]
    /\ UNCHANGED <<lane, shut, gone, rvars, svars, callVars, callerAt, currentCall, noticed, told, heard>>

TakeNotice ==
    /\ sub.queue # <<>>
    /\ sub' = [sub EXCEPT !.queue = Tail(@), !.seen = Append(@, Head(sub.queue))]
    /\ UNCHANGED <<lane, shut, gone, rvars, svars, callVars, callerAt, currentCall, noticed, told, heard>>

-----------------------------------------------------------------------------
ExchangeInit ==
    /\ lane = [d \in Dirs |-> EmptyLane]
    /\ shut = [d \in Dirs |-> FALSE] /\ gone = [d \in Dirs |-> FALSE]
    /\ crouter = "run" /\ srouter = "run" /\ server = TRUE /\ client = TRUE
    /\ work = [id \in CallIds |-> "none"] /\ sent = [id \in CallIds |-> 0]
    /\ nextCall = 1 /\ awaiting = [id \in CallIds |-> "none"]
    /\ got = [id \in CallIds |-> <<>>] /\ result = [id \in CallIds |-> "none"]
    /\ callerAt = [c \in Callers |-> "idle"] /\ currentCall = [c \in Callers |-> 0]
    /\ noticed = 0 /\ sub = [on |-> FALSE, queue |-> <<>>, seen |-> <<>>]
    /\ told = [tries |-> 0, ok |-> <<>>] /\ heard = <<>>

CallerStep(c) ==
    \/ ReserveSlot(c)
    \/ \E kind \in {"unary", "download"} : InsertPending(c, kind)
    \/ \E after \in {"await", "upload"} : PermitSend(c, after)
    \/ UploadEnd(c)
    \/ Return(c)
    \/ SendCancel(c)

ServerRouter ==
    \/ ServerRoute
    \/ ServerRouterEnd
    \/ ServerRouterClose
    \/ ServerRouterSignal

ClientRouter ==
    \/ ClientRoute
    \/ ClientRouterEnd
    \/ ClientRouterClose
    \/ ClientRouterSignal

ExchangeNext ==
    \/ \E c \in Callers :
          \/ CallStart(c)
          \/ CallerStep(c)
          \/ UploadWrite(c)
          \/ DropReserve(c)
          \/ DropCall(c)
    \/ DropClient
    \/ \E how \in {"try", "wait", "lossy"} : Tell(how)
    \/ ServerRouter
    \/ ServerRecv
    \/ ServerStop
    \/ \E id \in CallIds : SendChunk(id) \/ Reply(id)
    \/ Notice
    \/ ClientRouter
    \/ Subscribe
    \/ TakeNotice

ExchangeSpec == ExchangeInit /\ [][ExchangeNext]_exchangeVars

(* Every task that can run is run, and the server answers what it accepts.  *)
(* Callers, the client's owner, notices and the decision to stop owe        *)
(* nothing.                                                                 *)
ExchangeFairness ==
    /\ WF_exchangeVars(ServerRouter)
    /\ WF_exchangeVars(ClientRouter)
    /\ WF_exchangeVars(ServerRecv)
    /\ \A id \in CallIds : WF_exchangeVars(Reply(id))
    /\ \A c \in Callers : WF_exchangeVars(Return(c))

ExchangeFairSpec == ExchangeSpec /\ ExchangeFairness

-----------------------------------------------------------------------------
Tells(d) == LET s == SelectSeq(lane[d]["data"], LAMBDA f : f.t = "tell")
            IN [i \in DOMAIN s |-> s[i].n]
Prefix(s, t) == Len(s) <= Len(t) /\ s = SubSeq(t, 1, Len(s))

LanesBounded ==
    \A d \in Dirs : \A q \in Queues :
        Len(lane[d][q]) + (IF d = "toSrv" /\ q = "data" THEN Cardinality(Permits) ELSE 0) <= LaneCap

TablesTyped ==
    /\ shut \in [Dirs -> BOOLEAN] /\ gone \in [Dirs -> BOOLEAN]
    /\ {crouter, srouter} \subseteq {"run", "close", "signal", "done"}
    /\ server \in BOOLEAN /\ client \in BOOLEAN
    /\ work \in [CallIds -> {"none", "busy", "done"}]
    /\ sent \in [CallIds -> 0..(ChunkLimit + 1)]
    /\ nextCall \in 1..(MaxCalls + 1)
    /\ awaiting \in [CallIds -> {"none", "unary", "download"}]
    /\ result \in [CallIds -> {"none", "ok", "closed"}]
    /\ callerAt \in [Callers -> {"idle", "reserve", "permit", "inserted", "await", "upload",
                           "cancel"}]
    /\ currentCall \in [Callers -> 0..MaxCalls]

(* Types, and the bound every lane keeps: frames and reserved slots never   *)
(* exceed its capacity, nor a subscriber's queue its own.                   *)
ExchangeTypeOK ==
    /\ LanesBounded
    /\ TablesTyped
    /\ Len(sub.queue) <= SubCap

(* "A reply cannot overtake its own chunks": a call that returns has exactly *)
(* the bytes its handler sent before the reply, in order, also when other   *)
(* calls, cancellations and notices share the lanes.                        *)
DownloadComplete ==
    \A id \in CallIds : result[id] = "ok" => got[id] = [i \in 1..sent[id] |-> i]

(* A download never buffers more than its limit, whatever the peer sends.   *)
DownloadBounded == \A id \in CallIds : Len(got[id]) <= ChunkLimit

(* Every pending entry belongs to a caller that is still there to take the  *)
(* answer: neither a return nor a dropped future leaves one behind.         *)
NoPendingLeak ==
    \A id \in CallIds : awaiting[id] # "none" =>
        \E c \in Callers : currentCall[c] = id /\ callerAt[c] \in {"inserted", "await", "upload"}

\* What a caller of the exchange may rely on: lanes, downloads and the table of
\* pending calls stay bounded, and an answer comes with its whole download.
ExchangeSafe ==
    ExchangeTypeOK /\ DownloadComplete /\ DownloadBounded /\ NoPendingLeak

(* "try_send never drops a message while the peer stays connected": the     *)
(* server hears a prefix of the notices it is owed, in order, and nothing   *)
(* is missing between the two lanes while nobody has disconnected.          *)
NoSilentLoss ==
    /\ Prefix(heard, told.ok)
    /\ (server /\ srouter = "run" /\ ~ IsClosed("toSrv") /\ ~ IsClosed("srvIn")) =>
          heard \o Tells("srvIn") \o Tells("toSrv") = told.ok

(* A subscriber sees a run of notices without a gap: one that lags is       *)
(* disconnected, never skipped.                                             *)
NoticesContiguous ==
    LET s == sub.seen \o sub.queue IN
    \A i \in 1..(Len(s) - 1) : s[i + 1] = s[i] + 1

(* A call that waits while its router runs gets an answer or an error       *)
(* (unless its caller gives up), even if the server stops, the peer breaks  *)
(* the protocol or a lane overflows.                                        *)
AwaitedCallSettles ==
    \A c \in Callers : (callerAt[c] = "await" /\ crouter = "run") ~> callerAt[c] # "await"
=============================================================================
