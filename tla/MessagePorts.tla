---------------------------- MODULE MessagePorts ----------------------------
(* MessagePort endpoints and window messages between the frames of one page *)
(* engine (renderer/src/messaging.rs, js/bindings/messaging.rs,             *)
(* js/scripts/web/messaging.js, Engine::apply_deliveries). Each frame is a  *)
(* realm of its own: what it holds is a handle on an endpoint of the shared *)
(* table. A send is a delivery, a delivery becomes a task of a frame when   *)
(* the engine reconciles after the running script, and the endpoint may     *)
(* have moved to another frame at every one of those points.                *)
EXTENDS Naturals, Sequences, FiniteSets, SequencesExt, TLC

CONSTANTS
    ChildFrames,   \* the frames besides the main frame
    Openers,       \* the frames whose scripts create channels
    MaxEndpoints,  \* bound of PortTable.next
    MaxPosts,      \* bound on messages posted
    MaxDocuments   \* bound of next_document

MainFrame == "main"
AllFrames == ChildFrames \cup {MainFrame}
NoFrame == "no frame"
NoPeer == 0
Endpoints == 1..MaxEndpoints
ASSUME PortsAssumption ==
    /\ {MainFrame, NoFrame} \cap ChildFrames = {} /\ IsFiniteSet(ChildFrames)
    /\ MaxPosts \in Nat /\ MaxEndpoints \in Nat /\ MaxDocuments \in Nat \ {0}

VARIABLES
    rows,        \* PortTable.ports: endpoint -> its row and its history, or GoneRow
    nextPort,    \* PortTable.next
    deliveries,  \* Shared.deliveries
    frameTasks,  \* Document.tasks of every frame: its messages and closes
    hosted,      \* Engine.frames
    listed,      \* FrameTree: the frames that still have a browsing context
    documentIds, \* Shared.document_ids, 0 for none
    nextDocument,\* Shared.next_document
    handles,     \* __tbPorts of every realm: the port objects that are not closed
    script,      \* the frame whose script runs, and the closes it owes afterwards
    turn,        \* "script", "commit" or "reconcile"
    posts        \* messages posted so far; their numbers are their order

portVars == <<rows, nextPort, deliveries, frameTasks, hosted, listed, documentIds, nextDocument, handles, script, turn, posts>>

GoneRow == [gone |-> TRUE]
\* The history of a row: the messages posted to the endpoint, those its port
\* object dispatched, its `close` events, whether it was transferred, and
\* whether a task or a close of it was dropped in a frame it had left.
NoHistory == [sent |-> {}, heard |-> <<>>, closes |-> 0, moved |-> FALSE, astray |-> FALSE]
Known(e) == rows[e] # GoneRow
Idle == [frame |-> NoFrame, closes |-> {}]
WindowTo(f, d, m) == [kind |-> "window", frame |-> f, doc |-> d, msg |-> m]
PortTo(e, m) == [kind |-> "message", endpoint |-> e, msg |-> m]
CloseOf(e) == [kind |-> "close", endpoint |-> e]

----------------------------------------------------------------------------
(* The table. A state of it is [rows, out]: the rows and the deliveries.    *)

Table == [rows |-> rows, out |-> deliveries]
PortsOf(T, f) == {e \in Endpoints : T.rows[e] # GoneRow /\ T.rows[e].owner = f}

\* Disentangling: the peer hears `close`, now or when it is materialized.
PeerTold(T, e) ==
    LET p == T.rows[e].peer IN
    IF p = NoPeer \/ T.rows[p] = GoneRow THEN T
    ELSE LET free == [T.rows[p] EXCEPT !.peer = NoPeer] IN
         IF free.detached THEN [T EXCEPT !.rows[p] = [free EXCEPT !.closePending = TRUE]]
         ELSE [rows |-> [T.rows EXCEPT ![p] = free], out |-> Append(T.out, CloseOf(p))]
\* close and forget; the queue goes with the row.
CloseRow(T, e) == IF T.rows[e] = GoneRow THEN T ELSE [PeerTold(T, e) EXCEPT !.rows[e] = GoneRow]
Forget(T, e) == CloseRow(T, e)

CloseRows(T, S) == FoldSet(LAMBDA e, t : CloseRow(t, e), T, S)
ForgetRows(T, S) == FoldSet(LAMBDA e, t : Forget(t, e), T, S)

\* Everything that waits in a queue of the endpoint becomes a delivery.
FlushRow(T, e) ==
    LET r == T.rows[e] IN
    IF r.enabled /\ ~r.detached
    THEN [rows |-> [T.rows EXCEPT ![e].queue = <<>>], out |-> T.out \o [i \in DOMAIN r.queue |-> PortTo(e, r.queue[i])]]
    ELSE T
\* PortTable::requeue puts the message in front; post puts it last.
PostLast(q, m) == Append(q, m)
RequeueDropped(T, e, m) == T
Requeue(T, e, m) == IF T.rows[e] = GoneRow THEN T ELSE FlushRow([T EXCEPT !.rows[e].queue = <<m>> \o @], e)
PostTo(T, e, m) ==
    IF T.rows[e].peer = NoPeer THEN T
    ELSE FlushRow([T EXCEPT !.rows[T.rows[e].peer].queue = PostLast(@, m), !.rows[T.rows[e].peer].sent = @ \cup {m.n}], T.rows[e].peer)
RequeueClose(T, e) ==
    IF T.rows[e] = GoneRow THEN T
    ELSE IF T.rows[e].detached THEN [T EXCEPT !.rows[e].closePending = TRUE]
    ELSE [T EXCEPT !.out = Append(@, CloseOf(e))]

\* detach for a transfer: the queue stays, the enabled flag does not.
EnabledInTransit(enabled) == FALSE
DetachRows(T, S, f) ==
    [T EXCEPT !.rows = [e \in Endpoints |->
        IF e \in S THEN [@[e] EXCEPT !.owner = NoFrame, !.detached = TRUE, !.recipient = f, !.enabled = EnabledInTransit(@), !.moved = TRUE] ELSE @[e]]]
\* route_endpoints: aims the endpoints a message carries at its target.
RouteRows(T, S, f) ==
    [T EXCEPT !.rows = [e \in Endpoints |-> IF e \in S /\ @[e] # GoneRow /\ @[e].detached THEN [@[e] EXCEPT !.recipient = f] ELSE @[e]]]
AdoptRows(T, S, f) ==
    [T EXCEPT !.rows = [e \in Endpoints |-> IF e \in S THEN [@[e] EXCEPT !.owner = f, !.detached = FALSE, !.recipient = NoFrame, !.closePending = FALSE] ELSE @[e]]]

Heard(e, n) == [Table EXCEPT !.rows[e].heard = Append(@, n)]
Astray(T, S) == [T EXCEPT !.rows = [e \in Endpoints |-> IF e \in S /\ @[e] # GoneRow THEN [@[e] EXCEPT !.astray = TRUE] ELSE @[e]]]
Install(T) == rows' = T.rows /\ deliveries' = T.out

----------------------------------------------------------------------------
(* Page script, in the frame that runs. *)

Running(f) == turn = "script" /\ script.frame = f
\* The endpoints a script may put in a transfer list: at most one at a time.
TransferLists(f) == {{}} \cup {{e} : e \in handles[f]}
KeptByScript == UNCHANGED <<frameTasks, hosted, listed, documentIds, nextDocument, script, turn>>

\* new MessageChannel(): port_new, new_pair.
NewChannel(f) ==
    /\ Running(f) /\ f \in Openers /\ nextPort < MaxEndpoints
    /\ LET a == nextPort
           b == nextPort + 1
           fresh(p) == [peer |-> p, owner |-> f, enabled |-> FALSE, detached |-> FALSE, recipient |-> f, closePending |-> FALSE, queue |-> <<>>] @@ NoHistory
       IN /\ rows' = [rows EXCEPT ![a] = fresh(b), ![b] = fresh(a)]
          /\ handles' = [handles EXCEPT ![f] = @ \cup {a, b}]
    /\ nextPort' = nextPort + 2
    /\ UNCHANGED <<deliveries, posts>> /\ KeptByScript

\* __tbEncode detaches what is transferred before anything is posted, so the
\* transfer list is consumed even when the message then goes nowhere.
Encoded(f, S) == DetachRows(Table, S, f)
Transferred(f, S) ==
    /\ handles' = [handles EXCEPT ![f] = @ \ S]
    /\ \A e \in S : Known(e) /\ rows[e].owner = f

\* MessagePort.postMessage: a port sent to its own peer loses the channel.
PostMessage(f, e, S) ==
    /\ Running(f) /\ e \in handles[f] /\ e \notin S
    /\ Known(e) /\ rows[e].owner = f
    /\ posts < MaxPosts /\ posts' = posts + 1 /\ Transferred(f, S)
    /\ LET to == rows[e].peer IN
       Install(IF to \in S THEN Encoded(f, S) ELSE PostTo(Encoded(f, S), e, [n |-> posts + 1, ports |-> S]))
    /\ UNCHANGED <<nextPort>> /\ KeptByScript

\* window.postMessage: bound to the document the target has now.
PostWindowMessage(f, t, S) ==
    /\ Running(f)
    /\ posts < MaxPosts /\ posts' = posts + 1 /\ Transferred(f, S)
    /\ LET T == Encoded(f, S) IN
       Install(IF documentIds[t] = 0 THEN ForgetRows(T, S)
               ELSE [T EXCEPT !.out = Append(@, WindowTo(t, documentIds[t], [n |-> posts + 1, ports |-> S]))])
    /\ UNCHANGED <<nextPort>> /\ KeptByScript

\* start(), also by setting onmessage.
StartPort(f, e) ==
    /\ Running(f) /\ e \in handles[f] /\ Known(e) /\ rows[e].owner = f /\ ~rows[e].enabled
    /\ Install(FlushRow([Table EXCEPT !.rows[e].enabled = TRUE], e))
    /\ UNCHANGED <<nextPort, handles, posts>> /\ KeptByScript
ClosePort(f, e) ==
    /\ Running(f) /\ e \in handles[f]
    /\ handles' = [handles EXCEPT ![f] = @ \ {e}]
    /\ Install(IF Known(e) /\ rows[e].owner = f THEN CloseRow(Table, e) ELSE Table)
    /\ UNCHANGED <<nextPort, posts>> /\ KeptByScript

\* Removing the iframe of a child: remove_child_navigable.
RemoveChildNavigable(f, c) ==
    /\ Running(f) /\ c \in listed \cap ChildFrames
    /\ listed' = listed \ {c} /\ documentIds' = [documentIds EXCEPT ![c] = 0]
    /\ Install(CloseRows(Table, PortsOf(Table, c)))
    /\ UNCHANGED <<frameTasks, hosted, nextDocument, script, turn, nextPort, handles, posts>>

\* __tbFirePortCloses, after the handler of the message that brought the ports.
EndScript ==
    LET closing == IF script.frame \in hosted THEN script.closes \cap handles[script.frame] ELSE {} IN
    /\ turn = "script" /\ turn' = "commit" /\ script' = Idle
    /\ handles' = [handles EXCEPT ![script.frame] = @ \ closing]
    /\ Install(CloseRows(Astray(Table, script.closes \ handles[script.frame]), {e \in closing : Known(e) /\ rows[e].owner = script.frame}))
    /\ UNCHANGED <<frameTasks, hosted, listed, documentIds, nextDocument, nextPort, posts>>

----------------------------------------------------------------------------
(* The engine. *)

TaskPorts(q) == UNION {IF x.kind = "close" THEN {} ELSE x.msg.ports : x \in Range(q)}
\* Tasks of endpoints that have left the frame and are dropped with its queue.
Strays(q, f) == {e \in Endpoints : Known(e) /\ rows[e].owner # f /\ \E x \in Range(q) : x.kind # "window" /\ x.endpoint = e}

\* reconcile_frames: the documents of removed frames are dropped, and a
\* dropped document closes its ports. Its queued tasks just go.
DropFrame(f) ==
    /\ turn = "reconcile" /\ f \in hosted \ listed
    /\ hosted' = hosted \ {f} /\ handles' = [handles EXCEPT ![f] = {}]
    /\ frameTasks' = [frameTasks EXCEPT ![f] = <<>>]
    /\ Install(CloseRows(Astray(Table, Strays(frameTasks[f], f)), PortsOf(Table, f)))
    /\ UNCHANGED <<nextPort, listed, documentIds, nextDocument, script, turn, posts>>

\* apply_deliveries, one delivery. An owner that is not hosted has no ports
\* (DropFrame), so what is left is an endpoint in transit or gone.
Rest == [Table EXCEPT !.out = Tail(@)]
OwnerHosted(e) == Known(e) /\ rows[e].owner \in hosted
Push(f, x) == frameTasks' = [frameTasks EXCEPT ![f] = Append(@, x)]
SameDocument(x) == x.frame \in hosted /\ documentIds[x.frame] = x.doc
RouteDelivery ==
    LET x == Head(deliveries) IN
    /\ turn = "reconcile" /\ hosted \subseteq listed /\ deliveries # <<>>
    /\ CASE x.kind = "window" /\ SameDocument(x) -> Install(RouteRows(Rest, x.msg.ports, x.frame)) /\ Push(x.frame, x)
         [] x.kind = "window" /\ ~SameDocument(x) -> Install(ForgetRows(Rest, x.msg.ports)) /\ UNCHANGED frameTasks
         [] x.kind = "message" /\ OwnerHosted(x.endpoint) ->
                Install(RouteRows(Rest, x.msg.ports, rows[x.endpoint].owner)) /\ Push(rows[x.endpoint].owner, x)
         [] x.kind = "close" /\ OwnerHosted(x.endpoint) -> Install(Rest) /\ Push(rows[x.endpoint].owner, x)
         [] x.kind = "message" /\ ~OwnerHosted(x.endpoint) -> Install(Requeue(Rest, x.endpoint, x.msg)) /\ UNCHANGED frameTasks
         [] x.kind = "close" /\ ~OwnerHosted(x.endpoint) -> Install(RequeueClose(Rest, x.endpoint)) /\ UNCHANGED frameTasks
    /\ UNCHANGED <<nextPort, hosted, listed, documentIds, nextDocument, handles, script, turn, posts>>

\* reconcile_frames found nothing more: the next script or task may run.
Settled == turn = "reconcile" /\ hosted \subseteq listed /\ deliveries = <<>>

\* A script from elsewhere: a timer, a parser script, the host.
EnterScript(f) ==
    /\ Settled /\ f \in hosted /\ turn' = "script" /\ script' = [frame |-> f, closes |-> {}]
    /\ UNCHANGED <<rows, nextPort, deliveries, frameTasks, hosted, listed, documentIds, nextDocument, handles, posts>>

EndpointMoved(e, f) == ~Known(e) \/ rows[e].owner # f
\* run_task: deliver_window_message, deliver_port_message, deliver_port_close.
RunTask(f) ==
    LET x == Head(frameTasks[f])
        dispatched(T, S) ==
            /\ Install(AdoptRows(T, S, f)) /\ handles' = [handles EXCEPT ![f] = @ \cup S]
            /\ turn' = "script" /\ script' = [frame |-> f, closes |-> {e \in S : rows[e].closePending}]
    IN
    /\ Settled /\ f \in hosted /\ frameTasks[f] # <<>>
    /\ frameTasks' = [frameTasks EXCEPT ![f] = Tail(@)]
    /\ CASE x.kind = "window" -> dispatched(Table, x.msg.ports)
         [] x.kind = "message" /\ EndpointMoved(x.endpoint, f) ->
                Install(Requeue(Table, x.endpoint, x.msg)) /\ turn' = "reconcile" /\ UNCHANGED <<handles, script>>
         [] x.kind = "message" /\ ~EndpointMoved(x.endpoint, f) /\ x.endpoint \in handles[f] ->
                dispatched(Heard(x.endpoint, x.msg.n), x.msg.ports)
         [] x.kind = "message" /\ ~EndpointMoved(x.endpoint, f) /\ x.endpoint \notin handles[f] ->
                turn' = "reconcile" /\ UNCHANGED <<rows, deliveries, handles, script>>
         [] x.kind = "close" /\ EndpointMoved(x.endpoint, f) ->
                Install(RequeueClose(Table, x.endpoint)) /\ turn' = "reconcile" /\ UNCHANGED <<handles, script>>
         [] x.kind = "close" /\ ~EndpointMoved(x.endpoint, f) ->
                /\ Install(IF x.endpoint \in handles[f] THEN [Table EXCEPT !.rows[x.endpoint].closes = @ + 1] ELSE Table)
                /\ turn' = "script" /\ script' = [frame |-> f, closes |-> {}] /\ UNCHANGED handles
    /\ UNCHANGED <<nextPort, hosted, listed, documentIds, nextDocument, posts>>

\* A navigation of the frame: reset_js_realm. The engine commits one between
\* two turns, or the one a script asked for before it routes what the script
\* sent.
NavigateFrame(f) ==
    /\ (Settled \/ turn = "commit") /\ f \in hosted \cap listed /\ nextDocument < MaxDocuments
    /\ LET gone == IF f = MainFrame THEN listed \cap ChildFrames ELSE {}
           forgotten == ForgetRows(Astray(Table, Strays(frameTasks[f], f)), TaskPorts(frameTasks[f]))
       IN /\ listed' = listed \ gone
          /\ documentIds' = [g \in AllFrames |-> IF g = f THEN nextDocument + 1 ELSE IF g \in gone THEN 0 ELSE documentIds[g]]
          /\ Install(CloseRows(forgotten, UNION {PortsOf(forgotten, g) : g \in gone \cup {f}}))
    /\ frameTasks' = [frameTasks EXCEPT ![f] = <<>>]
    /\ handles' = [handles EXCEPT ![f] = {}]
    /\ nextDocument' = nextDocument + 1 /\ turn' = "reconcile"
    /\ UNCHANGED <<nextPort, hosted, script, posts>>

BeginReconcile ==
    /\ turn = "commit" /\ turn' = "reconcile"
    /\ UNCHANGED <<rows, nextPort, deliveries, frameTasks, hosted, listed, documentIds, nextDocument, handles, script, posts>>

PortsInit ==
    /\ rows = [e \in Endpoints |-> GoneRow] /\ nextPort = 1 /\ deliveries = <<>>
    /\ frameTasks = [f \in AllFrames |-> <<>>] /\ hosted = AllFrames /\ listed = AllFrames
    /\ documentIds = [f \in AllFrames |-> 1] /\ nextDocument = 1
    /\ handles = [f \in AllFrames |-> {}] /\ script = Idle /\ turn = "reconcile" /\ posts = 0

ScriptStep(f) ==
    \/ NewChannel(f)
    \/ \E e \in Endpoints : StartPort(f, e) \/ ClosePort(f, e) \/ \E S \in TransferLists(f) : PostMessage(f, e, S)
    \/ \E t \in AllFrames, S \in TransferLists(f) : PostWindowMessage(f, t, S)
    \/ \E c \in ChildFrames : RemoveChildNavigable(f, c)
PortsNext ==
    \/ EndScript \/ BeginReconcile \/ RouteDelivery
    \/ \E f \in AllFrames : ScriptStep(f) \/ DropFrame(f) \/ EnterScript(f) \/ RunTask(f) \/ NavigateFrame(f)
PortsSpec == PortsInit /\ [][PortsNext]_portVars

----------------------------------------------------------------------------
(* Properties. *)

Carriers(e) ==
    Cardinality({i \in DOMAIN deliveries : deliveries[i].kind # "close" /\ e \in deliveries[i].msg.ports})
    + Cardinality(UNION {{<<f, i>> : i \in {j \in DOMAIN frameTasks[f] : frameTasks[f][j].kind # "close" /\ e \in frameTasks[f][j].msg.ports}} : f \in AllFrames})
    + Cardinality(UNION {{<<g, i>> : i \in {j \in DOMAIN rows[g].queue : e \in rows[g].queue[j].ports}} : g \in {h \in Endpoints : Known(h)}})

\* The port table stays consistent through every transfer, close and
\* navigation: entanglement is mutual, an endpoint is in one realm or in
\* transit, and every usable port object belongs to the realm the table names
\* (messaging.rs: PortTable).
PortsTypeOK ==
    \A e \in Endpoints : Known(e) =>
        /\ rows[e].peer # NoPeer => Known(rows[e].peer) /\ rows[rows[e].peer].peer = e
        /\ rows[e].detached <=> rows[e].owner = NoFrame
        /\ rows[e].enabled /\ ~rows[e].detached => rows[e].queue = <<>>
        /\ \A f \in hosted \cap listed : e \in handles[f] <=> rows[e].owner = f

\* A message that reaches a realm brings its ports: the frame whose task it
\* is may still adopt each of them, and no port travels in two messages or
\* while a realm holds it (js/scripts/web/messaging.js:
\* __tbMaterializePorts would throw).
PortsArrive ==
    /\ \A e \in Endpoints : Known(e) => Carriers(e) <= IF rows[e].detached THEN 1 ELSE 0
    /\ \A f \in AllFrames : \A x \in Range(frameTasks[f]) :
            x.kind = "window" \/ (x.kind = "message" /\ ~EndpointMoved(x.endpoint, f)) =>
                \A e \in x.msg.ports : Known(e) /\ rows[e].recipient = f

Waiting(e) ==
    {deliveries[i].msg.n : i \in {j \in DOMAIN deliveries : deliveries[j].kind = "message" /\ deliveries[j].endpoint = e}}
    \cup {rows[e].queue[i].n : i \in DOMAIN rows[e].queue}
    \cup UNION {{frameTasks[f][i].msg.n : i \in {j \in DOMAIN frameTasks[f] : frameTasks[f][j].kind = "message" /\ frameTasks[f][j].endpoint = e}} : f \in AllFrames}
\* No message to a living port is lost or delivered twice, however often the
\* port was transferred: it waits in one place or was heard. (The messages in
\* the queue of a frame the port had already left go with that frame.)
MessagesKept ==
    \A e \in Endpoints : Known(e) /\ ~rows[e].astray =>
        /\ rows[e].sent = Waiting(e) \cup Range(rows[e].heard) /\ Waiting(e) \cap Range(rows[e].heard) = {}
        /\ Len(rows[e].heard) = Cardinality(Range(rows[e].heard))

Ascending(q) == \A i, j \in DOMAIN q : i < j => q[i] < q[j]
\* A port that stays in its realm hears its messages in the order of the
\* posts, across disabling, other channels and nested transfers.
HeardInPostOrder == \A e \in Endpoints : Known(e) /\ ~rows[e].moved => Ascending(rows[e].heard)

\* A port whose peer is gone hears `close` once: it has heard it, or the event
\* is on its way to the realm that holds the port, or it is kept for the realm
\* that will (messaging.rs: close, forget, requeue_close).
CloseNotLost ==
    \A e \in Endpoints : Known(e) /\ ~rows[e].astray /\ (rows[e].owner \in listed \cup {NoFrame}) =>
        LET coming == Cardinality({i \in DOMAIN deliveries : deliveries[i] = CloseOf(e)})
                      + Cardinality({f \in AllFrames : CloseOf(e) \in Range(frameTasks[f])})
                      + (IF rows[e].closePending THEN 1 ELSE 0) + (IF e \in script.closes THEN 1 ELSE 0)
        IN rows[e].closes + coming = IF rows[e].peer = NoPeer THEN 1 ELSE 0

\* A window message is dispatched to the document it was posted to and to no
\* successor of it (messaging.rs: Delivery::WindowMessage).
MessageOfItsDocument ==
    \A f \in AllFrames : \A i \in DOMAIN frameTasks[f] : frameTasks[f][i].kind = "window" /\ f \in listed => frameTasks[f][i].doc = documentIds[f]

\* Ports that travel, close and outlive their documents lose no message, no
\* port and no close event, and deliver none twice or out of order.
PortsSafe ==
    /\ PortsTypeOK /\ PortsArrive /\ MessagesKept /\ HeardInPostOrder
    /\ CloseNotLost /\ MessageOfItsDocument
=============================================================================
