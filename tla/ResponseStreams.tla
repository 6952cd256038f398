-------------------------- MODULE ResponseStreams ---------------------------
(* The body of a top-level response on its way into the renderer process:   *)
(* the upload of the browser (exchange.rs Upload, link.rs ResponseWriter),  *)
(* the two lanes of each hop, where a cancel overtakes the frames of its    *)
(* own upload, and the table of streams of the child loop                   *)
(* (child/session.rs), which remembers cancelled ids up to a limit. A tab   *)
(* has one upload at a time; uploads of several tabs share the lanes.       *)
EXTENDS Integers, Sequences, FiniteSets, SequencesExt

CONSTANTS
    Asg,            \* assignments (tabs) of the process
    MaxUploads,     \* bound on the request ids
    BodyLimit,      \* MAX_RESPONSE_BODY_BYTES, in chunks
    MaxChunks,      \* bound on the chunks of an upload
    TombLimit,      \* MAX_CANCELLED_STREAMS
    LaneCap         \* capacity of a data lane

ASSUME ResponseAssumption ==
    /\ {MaxUploads, BodyLimit, MaxChunks, TombLimit, LaneCap} \subseteq Nat
    /\ TombLimit > 0

VARIABLES
    up,         \* id -> the upload: [asg, sent, st]; st is open, ended, dropped or answered
    current,    \* assignment -> the id its tab is uploading, 0 for none
    outLane,    \* lanes from the browser to the wire
    inLane,     \* lanes from the wire to the child loop
    engines,    \* assignments with an engine
    streams,    \* active: id -> chunks it carried
    tomb,       \* cancelled_order
    replies,    \* id -> replies sent by the child, in order
    docOf,      \* assignment -> the body of its main frame: [id, got, st]
    evicted     \* history: ids whose tombstone was dropped

responseVars == <<up, current, outLane, inLane, engines, streams, tomb, replies, docOf, evicted>>

UploadIds == DOMAIN up
NoBody == [id |-> 0, got |-> 0, st |-> "none"]

----------------------------------------------------------------------------
(* Lanes. *)

Queue(f) == IF f.t = "cancel" THEN "control" ELSE "data"
Enqueue(lane, f) == [lane EXCEPT ![Queue(f)] = Append(@, f)]
\* Receiver::recv: the control lane first.
NextQueue(lane) == IF lane.control # <<>> THEN "control" ELSE "data"
Waiting(lane) == lane.control # <<>> \/ lane.data # <<>>
Dequeue(lane) == [lane EXCEPT ![NextQueue(lane)] = Tail(@)]
Received == Head(inLane[NextQueue(inLane)])

\* writer_task and the reader of the child move a frame to the next lanes.
Carry ==
    /\ Waiting(outLane)
    /\ NextQueue(outLane) = "data" => Len(inLane.data) < LaneCap     \* beyond it the process is dropped
    /\ inLane' = Enqueue(inLane, Head(outLane[NextQueue(outLane)]))
    /\ outLane' = Dequeue(outLane)
    /\ UNCHANGED <<up, current, engines, streams, tomb, replies, docOf, evicted>>

----------------------------------------------------------------------------
(* The browser. *)

\* Sender::send awaits room on the data lane.
Send(f) ==
    /\ Queue(f) = "data" => Len(outLane.data) < LaneCap
    /\ outLane' = Enqueue(outLane, f)
ReleaseOf(a) == [t |-> "release", id |-> 0, asg |-> a]
Assigned(a) == a \in engines /\ \A lane \in {outLane, inLane}, q \in {"control", "data"} : ~Contains(lane[q], ReleaseOf(a))
\* begin_upload.
StartResponse(a) ==
    /\ current[a] = 0 /\ Assigned(a) /\ Len(up) < MaxUploads
    /\ up' = Append(up, [asg |-> a, sent |-> 0, st |-> "open"])
    /\ current' = [current EXCEPT ![a] = Len(up) + 1]
    /\ Send([t |-> "call", id |-> Len(up) + 1, asg |-> a])
    /\ replies' = Append(replies, <<>>)
    /\ UNCHANGED <<inLane, engines, streams, tomb, docOf, evicted>>
WriteChunk(a) ==
    LET id == current[a] IN
    /\ id # 0 /\ up[id].st = "open" /\ up[id].sent < MaxChunks
    /\ up' = [up EXCEPT ![id].sent = @ + 1]
    /\ Send([t |-> "chunk", id |-> id, n |-> up[id].sent + 1])
    /\ UNCHANGED <<current, inLane, engines, streams, tomb, replies, docOf, evicted>>
\* finish and abort.
EndUpload(a, ok) ==
    LET id == current[a] IN
    /\ id # 0 /\ up[id].st = "open"
    /\ up' = [up EXCEPT ![id].st = "ended"]
    /\ Send([t |-> "end", id |-> id, ok |-> ok])
    /\ UNCHANGED <<current, inLane, engines, streams, tomb, replies, docOf, evicted>>
\* The future that owns the upload is dropped: a later navigation, a closed
\* tab, a timeout.
DropUpload(a) ==
    LET id == current[a] IN
    /\ id # 0
    /\ up' = [up EXCEPT ![id].st = "dropped"] /\ current' = [current EXCEPT ![a] = 0]
    /\ Send([t |-> "cancel", id |-> id])
    /\ UNCHANGED <<inLane, engines, streams, tomb, replies, docOf, evicted>>
\* The reply reaches the caller that ended its upload.
Answered(a) ==
    LET id == current[a] IN
    /\ id # 0 /\ up[id].st = "ended" /\ replies[id] # <<>>
    /\ up' = [up EXCEPT ![id].st = "answered"] /\ current' = [current EXCEPT ![a] = 0]
    /\ UNCHANGED <<outLane, inLane, engines, streams, tomb, replies, docOf, evicted>>
\* The assignment is released: its tab is gone.
ReleaseAssignment(a) ==
    /\ Assigned(a) /\ current[a] = 0
    /\ Send(ReleaseOf(a))
    /\ UNCHANGED <<up, current, inLane, engines, streams, tomb, replies, docOf, evicted>>

----------------------------------------------------------------------------
(* The child: ResponseStreams. *)

Without(f, ids) == [i \in DOMAIN f \ ids |-> f[i]]
Reply(id, body) == replies' = [replies EXCEPT ![id] = Append(@, body)]

Ended(a, st) == [docOf EXCEPT ![a] = IF @.st = "open" THEN [@ EXCEPT !.st = st] ELSE @]

TombForgets(ids) == UNCHANGED <<tomb, evicted>>
\* tombstone: the oldest go when there are too many.
Tombstone(ids) ==
    LET all == tomb \o SetToSeq(ids \ Range(tomb))
        drop == IF Len(all) > TombLimit THEN Len(all) - TombLimit ELSE 0
    IN  /\ tomb' = SubSeq(all, drop + 1, Len(all))
        /\ evicted' = evicted \cup Range(SubSeq(all, 1, drop))
IsCancelled(id) == Contains(tomb, id)

\* A started response; install_head replaces what the frame was loading. Its
\* engine exists (CallFindsEngine).
Start(id, a) ==
    \/ IsCancelled(id) /\ UNCHANGED <<streams, docOf, tomb, evicted, replies>>
    \/ /\ ~IsCancelled(id)
       /\ streams' = [i \in DOMAIN streams \cup {id} |-> IF i = id THEN [asg |-> a, n |-> 0] ELSE streams[i]]
       /\ docOf' = [docOf EXCEPT ![a] = [id |-> id, got |-> 0, st |-> "open"]]
       /\ UNCHANGED <<tomb, evicted, replies>>
TooLong(id, a) == streams' = Without(streams, {id}) /\ Tombstone({id}) /\ docOf' = Ended(a, "aborted") /\ Reply(id, "error")
\* push: a body over the limit ends its stream.
PushChunk(id) ==
    IF IsCancelled(id) \/ id \notin DOMAIN streams
    THEN UNCHANGED <<streams, docOf, tomb, evicted, replies>>
    ELSE LET a == streams[id].asg IN
         IF streams[id].n + 1 > BodyLimit
         THEN TooLong(id, a)
         ELSE /\ streams' = [streams EXCEPT ![id].n = @ + 1]
              /\ docOf' = [docOf EXCEPT ![a].got = IF docOf[a].st = "open" THEN @ + 1 ELSE @]
              /\ UNCHANGED <<tomb, evicted, replies>>
\* finish and abort.
Finish(id, ok) ==
    /\ UNCHANGED <<tomb, evicted>>
    /\ IF IsCancelled(id) THEN UNCHANGED <<streams, docOf, replies>>
       ELSE IF id \notin DOMAIN streams
       THEN Reply(id, "error") /\ UNCHANGED <<streams, docOf>>
       ELSE /\ streams' = Without(streams, {id})
            /\ docOf' = Ended(streams[id].asg, IF ok THEN "complete" ELSE "aborted")
            /\ Reply(id, IF ok THEN "ok" ELSE "error")
CancelStream(id) ==
    /\ IF id \in DOMAIN streams
       THEN docOf' = Ended(streams[id].asg, "aborted") /\ streams' = Without(streams, {id})
       ELSE UNCHANGED <<docOf, streams>>
    /\ Tombstone({id}) /\ UNCHANGED replies
\* A released engine takes its frame with it.
Release(a) ==
    LET stale == {id \in DOMAIN streams : streams[id].asg = a} IN
    /\ streams' = Without(streams, stale) /\ Tombstone(stale)
    /\ docOf' = [docOf EXCEPT ![a] = NoBody]
    /\ engines' = engines \ {a} /\ UNCHANGED replies

HandleHost ==
    /\ Waiting(inLane)
    /\ LET f == Received IN
       \/ f.t = "call" /\ Start(f.id, f.asg) /\ UNCHANGED engines
       \/ f.t = "chunk" /\ PushChunk(f.id) /\ UNCHANGED engines
       \/ f.t = "end" /\ Finish(f.id, f.ok) /\ UNCHANGED engines
       \/ f.t = "cancel" /\ CancelStream(f.id) /\ UNCHANGED engines
       \/ f.t = "release" /\ Release(f.asg)
    /\ inLane' = Dequeue(inLane)
    /\ UNCHANGED <<up, current, outLane>>

----------------------------------------------------------------------------

EmptyLanes == [control |-> <<>>, data |-> <<>>]
ResponseInit ==
    /\ up = <<>> /\ current = [a \in Asg |-> 0]
    /\ outLane = EmptyLanes /\ inLane = EmptyLanes
    /\ engines = Asg /\ streams = <<>> /\ tomb = <<>> /\ replies = <<>>
    /\ docOf = [a \in Asg |-> NoBody] /\ evicted = {}
ResponseNext ==
    \/ \E a \in Asg : StartResponse(a) \/ WriteChunk(a) \/ DropUpload(a) \/ Answered(a) \/ ReleaseAssignment(a)
    \/ \E a \in Asg, ok \in BOOLEAN : EndUpload(a, ok)
    \/ Carry \/ HandleHost
ResponseSpec == ResponseInit /\ [][ResponseNext]_responseVars

----------------------------------------------------------------------------
(* Properties. *)

\* Type invariant.
ResponseTypeOK ==
    /\ \A a \in Asg : current[a] \in 0..Len(up)
    /\ DOMAIN streams \subseteq UploadIds /\ Len(tomb) <= TombLimit
    /\ \A id \in DOMAIN streams : streams[id].n \in 0..BodyLimit
    /\ Len(replies) = Len(up)

\* finish: a caller that reads Ok has mounted its own whole body, even when
\* cancels of other uploads overtake its frames.
OkMeansMounted ==
    \A id \in UploadIds : replies[id] # <<>> /\ replies[id][1] = "ok" =>
        LET d == docOf[up[id].asg] IN
        /\ up[id].sent <= BodyLimit
        /\ d.id = id => d = [id |-> id, got |-> up[id].sent, st |-> "complete"]

\* cancel and release: the frame never waits for a body that nobody sends any
\* more; only an id whose tombstone was dropped may be left open.
InFlight(id) == \E lane \in {outLane, inLane}, q \in {"control", "data"} : \E i \in DOMAIN lane[q] : lane[q][i].id = id
NoBodyLeftOpen ==
    \A a \in Asg : docOf[a].st = "open" =>
        \/ docOf[a].id = current[a] \/ InFlight(docOf[a].id) \/ docOf[a].id \in evicted

\* A body is aborted only on behalf of its own upload: the late cancel of an
\* earlier upload of the tab does not end the document of a later one.
AbortIsOwn ==
    \A a \in Asg : docOf[a].st = "open" /\ docOf'[a].st = "aborted" =>
     \/ up[docOf[a].id].st \in {"dropped", "ended"} \/ up[docOf[a].id].sent > BodyLimit

\* What every step of the response streams keeps.
ResponseSteps == [AbortIsOwn]_responseVars

\* handle_host: a response that is still wanted finds its engine, because the
\* release of an assignment stays behind the frames sent before it.
CallFindsEngine ==
    Waiting(inLane) /\ Received.t = "call" => Received.asg \in engines

\* Every caller that ended its upload gets exactly one answer to read.
AnswerComes ==
    \A id \in UploadIds : up[id].st = "ended" /\ ~InFlight(id) => replies[id] # <<>>

\* The response streams of a child: every upload is answered, Ok means mounted,
\* and no document waits for a body that will not end.
ResponsesSafe ==
    /\ ResponseTypeOK /\ OkMeansMounted /\ NoBodyLeftOpen /\ CallFindsEngine
    /\ AnswerComes
=============================================================================
