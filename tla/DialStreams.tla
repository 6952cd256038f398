---------------------------- MODULE DialStreams ----------------------------
(* Page fetches from the script to the socket: the dial ledger of a         *)
(* document (renderer document/dials.rs, drain.rs), the service calls of    *)
(* its process (child/mod.rs, link.rs) and the dials, permits and body      *)
(* streams of the tab (browser network.rs). One renderer thread runs the    *)
(* document and may block on a service call; the service loop answers the   *)
(* calls in order; dial workers and body tasks run beside both. The release *)
(* of the assignment is in AssignmentRegistry.                              *)
EXTENDS Naturals, Sequences, FiniteSets, SequencesExt

CONSTANTS
    Fetches,     \* page fetches; each is made once
    Idempotent,  \* those whose method a 421 answer may replay
    BodyLength,  \* chunks of every response body
    Depth,       \* STREAM_CHUNK_DEPTH
    TabDials,    \* MAX_TAB_DIALS
    GlobalDials, \* MAX_GLOBAL_DIALS
    MaxResets    \* bound on the documents that replace one another

ASSUME DialAssumption ==
    /\ IsFiniteSet(Fetches) /\ Idempotent \subseteq Fetches
    /\ {BodyLength, Depth, TabDials, GlobalDials} \subseteq Nat \ {0}
    /\ MaxResets \in Nat

Streams == Fetches \X {1, 2}   \* the second stream of a fetch is its replay
NoStream == <<>>

VARIABLES
    step,      \* where the drain of the renderer thread is
    threadBlocked,   \* the call the renderer thread waits for, <<>> when it runs
    dialPage,      \* what the script knows of each fetch
    filed,     \* the ledger entry of each fetch
    dialOutbox,    \* realm requests not yet adopted
    channel,   \* completions sent to the ledger
    dialTasks,     \* completion tasks queued
    calls,     \* service calls on their way to the browser
    reading,   \* the stream the service loop awaits
    dialReplies,   \* service replies on their way to the renderer
    dials,     \* active dials of the service task
    worker,    \* the dial worker of each fetch
    table,     \* the streams of the tab
    netBody,      \* the body task of each stream
    buffer,    \* messages of a stream not yet read
    free,      \* permits left: [tab, global]
    cache,     \* chunks of the stored response, BodyLength + 1 for none
    got,       \* what the page received of a fetch: chunks, end (history)
    resets     \* documents replaced

dialRendererVars == <<step, threadBlocked, dialPage, filed, dialOutbox, channel, dialTasks, got, resets>>
streamVars == <<table, netBody, buffer, cache>>
dialVars == <<dialRendererVars, calls, reading, dialReplies, dials, worker, free, streamVars>>

NoEntry == BodyLength + 1

DialsInit ==
    /\ step = "adopt"
    /\ threadBlocked = <<>>
    /\ dialPage = [f \in Fetches |-> "new"]
    /\ filed = [f \in Fetches |-> "none"]
    /\ dialOutbox = <<>>
    /\ channel = <<>>
    /\ dialTasks = <<>>
    /\ calls = <<>>
    /\ reading = NoStream
    /\ dialReplies = <<>>
    /\ dials = {}
    /\ worker = [f \in Fetches |-> [at |-> "none", cancel |-> FALSE, attempt |-> 1, out |-> NoStream]]
    /\ table = {}
    /\ netBody = [s \in Streams |-> [at |-> "none", read |-> 0]]
    /\ buffer = [s \in Streams |-> <<>>]
    /\ free = [tab |-> TabDials, global |-> GlobalDials]
    /\ cache = NoEntry
    /\ got = [f \in Fetches |-> [chunks |-> 0, end |-> "no"]]
    /\ resets = 0

----------------------------------------------------------------------------
(* The renderer thread. A drain step adopts completions, applies the realm  *)
(* requests, launches the queued dials, adopts again and runs one task.     *)

Runs(s) == step = s /\ threadBlocked = <<>>

\* ServiceClient::call_with: the call goes out and the thread goes on.
Post(cs) == calls' = calls \o cs
\* ServiceClient::call: the thread sleeps until the reply is there.
DialCall(c) == threadBlocked' = c /\ Post(<<c>>)

\* cancel_fetch: a queued dial is dropped, a started one is cancelled.
CancelFetch(f) ==
    /\ filed' = [filed EXCEPT ![f] = "none"]
    /\ Post(IF filed[f] = "started" THEN <<<<"CancelDial", f>>>> ELSE <<>>)

\* adopt_js_work: one realm request after the other, in order.
ApplyRequests ==
    /\ Runs("requests")
    /\ IF dialOutbox = <<>>
       THEN step' = "launch" /\ UNCHANGED <<dialOutbox, filed, calls>>
       ELSE /\ dialOutbox' = Tail(dialOutbox)
            /\ step' = step
            /\ LET request == Head(dialOutbox)
               IN  \/ /\ request[1] = "Fetch"
                      /\ filed' = [filed EXCEPT ![request[2]] = "queued"]
                      /\ calls' = calls
                   \/ /\ request[1] = "AbortFetch"
                      /\ CancelFetch(request[2])
    /\ UNCHANGED <<threadBlocked, dialPage, channel, dialTasks, got, resets, reading, dialReplies, dials, worker, free, streamVars>>

\* launch_queued_dials: DialLedger::start for every queued dial.
Launch ==
    /\ Runs("launch")
    /\ \/ \E f \in Fetches :
            /\ filed[f] = "queued"
            /\ filed' = [filed EXCEPT ![f] = "started"]
            /\ Post(<<<<"Dial", f>>>>)
            /\ step' = step
       \/ /\ \A f \in Fetches : filed[f] # "queued"
          /\ step' = "adoptAgain"
          /\ UNCHANGED <<filed, calls>>
    /\ UNCHANGED <<threadBlocked, dialPage, dialOutbox, channel, dialTasks, got, resets, reading, dialReplies, dials, worker, free, streamVars>>

Held(f) == worker[f].out

\* finish_js_fetch_dial and finish_js_fetch: the response goes to the callback
\* of the fetch, unless the page has aborted or a policy refuses the address.
Delivered(f) == filed[f] # "none" /\ dialPage[f] = "asked"
AbandonDrops(s) == UNCHANGED <<threadBlocked, calls>>
\* Otherwise the stream is cancelled, in finish_js_fetch or in abandon_dial.
Abandon(s) == IF s = NoStream THEN UNCHANGED <<threadBlocked, calls>> ELSE DialCall(<<"CancelStream", s>>)

Adoption == {"adopt", "adoptAgain"}
AfterAdoption == [s \in Adoption |-> IF s = "adopt" THEN "requests" ELSE "task"]

\* DialLedger::adopt and adopt_dial_completions: a completion whose entry is
\* gone is abandoned, any other becomes a task.
Adopt ==
    /\ step \in Adoption
    /\ threadBlocked = <<>>
    /\ \/ /\ channel = <<>>
          /\ step' = AfterAdoption[step]
          /\ UNCHANGED <<channel, dialTasks, threadBlocked, calls>>
       \/ /\ channel # <<>>
          /\ channel' = Tail(channel)
          /\ step' = step
          /\ LET done == Head(channel)
             IN  \/ /\ filed[done.fetch] # "none"
                    /\ dialTasks' = Append(dialTasks, done)
                    /\ UNCHANGED <<threadBlocked, calls>>
                 \/ /\ filed[done.fetch] = "none"
                    /\ dialTasks' = dialTasks
                    /\ Abandon(done.out)
    /\ UNCHANGED <<dialPage, filed, dialOutbox, got, resets, reading, dialReplies, dials, worker, free, streamVars>>

\* run_task for a completion: settle, then finish_dial.
RunTask ==
    /\ Runs("task")
    /\ dialTasks # <<>>
    /\ LET f == Head(dialTasks).fetch
           s == Head(dialTasks).out
       IN  /\ filed' = [filed EXCEPT ![f] = "none"]
           /\ \/ /\ Delivered(f)
                 /\ dialPage' = [dialPage EXCEPT ![f] = IF s = NoStream THEN "settled" ELSE "open"]
                 /\ UNCHANGED <<threadBlocked, calls>>
              \/ /\ dialPage' = [dialPage EXCEPT ![f] = IF Delivered(f) THEN "settled" ELSE @]
                 /\ Abandon(s)
    /\ dialTasks' = Tail(dialTasks)
    /\ step' = "adopt"
    /\ UNCHANGED <<dialOutbox, channel, got, resets, reading, dialReplies, dials, worker, free, streamVars>>

\* The session sleeps at an empty task queue until has_ready_work.
HasReadyWorkStarted == dialOutbox # <<>> \/ \E f \in Fetches : filed[f] = "queued"
HasReadyWork == channel # <<>> \/ dialOutbox # <<>>
Wake ==
    /\ Runs("task")
    /\ dialTasks = <<>>
    /\ HasReadyWork
    /\ step' = "adopt"
    /\ UNCHANGED <<threadBlocked, dialPage, filed, dialOutbox, channel, dialTasks, got, resets, calls, reading, dialReplies, dials, worker, free, streamVars>>

(* The script, in a task of its own. *)

ScriptRan == step' = "adopt" /\ UNCHANGED <<filed, channel, dialTasks, resets, reading, dialReplies, dials, worker, free, streamVars>>

Fetch(f) ==
    /\ Runs("task")
    /\ dialPage[f] = "new"
    /\ dialPage' = [dialPage EXCEPT ![f] = "asked"]
    /\ dialOutbox' = Append(dialOutbox, <<"Fetch", f>>)
    /\ UNCHANGED <<threadBlocked, calls, got>>
    /\ ScriptRan

\* dial_sync: a synchronous request asks for the whole body in one reply.
FetchSync(f) ==
    /\ Runs("task")
    /\ dialPage[f] = "new"
    /\ dialPage' = [dialPage EXCEPT ![f] = "sync"]
    /\ DialCall(<<"Dial", f>>)
    /\ UNCHANGED <<dialOutbox, got>>
    /\ ScriptRan

Abort(f) ==
    /\ Runs("task")
    /\ dialPage[f] = "asked"
    /\ dialPage' = [dialPage EXCEPT ![f] = "aborted"]
    /\ dialOutbox' = Append(dialOutbox, <<"AbortFetch", f>>)
    /\ UNCHANGED <<threadBlocked, calls, got>>
    /\ ScriptRan

Read(f) ==
    /\ Runs("task")
    /\ dialPage[f] = "open"
    /\ DialCall(<<"DialRead", Held(f)>>)
    /\ UNCHANGED <<dialPage, dialOutbox, got>>
    /\ ScriptRan

\* A page that has read to the end may cancel too; nothing is left to cancel then.
Cancel(f) ==
    /\ Runs("task")
    /\ dialPage[f] = "open"
    /\ dialPage' = [dialPage EXCEPT ![f] = "settled"]
    /\ DialCall(<<"CancelStream", Held(f)>>)
    /\ UNCHANGED <<dialOutbox, got>>
    /\ ScriptRan

\* reset_js_realm: the tasks are dropped, the ledger and its channel are
\* replaced, the started dials are cancelled, the old realm is gone.
Reset ==
    /\ Runs("task")
    /\ resets < MaxResets
    /\ resets' = resets + 1
    /\ dialTasks' = <<>>
    /\ channel' = <<>>
    /\ dialOutbox' = <<>>
    /\ filed' = [f \in Fetches |-> "none"]
    /\ Post(SetToSeq({<<"CancelDial", f>> : f \in {g \in Fetches : filed[g] = "started"}}))
    /\ dialPage' = [f \in Fetches |-> IF dialPage[f] = "new" THEN "new" ELSE "gone"]
    /\ step' = "adopt"
    /\ UNCHANGED <<threadBlocked, got, reading, dialReplies, dials, worker, free, streamVars>>

----------------------------------------------------------------------------
(* The service loop of the process, and the reader thread of the renderer. *)

DialReply(op, f, out) == dialReplies' = Append(dialReplies, [op |-> op, fetch |-> f, out |-> out])

\* The permits a body task holds come back when the task ends or is aborted.
Holding(s) == netBody[s].at \in {"run", "closing"}
Back(n) == [tab |-> free.tab + n, global |-> free.global + n]
\* cancel_stream, remove_stream: the entry goes, its task is aborted.
RemoveStream(s) ==
    /\ table' = table \ {s}
    /\ netBody' = [netBody EXCEPT ![s].at = IF s \in table /\ Holding(s) THEN "aborted" ELSE @]
    /\ free' = IF s \in table /\ Holding(s) THEN Back(1) ELSE free
    /\ buffer' = [buffer EXCEPT ![s] = IF s \in table THEN <<>> ELSE @]

\* route_service_call; a DialRead of a stream that is not there ends at once.
Serve ==
    /\ reading = NoStream
    /\ calls # <<>>
    /\ calls' = Tail(calls)
    /\ LET op == Head(calls)[1]
           x == Head(calls)[2]
       IN  \/ /\ op = "Dial"
              /\ dials' = dials \cup {x}
              /\ worker' = [worker EXCEPT ![x].at = "global"]
              /\ UNCHANGED <<reading, dialReplies, free, table, netBody, buffer>>
           \/ /\ op = "CancelDial"
              /\ worker' = [worker EXCEPT ![x].cancel = @ \/ x \in dials]
              /\ UNCHANGED <<dials, reading, dialReplies, free, table, netBody, buffer>>
           \/ /\ op = "CancelStream"
              /\ RemoveStream(x)
              /\ DialReply("Unit", x[1], NoStream)
              /\ UNCHANGED <<dials, worker, reading>>
           \/ /\ op = "DialRead"
              /\ IF x \in table
                 THEN reading' = x /\ dialReplies' = dialReplies
                 ELSE DialReply("End", x[1], NoStream) /\ reading' = reading
              /\ UNCHANGED <<dials, worker, free, table, netBody, buffer>>
    /\ UNCHANGED <<dialRendererVars, cache>>

\* read_stream: the next message, or the end when the sender is gone.
ReadStream ==
    /\ reading # NoStream
    /\ \/ /\ buffer[reading] # <<>>
          /\ IF Head(buffer[reading]) = "Chunk"
             THEN /\ DialReply("Chunk", reading[1], NoStream)
                  /\ buffer' = [buffer EXCEPT ![reading] = Tail(@)]
                  /\ UNCHANGED <<table, netBody, free>>
             ELSE /\ DialReply(Head(buffer[reading]), reading[1], NoStream)
                  /\ RemoveStream(reading)
       \/ /\ buffer[reading] = <<>>
          /\ ~Holding(reading)
          /\ DialReply("End", reading[1], NoStream)
          /\ RemoveStream(reading)
    /\ reading' = NoStream
    /\ UNCHANGED <<dialRendererVars, calls, dials, worker, cache>>

\* The reply of a started dial runs the completion the ledger gave it: it goes
\* into the channel of that ledger, which may be gone. Any other wakes the thread.
BytesReceived ==
    /\ dialReplies # <<>>
    /\ LET r == Head(dialReplies)
           f == r.fetch
       IN  \/ /\ r.op = "Dial" /\ dialPage[f] # "sync"
              /\ channel' = IF dialPage[f] = "gone" THEN channel ELSE Append(channel, [fetch |-> f, out |-> r.out])
              /\ UNCHANGED <<threadBlocked, dialPage, got>>
           \/ /\ r.op # "Dial" \/ dialPage[f] = "sync"
              /\ threadBlocked' = <<>>
              /\ channel' = channel
              /\ \/ /\ r.op = "Chunk"
                    /\ got' = [got EXCEPT ![f].chunks = @ + 1]
                    /\ dialPage' = dialPage
                 \/ /\ r.op \in {"End", "Error"}
                    /\ got' = [got EXCEPT ![f].end = r.op]
                    /\ dialPage' = [dialPage EXCEPT ![f] = "settled"]
                 \/ /\ r.op = "Dial"
                    /\ dialPage' = [dialPage EXCEPT ![f] = "settled"]
                    /\ got' = got
                 \/ /\ r.op = "Unit"
                    /\ UNCHANGED <<dialPage, got>>
    /\ dialReplies' = Tail(dialReplies)
    /\ UNCHANGED <<step, filed, dialOutbox, dialTasks, resets, calls, reading, dials, worker, free, streamVars>>

----------------------------------------------------------------------------
(* The dial workers: race_dial, send_head. A worker takes a permit of the  *)
(* browser, then one of the tab, and keeps both until its body is done.     *)

Work(f, from, to) == worker[f].at \in from /\ worker' = [worker EXCEPT ![f].at = to]
Undisturbed == UNCHANGED <<dialRendererVars, calls, reading>>

CacheHit(f) ==
    /\ cache # NoEntry
    /\ Work(f, {"global"}, "out")
    /\ Undisturbed /\ UNCHANGED <<dialReplies, dials, free, streamVars>>

AcquireGlobal(f) ==
    /\ free.global > 0
    /\ Work(f, {"global"}, "tab")
    /\ free' = [free EXCEPT !.global = @ - 1]
    /\ Undisturbed /\ UNCHANGED <<dialReplies, dials, streamVars>>

AcquireTab(f) ==
    /\ free.tab > 0
    /\ Work(f, {"tab"}, "send")
    /\ free' = [free EXCEPT !.tab = @ - 1]
    /\ Undisturbed /\ UNCHANGED <<dialReplies, dials, streamVars>>

\* What a worker that stops gives back.
Stopped(f) == [tab |-> free.tab + (IF worker[f].at = "send" THEN 1 ELSE 0),
               global |-> free.global + (IF worker[f].at = "global" THEN 0 ELSE 1)]

\* The deadline of the dial passes while it waits for a permit: QueueFull.
Deadline(f) ==
    /\ Work(f, {"global", "tab"}, "out")
    /\ free' = Stopped(f)
    /\ Undisturbed /\ UNCHANGED <<dialReplies, dials, streamVars>>

Cancelled(f) ==
    /\ worker[f].cancel
    /\ Work(f, {"global", "tab", "send"}, "out")
    /\ free' = Stopped(f)
    /\ Undisturbed /\ UNCHANGED <<dialReplies, dials, streamVars>>

\* A failure, a merged 304, a refused redirect, an empty or a buffered body.
DialAnswered(f) ==
    /\ Work(f, {"send"}, "out")
    /\ free' = Stopped(f)
    /\ Undisturbed /\ UNCHANGED <<dialReplies, dials, streamVars>>

\* start_stream: the body task takes the permits over.
Streamed(f) ==
    LET s == <<f, worker[f].attempt>>
    IN  /\ dialPage[f] # "sync"
        /\ worker[f].at = "send"
        /\ worker' = [worker EXCEPT ![f].at = "out", ![f].out = s]
        /\ table' = table \cup {s}
        /\ netBody' = [netBody EXCEPT ![s].at = "run"]
        /\ Undisturbed /\ UNCHANGED <<dialReplies, dials, free, buffer, cache>>

\* A 421 is replayed once; the stream of the first answer is cancelled.
Discarded(f) ==
    /\ free' = Stopped(f)
    /\ UNCHANGED <<table, netBody>>
Misdirected(f) ==
    /\ f \in Idempotent
    /\ worker[f].at = "send" /\ worker[f].attempt = 1
    /\ worker' = [worker EXCEPT ![f].at = "global", ![f].attempt = 2]
    /\ Discarded(f)
    /\ Undisturbed /\ UNCHANGED <<dialReplies, dials, buffer, cache>>

EndDial(f) ==
    /\ Work(f, {"out"}, "replied")
    /\ dials' = dials \ {f}
    /\ DialReply("Dial", f, worker[f].out)
    /\ Undisturbed /\ UNCHANGED <<free, streamVars>>

----------------------------------------------------------------------------
(* The body tasks: spawn_stream_body. A send waits for room in the channel. *)

SendDial(s, message) ==
    /\ Len(buffer[s]) < Depth
    /\ buffer' = [buffer EXCEPT ![s] = Append(@, message)]

BodyChunk(s) ==
    /\ netBody[s].at = "run" /\ netBody[s].read < BodyLength
    /\ netBody' = [netBody EXCEPT ![s].read = @ + 1]
    /\ SendDial(s, "Chunk")
    /\ Undisturbed /\ UNCHANGED <<dialReplies, dials, worker, free, table, cache>>

\* The whole body was read; a response that may be stored is stored first.
BodyDone(s) ==
    /\ netBody[s].at = "run" /\ netBody[s].read = BodyLength
    /\ netBody' = [netBody EXCEPT ![s].at = "closing"]
    /\ cache' \in {cache, netBody[s].read}
    /\ Undisturbed /\ UNCHANGED <<dialReplies, dials, worker, free, table, buffer>>

BodyOver(s, at, message) ==
    /\ netBody[s].at = at
    /\ SendDial(s, message)
    /\ netBody' = [netBody EXCEPT ![s].at = "over"]
    /\ free' = Back(1)
    /\ Undisturbed /\ UNCHANGED <<dialReplies, dials, worker, table, cache>>
BodyEnds(s) == BodyOver(s, "closing", "End")
BodyFails(s) == BodyOver(s, "run", "Error")

Drain == Adopt \/ ApplyRequests \/ Launch \/ RunTask \/ Wake
PageScript == Reset \/ \E f \in Fetches : Fetch(f) \/ FetchSync(f) \/ Abort(f) \/ Read(f) \/ Cancel(f)
Acquire(f) == CacheHit(f) \/ AcquireGlobal(f) \/ AcquireTab(f) \/ Deadline(f)
Respond(f) == DialAnswered(f) \/ Streamed(f) \/ Misdirected(f)
Body(s) == BodyChunk(s) \/ BodyDone(s) \/ BodyEnds(s) \/ BodyFails(s)

Service == Serve \/ ReadStream \/ BytesReceived
Worker(f) == Acquire(f) \/ Respond(f) \/ EndDial(f)
System ==
    \/ Drain \/ Service
    \/ \E f \in Fetches : Worker(f)
    \/ \E s \in Streams : Body(s)

DialsNext == System \/ PageScript \/ \E f \in Fetches : Cancelled(f)

\* The loops and tasks run while they have something to do; a dial and a body
\* end by their deadlines. The script owes nothing: it may leave a response unread.
DialsFairness == WF_dialVars(System)

DialsSpec == DialsInit /\ [][DialsNext]_dialVars
DialsFairSpec == DialsSpec /\ DialsFairness

----------------------------------------------------------------------------
(* Properties. *)

Completions == [fetch : Fetches, out : Streams \cup {NoStream}]

\* The types, and the channel of a stream within its depth.
DialsTypeOK ==
    /\ step \in {"adopt", "requests", "launch", "adoptAgain", "task"}
    /\ dialPage \in [Fetches -> {"new", "asked", "sync", "aborted", "open", "settled", "gone"}]
    /\ filed \in [Fetches -> {"none", "queued", "started"}]
    /\ channel \in Seq(Completions) /\ dialTasks \in Seq(Completions)
    /\ reading \in Streams \cup {NoStream}
    /\ dials \subseteq Fetches
    /\ worker \in [Fetches -> [at : {"none", "global", "tab", "send", "out", "replied"}, cancel : BOOLEAN,
                               attempt : {1, 2}, out : Streams \cup {NoStream}]]
    /\ table \subseteq Streams
    /\ netBody \in [Streams -> [at : {"none", "run", "closing", "over", "aborted"}, read : 0..BodyLength]]
    /\ \A s \in Streams : Len(buffer[s]) <= Depth
    /\ free \in [tab : 0..TabDials, global : 0..GlobalDials]
    /\ cache \in 0..NoEntry
    /\ got \in [Fetches -> [chunks : 0..BodyLength, end : {"no", "End", "Error"}]]
    /\ resets \in 0..MaxResets

\* Every stream of the tab has someone who will read or cancel it: the worker,
\* a reply, a completion, a page that holds the response, a cancellation under
\* way. Whatever the page aborts and whenever, no body task is left over. The
\* streams of a document that was replaced are the exception.
NoOrphanStream ==
    \A s \in table : LET f == s[1] IN
        \/ worker[f].at = "out" /\ worker[f].out = s
        \/ \E i \in DOMAIN dialReplies : dialReplies[i].out = s
        \/ \E i \in DOMAIN channel : channel[i].out = s
        \/ \E i \in DOMAIN dialTasks : dialTasks[i].out = s
        \/ \E i \in DOMAIN calls : calls[i] = <<"CancelStream", s>>
        \/ dialPage[f] = "open" /\ Held(f) = s
        \/ dialPage[f] = "gone"

\* Every permit taken is held by a dial under way or by the body task of a
\* stream that can still be cancelled; none is lost and none is given back twice.
PermitsHeld ==
    LET sending == {f \in Fetches : worker[f].at = "send"}
        bodies == {s \in Streams : Holding(s)}
        held == Cardinality(sending) + Cardinality(bodies)
    IN  /\ bodies \subseteq table
        /\ free.tab + held = TabDials
        /\ free.global + held + Cardinality({f \in Fetches : worker[f].at = "tab"}) = GlobalDials

\* A body that ends without an error, for the page or in the cache, is whole.
WholeBodies ==
    /\ \A f \in Fetches : got[f].end = "End" => got[f].chunks = BodyLength
    /\ cache # NoEntry => cache = BodyLength

\* Streams have a reader, permits a holder, and bodies are whole or failed,
\* whatever the page aborts and whenever its document goes.
DialsSafe ==
    DialsTypeOK /\ NoOrphanStream /\ PermitsHeld /\ WholeBodies

\* The renderer thread never sleeps for good in a service call: not for the
\* bytes of a slow body, not in a synchronous fetch whose permits its own
\* unread responses hold.
ThreadWakes == threadBlocked # <<>> ~> threadBlocked = <<>>

\* A fetch the page does not abort is settled, unless its document goes.
FetchSettles == \A f \in Fetches : dialPage[f] = "asked" ~> dialPage[f] # "asked"
=============================================================================
