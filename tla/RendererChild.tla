---------------------------- MODULE RendererChild ----------------------------
(***************************************************************************)
(* The three threads of a renderer child (crates/browser/src/child/mod.rs)  *)
(* and the blocking half of the exchange they share (exchange.rs:           *)
(* BlockingSender, BlockingReceiver, BlockingClient).                       *)
(*                                                                         *)
(*   engine thread  runs the pages; publishes with try_send; makes          *)
(*                  synchronous calls (document.cookie, localStorage) that  *)
(*                  block it, and calls with a callback (dials)             *)
(*   writer thread  BlockingReceiver::recv, then the socket                 *)
(*   reader thread  delivers replies; on Shutdown, EOF or a bad frame stops *)
(*                  the loop and closes the client                          *)
(*                                                                         *)
(* An action is what a thread does between two operations others can see.   *)
(* The control lane is left out: the child never sends a Cancel.            *)
(***************************************************************************)
EXTENDS Integers, Sequences, FiniteSets

CONSTANTS
    WaitCalls,      \* calls made with BlockingClient::call
    CallbackCalls,  \* calls made with BlockingClient::call_with
    NoCall,
    Event,          \* any frame sent with try_send: replies, events, chunks
    MaxEvents,      \* bound on those
    Cap             \* OUTBOX_DATA_CAPACITY

Calls == WaitCalls \cup CallbackCalls

ASSUME ChildAssumption ==
    /\ WaitCalls \cap CallbackCalls = {}
    /\ NoCall \notin Calls /\ Event \notin Calls
    /\ MaxEvents \in Nat /\ Cap \in Nat \ {0}

VARIABLES
    closed,    \* AtomicBool closed
    queue,     \* the data lane
    wake,      \* tokens in the wake channel
    pending,   \* keys of BlockingClient::pending
    made,      \* calls whose id is used up
    answer,    \* Wait: what its channel holds; Callback: what it was run with
    fired,     \* times a call was answered
    epc, ecall, events,   \* engine thread
    wpc, wframe,          \* writer thread
    rpc,                  \* reader thread
    stop,                 \* Stop::request
    host,      \* the browser's end of the socket is open
    wire       \* calls the browser has received and not answered

evars == <<epc, ecall, events>>
wvars == <<wpc, wframe>>
hvars == <<host, wire>>
cvars == <<pending, made, answer, fired>>
vars == <<closed, queue, wake, pending, made, answer, fired, epc, ecall, events,
          wpc, wframe, rpc, stop, host, wire>>

(* Every pending call in cs gets r: a send on its channel, or its callback. *)
Answer(cs, r) ==
    /\ pending' = pending \ cs
    /\ answer' = [c \in Calls |-> IF c \in cs THEN r ELSE answer[c]]
    /\ fired' = [c \in Calls |-> IF c \in cs THEN fired[c] + 1 ELSE fired[c]]

-----------------------------------------------------------------------------
(* BlockingClient::start on the engine thread *)

(* The id, and the entry in the map. *)
StartCall(c) ==
    /\ epc = "run" /\ c \notin made
    /\ made' = made \cup {c}
    /\ pending' = pending \cup {c}
    /\ epc' = "check" /\ ecall' = c
    /\ UNCHANGED <<closed, queue, wake, answer, fired, events, wvars, rpc, stop, hvars>>

(* Mutant: the flag is not looked at. *)
CheckClosedSkipped ==
    /\ epc = "check"
    /\ epc' = "push"
    /\ UNCHANGED <<closed, queue, wake, cvars, ecall, events, wvars, rpc, stop, hvars>>

(* BlockingSender::send: the flag ... *)
CheckClosed ==
    /\ epc = "check"
    /\ epc' = IF closed THEN "undo" ELSE "push"
    /\ UNCHANGED <<closed, queue, wake, cvars, ecall, events, wvars, rpc, stop, hvars>>

(* ... the lane, waiting for room unless the receiver is gone ... *)
PushCall ==
    /\ epc = "push"
    /\ \/ /\ wpc # "done" /\ Len(queue) < Cap
          /\ queue' = Append(queue, ecall)
          /\ epc' = "wake"
       \/ wpc = "done" /\ epc' = "undo" /\ queue' = queue
    /\ UNCHANGED <<closed, wake, cvars, ecall, events, wvars, rpc, stop, hvars>>

(* ... and the token.  `call' then blocks on its channel. *)
WakeWriter ==
    /\ epc = "wake"
    /\ wake' = wake + 1
    /\ epc' = IF ecall \in WaitCalls THEN "wait" ELSE "run"
    /\ ecall' = IF ecall \in WaitCalls THEN ecall ELSE NoCall
    /\ UNCHANGED <<closed, queue, cvars, events, wvars, rpc, stop, hvars>>

(* The send failed: take the entry back, and run the callback only if the   *)
(* entry was still there.  `call' returns Closed.                           *)
Undo ==
    /\ epc = "undo"
    /\ IF ecall \in CallbackCalls /\ ecall \in pending
         THEN Answer({ecall}, "closed")
         ELSE pending' = pending \ {ecall} /\ UNCHANGED <<answer, fired>>
    /\ epc' = "run" /\ ecall' = NoCall
    /\ UNCHANGED <<closed, queue, wake, made, events, wvars, rpc, stop, hvars>>

(* The channel of a blocked call has its answer. *)
CallReturns ==
    /\ epc = "wait" /\ answer[ecall] # "none"
    /\ epc' = "run" /\ ecall' = NoCall
    /\ UNCHANGED <<closed, queue, wake, cvars, events, wvars, rpc, stop, hvars>>

-----------------------------------------------------------------------------
(* The session loop *)

(* send_to_browser (BlockingSender::try_send) with room, and its token. *)
Publish ==
    /\ epc = "run" /\ events < MaxEvents
    /\ ~ closed /\ wpc # "done" /\ Len(queue) < Cap
    /\ queue' = Append(queue, Event)
    /\ events' = events + 1
    /\ epc' = "token"
    /\ UNCHANGED <<closed, wake, cvars, ecall, wvars, rpc, stop, hvars>>

(* A full lane disconnects: the flag, then a token. *)
PublishFull ==
    /\ epc = "run" /\ events < MaxEvents
    /\ ~ closed /\ wpc # "done" /\ Len(queue) = Cap
    /\ closed' = TRUE
    /\ events' = events + 1
    /\ epc' = "lasttoken"
    /\ UNCHANGED <<queue, wake, cvars, ecall, wvars, rpc, stop, hvars>>

Token ==
    /\ epc \in {"token", "lasttoken"}
    /\ wake' = wake + 1
    /\ epc' = IF epc = "token" THEN "run" ELSE "ended"
    /\ stop' = (stop \/ epc = "lasttoken")
    /\ UNCHANGED <<closed, queue, cvars, ecall, events, wvars, rpc, hvars>>

(* The loop ends: stop is set, Shutdown is in the inbox, or a send failed. *)
LoopEnds ==
    /\ epc = "run" /\ (stop \/ closed \/ wpc = "done")
    /\ epc' = "ended" /\ stop' = TRUE
    /\ UNCHANGED <<closed, queue, wake, cvars, ecall, events, wvars, rpc, hvars>>

(* The loop ends although both threads are well: take_browser_events failed *)
(* or an assignment came twice.                                             *)
LoopFails ==
    /\ epc = "run" /\ ~ stop /\ ~ closed /\ wpc # "done"
    /\ epc' = "ended" /\ stop' = TRUE
    /\ UNCHANGED <<closed, queue, wake, cvars, ecall, events, wvars, rpc, hvars>>

-----------------------------------------------------------------------------
(* The writer thread: BlockingReceiver::recv and write_messages *)

RecvCheck ==
    /\ wpc = "check"
    /\ wpc' = IF closed THEN "done" ELSE "take"
    /\ UNCHANGED <<closed, queue, wake, cvars, evars, wframe, rpc, stop, hvars>>

RecvTake ==
    /\ wpc = "take"
    /\ \/ /\ queue # <<>>
          /\ wframe' = Head(queue) /\ queue' = Tail(queue) /\ wpc' = "write"
       \/ queue = <<>> /\ wpc' = "sleep" /\ UNCHANGED <<queue, wframe>>
    /\ UNCHANGED <<closed, wake, cvars, evars, rpc, stop, hvars>>

RecvSleep ==
    /\ wpc = "sleep" /\ wake > 0
    /\ wake' = wake - 1
    /\ wpc' = "check"
    /\ UNCHANGED <<closed, queue, cvars, evars, wframe, rpc, stop, hvars>>

(* The socket takes the frame, or is broken: the loop is stopped, the       *)
(* receiver dropped.                                                        *)
WriteFrame ==
    /\ wpc = "write"
    /\ \/ /\ host
          /\ wire' = IF wframe \in Calls THEN wire \cup {wframe} ELSE wire
          /\ wpc' = "check" /\ stop' = stop
       \/ ~ host /\ wpc' = "done" /\ stop' = TRUE /\ wire' = wire
    /\ wframe' = NoCall
    /\ UNCHANGED <<closed, queue, wake, cvars, evars, rpc, host>>

-----------------------------------------------------------------------------
(* The reader thread: read_messages *)

(* A reply: BlockingClient::deliver. *)
Deliver(c) ==
    /\ rpc = "read" /\ host /\ c \in wire
    /\ wire' = wire \ {c}
    /\ IF c \in pending THEN Answer({c}, "ok") ELSE UNCHANGED <<pending, answer, fired>>
    /\ UNCHANGED <<closed, queue, wake, made, evars, wvars, rpc, stop, host>>

(* Shutdown, EOF, or a frame that does not decode: stop.request() ... *)
ReadEnds ==
    /\ rpc = "read"
    /\ stop' = TRUE
    /\ rpc' = "close"
    /\ UNCHANGED <<closed, queue, wake, cvars, evars, wvars, hvars>>

(* ... client.close(): disconnect (the flag, a token) ... *)
CloseFlag ==
    /\ rpc = "close"
    /\ closed' = TRUE
    /\ rpc' = "token"
    /\ UNCHANGED <<queue, wake, cvars, evars, wvars, stop, hvars>>

CloseToken ==
    /\ rpc = "token"
    /\ wake' = wake + 1
    /\ rpc' = "drain"
    /\ UNCHANGED <<closed, queue, cvars, evars, wvars, stop, hvars>>

(* ... then every pending call is answered with Closed, under the lock. *)
CloseDrain ==
    /\ rpc = "drain"
    /\ Answer(pending, "closed")
    /\ rpc' = "done"
    /\ UNCHANGED <<closed, queue, wake, made, evars, wvars, stop, hvars>>

(* The browser goes away (exit, crash, kill of the link). *)
HostGone ==
    /\ host
    /\ host' = FALSE
    /\ UNCHANGED <<closed, queue, wake, cvars, evars, wvars, rpc, stop, wire>>

-----------------------------------------------------------------------------
Init ==
    /\ closed = FALSE /\ queue = <<>> /\ wake = 0
    /\ pending = {} /\ made = {}
    /\ answer = [c \in Calls |-> "none"] /\ fired = [c \in Calls |-> 0]
    /\ epc = "run" /\ ecall = NoCall /\ events = 0
    /\ wpc = "check" /\ wframe = NoCall
    /\ rpc = "read" /\ stop = FALSE
    /\ host = TRUE /\ wire = {}

CallStep ==
    \/ CheckClosed
    \/ PushCall
    \/ WakeWriter
    \/ Undo
    \/ CallReturns

Engine ==
    \/ \E c \in Calls : StartCall(c)
    \/ CallStep
    \/ Publish
    \/ PublishFull
    \/ Token
    \/ LoopEnds
    \/ LoopFails

Writer ==
    \/ RecvCheck
    \/ RecvTake
    \/ RecvSleep
    \/ WriteFrame

Closing ==
    \/ CloseFlag
    \/ CloseToken
    \/ CloseDrain

Next ==
    \/ Engine
    \/ Writer
    \/ \E c \in Calls : Deliver(c)
    \/ ReadEnds
    \/ Closing
    \/ HostGone

Spec == Init /\ [][Next]_vars

(* Threads that can run are run; the loop looks at `stop' between turns.    *)
(* The browser answers what it has received while it lives, and the reader  *)
(* sees EOF after it is gone; it owes no Shutdown.                          *)
ChildFairness ==
    /\ WF_vars(CallStep) /\ WF_vars(Token) /\ WF_vars(LoopEnds)
    /\ WF_vars(Writer) /\ WF_vars(Closing)
    /\ \A c \in Calls : WF_vars(Deliver(c))
    /\ WF_vars(~ host /\ ReadEnds)

FairSpec == Spec /\ ChildFairness

-----------------------------------------------------------------------------
TypeOK ==
    /\ closed \in BOOLEAN /\ stop \in BOOLEAN /\ host \in BOOLEAN
    /\ queue \in Seq(Calls \cup {Event}) /\ Len(queue) <= Cap
    /\ wake \in Nat /\ events \in 0..MaxEvents
    /\ pending \subseteq Calls /\ made \subseteq Calls /\ wire \subseteq Calls
    /\ answer \in [Calls -> {"none", "ok", "closed"}]
    /\ fired \in [Calls -> Nat]
    /\ epc \in {"run", "check", "push", "wake", "undo", "wait", "token", "lasttoken", "ended"}
    /\ ecall \in Calls \cup {NoCall}
    /\ epc \in {"check", "push", "wake", "undo", "wait"} => ecall \in Calls
    /\ wpc \in {"check", "take", "sleep", "write", "done"}
    /\ wframe \in Calls \cup {Event, NoCall}
    /\ rpc \in {"read", "close", "token", "drain", "done"}

(* BlockingClient::close against `start': once the reader is done, nobody   *)
(* waits for an answer that cannot come, wherever the call was when the     *)
(* channel closed.                                                          *)
NoLostWaiter == rpc = "done" /\ epc = "wait" => answer[ecall] # "none"

(* A callback runs at most once, and exactly once when its call is over and *)
(* the client closed: neither start's error path nor close repeats or       *)
(* forgets it.                                                              *)
CallbackOnce ==
    \A c \in CallbackCalls \cap made :
        /\ fired[c] <= 1
        /\ rpc = "done" /\ ecall # c => fired[c] = 1

(* The writer never sleeps on work: when a frame or the closed flag is      *)
(* there, so is a token, or the thread that is about to send one.           *)
NoLostWakeup ==
    wpc = "sleep" /\ (queue # <<>> \/ closed) =>
        wake > 0 \/ epc \in {"wake", "token", "lasttoken"} \/ rpc = "token"

\* What the threads of a child owe each other while the channel closes under
\* them: no waiter, callback or wake-up is lost or repeated.
ChildSafe ==
    TypeOK /\ NoLostWaiter /\ CallbackOnce /\ NoLostWakeup

(* "waiting here never blocks transport progress": a synchronous call       *)
(* returns, with an answer or with Closed.                                  *)
SyncCallReturns == epc = "check" ~> epc \in {"run", "ended"}

(* "A renderer must not outlive its browser": when the browser is gone or   *)
(* has asked for Shutdown, loop and writer end, so the process does.        *)
ChildExits == (~ host \/ rpc # "read") ~> (epc = "ended" /\ wpc = "done")

=============================================================================
