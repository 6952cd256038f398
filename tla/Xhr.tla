-------------------------------- MODULE Xhr --------------------------------
(***************************************************************************)
(* One XMLHttpRequest object (js/scripts/web/xhr.js).  Its methods fire    *)
(* events in the middle of their work, and the page's listeners may call   *)
(* its methods again from there.  `running` is the stack of the calls that *)
(* are inside a dispatch: the page either makes another call or returns,   *)
(* and then the top call goes on from the event it fired.                  *)
(*                                                                         *)
(* A send is a number; a response is the number of the send it answers.    *)
(***************************************************************************)
EXTENDS Naturals, Sequences

CONSTANTS
    MaxSends,       \* bound: calls of send
    MaxGenerations, \* bound: cancellations, by open, abort and errors
    MaxRunning      \* bound: nested calls

ASSUME XhrBounds == {MaxSends, MaxGenerations, MaxRunning} \subseteq Nat

VARIABLES
    xhr,        \* the slot record of the object
    answering,  \* callbacks in __tb_fetchCbs, [send, generation]: requests the network still owes an outcome
    running,    \* calls that wait for the listeners of an event, the last one innermost
    sends,      \* calls of send so far
    fired       \* fired[s]: the events fired for send s

xhrVars == <<xhr, answering, running, sends, fired>>

NoTimer == 0
Fresh == [state |-> 0, sent |-> FALSE, generation |-> 0, request |-> 0, timer |-> NoTimer,
          timeout |-> FALSE, sync |-> FALSE, response |-> 0, of |-> 0]

XhrInit ==
    /\ xhr = Fresh
    /\ answering = {}
    /\ running = <<>>
    /\ sends = 0
    /\ fired = [s \in 1..MaxSends |-> <<>>]

Endings == {"load", "error", "abort", "timeout"}

------------------------------------------------------------------------------
(* Helpers of the script.                                                    *)

\* __tbXhrCancel: the callback of the request in flight is deleted
AfterCancel(x) == [x EXCEPT !.generation = @ + 1, !.request = 0, !.timer = NoTimer]
CallbacksKept(x) == answering
CallbacksWithout(x) == {r \in answering : r.send # x.request}

\* __tbXhrResetResponse
AfterReset(x) == [AfterCancel(x) EXCEPT !.sent = FALSE, !.state = 4, !.response = 0]

\* __tbXhrTimeout: a timer carries the generation it was set in, one up so
\* that none is 0
WithTimer(x) == [x EXCEPT !.timer = IF x.sent /\ x.timeout THEN x.generation + 1 ELSE NoTimer]

\* Fires an event for a send; the call goes on as `then` says.
Call(at, s, g) == [at |-> at, send |-> s, generation |-> g, ending |-> "none", abort |-> FALSE, body |-> FALSE]
Fires(s, e) == fired' = IF s = 0 \/ e = "readystatechange" THEN fired ELSE [fired EXCEPT ![s] = Append(@, e)]

Callers == SubSeq(running, 1, Len(running) - 1)
Top == running[Len(running)]
Enter(call) == running' = Append(running, call)
GoOn(call) == running' = Append(Callers, call)
Return == running' = Callers

\* __tbXhrError: readystatechange is fired for the new state, then the ending
\* and loadend, whatever the listeners do in between.  `frames` are the calls
\* around it.
ErrorSteps(frames, ending, abort) ==
    /\ xhr.generation < MaxGenerations
    /\ xhr' = AfterReset(xhr)
    /\ answering' = CallbacksWithout(xhr)
    /\ running' = Append(frames, [Call("failed", xhr.of, 0) EXCEPT !.ending = ending, !.abort = abort])
    /\ UNCHANGED fired

------------------------------------------------------------------------------
(* The page's calls: from a task, or from a listener of the top call.        *)

CanCall == Len(running) < MaxRunning

Reopened(x, sync) == [AfterCancel(x) EXCEPT !.sync = sync, !.sent = FALSE, !.response = 0, !.state = 1]

\* open
OpenXhr(sync) ==
    /\ CanCall
    /\ xhr.generation < MaxGenerations
    /\ ~(sync /\ xhr.timeout)
    /\ xhr' = Reopened(xhr, sync)
    /\ answering' = CallbacksWithout(xhr)
    /\ IF xhr.state # 1 THEN Enter(Call("opened", 0, 0)) ELSE UNCHANGED running
    /\ UNCHANGED <<sends, fired>>

\* send, as far as the loadstart event
SendXhr ==
    /\ CanCall
    /\ xhr.state = 1 /\ ~xhr.sent
    /\ sends < MaxSends
    /\ sends' = sends + 1
    /\ xhr' = [xhr EXCEPT !.sent = TRUE, !.of = sends + 1]
    /\ Fires(sends + 1, "loadstart")
    /\ Enter(Call("started", sends + 1, xhr.generation))
    /\ UNCHANGED answering

AbortApplies(x) == x.sent \/ x.state \in {2, 3}

\* abort: a request on its way fails with an abort event; otherwise only the
\* response is dropped
AbortXhr ==
    /\ CanCall
    /\ IF AbortApplies(xhr)
       THEN ErrorSteps(running, "abort", TRUE)
       ELSE /\ xhr.generation < MaxGenerations
            /\ xhr' = [AfterCancel(xhr) EXCEPT !.response = 0, !.state = IF @ = 4 THEN 0 ELSE @]
            /\ answering' = CallbacksWithout(xhr)
            /\ UNCHANGED <<running, fired>>
    /\ UNCHANGED sends

\* the timeout attribute
SetTimeout(on) ==
    /\ CanCall
    /\ ~xhr.sync /\ xhr.timeout # on
    /\ xhr' = WithTimer([xhr EXCEPT !.timeout = on])
    /\ UNCHANGED <<answering, running, sends, fired>>
------------------------------------------------------------------------------
(* The calls go on when the listeners of their event return.                 *)

\* The same request is still the one the object is sending.
StillSending(x, call) == x.generation = call.generation /\ x.sent
StillAt(x, call, state) == StillSending(x, call) /\ x.state = state

\* __tbXhrFinish up to its first event; a synchronous one visits no state
\* before done.  The request has left the table.
Done(x) == [x EXCEPT !.timer = NoTimer, !.state = 4, !.sent = FALSE]
Finish(frames, call) ==
    /\ running' = Append(frames, call)
    /\ xhr' = IF call.at = "done" THEN Done([xhr EXCEPT !.request = 0, !.response = call.send])
                                  ELSE [xhr EXCEPT !.request = 0, !.state = 2]
    /\ UNCHANGED fired

ReturnOnly == Return /\ UNCHANGED <<xhr, answering, fired>>

\* open, after its event
Opened == Top.at = "opened" /\ ReturnOnly

\* send, after loadstart: a synchronous request is answered here, or fails
\* without an event; an asynchronous one is queued and its timer set
Started ==
    /\ Top.at = "started"
    /\ \/ ~(xhr.state = 1 /\ StillSending(xhr, Top)) /\ ReturnOnly
       \/ /\ StillAt(xhr, Top, 1) /\ xhr.sync
          /\ \/ Finish(Callers, [Top EXCEPT !.at = "done"]) /\ UNCHANGED answering
             \/ ErrorSteps(Callers, "error", FALSE)
             \/ /\ xhr.generation < MaxGenerations
                /\ Return /\ xhr' = AfterReset(xhr) /\ UNCHANGED <<answering, fired>>
       \/ /\ StillAt(xhr, Top, 1) /\ ~xhr.sync
          /\ Return
          /\ xhr' = WithTimer([xhr EXCEPT !.request = Top.send])
          /\ answering' = answering \cup {[send |-> Top.send, generation |-> Top.generation]}
          /\ UNCHANGED fired

\* __tbXhrError, after each of its events
Failed ==
    \/ /\ Top.at = "failed"
       /\ Fires(Top.send, Top.ending)
       /\ GoOn([Top EXCEPT !.at = "ended"])
       /\ UNCHANGED <<xhr, answering>>
    \/ /\ Top.at = "ended"
       /\ Fires(Top.send, "loadend")
       /\ GoOn([Top EXCEPT !.at = "over"])
       /\ UNCHANGED <<xhr, answering>>
    \/ /\ Top.at = "over"
       /\ Return
       /\ xhr' = IF Top.abort /\ xhr.state = 4 THEN [xhr EXCEPT !.state = 0] ELSE xhr
       /\ UNCHANGED <<answering, fired>>

\* __tbXhrFinish, after readystatechange for the headers, for the body, and
\* after progress
Received ==
    \/ /\ Top.at = "headers"
       /\ \/ ~StillAt(xhr, Top, 2) /\ ReturnOnly
          \/ /\ StillAt(xhr, Top, 2)
             /\ IF Top.body
                THEN /\ xhr' = [xhr EXCEPT !.response = Top.send, !.state = 3]
                     /\ GoOn([Top EXCEPT !.at = "loading"])
                ELSE /\ xhr' = Done([xhr EXCEPT !.response = Top.send])
                     /\ GoOn([Top EXCEPT !.at = "done"])
             /\ UNCHANGED <<answering, fired>>
    \/ /\ Top.at = "loading"
       /\ \/ ~StillAt(xhr, Top, 3) /\ ReturnOnly
          \/ /\ StillAt(xhr, Top, 3)
             /\ Fires(Top.send, "progress")
             /\ GoOn([Top EXCEPT !.at = "progress"])
             /\ UNCHANGED <<xhr, answering>>
    \/ /\ Top.at = "progress"
       /\ \/ ~StillAt(xhr, Top, 3) /\ ReturnOnly
          \/ /\ StillAt(xhr, Top, 3)
             /\ xhr' = Done(xhr)
             /\ GoOn([Top EXCEPT !.at = "done"])
             /\ UNCHANGED <<answering, fired>>

\* __tbXhrFinish, after readystatechange for the end, load and loadend
Completed ==
    \/ /\ Top.at = "done"
       /\ \/ ~(xhr.generation = Top.generation /\ xhr.state = 4) /\ ReturnOnly
          \/ /\ xhr.generation = Top.generation /\ xhr.state = 4
             /\ Fires(Top.send, "load")
             /\ GoOn([Top EXCEPT !.at = "loaded"])
             /\ UNCHANGED <<xhr, answering>>
    \/ /\ Top.at = "loaded"
       /\ Fires(Top.send, "loadend")
       /\ GoOn([Top EXCEPT !.at = "finished"])
       /\ UNCHANGED <<xhr, answering>>
    \/ Top.at = "finished" /\ ReturnOnly

ListenersReturn ==
    /\ running # <<>>
    /\ Opened \/ Started \/ Failed \/ Received \/ Completed
    /\ UNCHANGED sends

------------------------------------------------------------------------------
(* Tasks of the event loop.                                                  *)

\* The outcome of a request: its callback leaves the table and runs.  A body
\* that cannot be decoded goes straight to the error steps, a network error
\* after the check of the generation.
Outcome(r) ==
    /\ running = <<>>
    /\ \/ /\ xhr.generation < MaxGenerations
          /\ xhr' = AfterReset(xhr)
          /\ answering' = CallbacksWithout(xhr) \ {r}
          /\ Enter([Call("failed", xhr.of, 0) EXCEPT !.ending = "error"])
          /\ UNCHANGED fired
       \/ /\ answering' = answering \ {r}
          /\ IF StillSending(xhr, r)
             THEN \E body \in BOOLEAN : Finish(<<>>, [Call("headers", r.send, r.generation) EXCEPT !.body = body])
             ELSE UNCHANGED <<running, xhr, fired>>
    /\ UNCHANGED sends
Outcomes(s) == \E r \in answering : r.send = s /\ Outcome(r)

\* The timer of the object runs out.
TimerFires ==
    /\ running = <<>> /\ xhr.timer # NoTimer
    /\ IF xhr.sent /\ xhr.generation + 1 = xhr.timer
       THEN ErrorSteps(<<>>, "timeout", FALSE)
       ELSE xhr' = [xhr EXCEPT !.timer = NoTimer] /\ UNCHANGED <<answering, running, fired>>
    /\ UNCHANGED sends

XhrNext ==
    \/ \E b \in BOOLEAN : OpenXhr(b) \/ SetTimeout(b)
    \/ SendXhr \/ AbortXhr
    \/ ListenersReturn
    \/ \E s \in 1..MaxSends : Outcomes(s)
    \/ TimerFires

XhrSpec == XhrInit /\ [][XhrNext]_xhrVars

------------------------------------------------------------------------------
(* Properties.                                                               *)

XhrTypeOK ==
    /\ xhr.state \in 0..4 /\ xhr.generation \in 0..MaxGenerations
    /\ answering \subseteq [send : 1..MaxSends, generation : 0..MaxGenerations]
    /\ xhr.timer \in 0..(MaxGenerations + 1)
    /\ xhr.timer # NoTimer => xhr.sent
    /\ Len(running) <= MaxRunning + 1

\* A send ends once: at most one of load, error, abort and timeout, then at
\* most one loadend and nothing after it, however the listeners call back
\* into the object.
OneEnding ==
    \A s \in 1..MaxSends :
        LET log == fired[s]
            ends == {i \in 1..Len(log) : log[i] \in Endings}
        IN /\ \A i, j \in ends : i = j
           /\ \A i \in 1..Len(log) : log[i] = "loadend" => i = Len(log) /\ i - 1 \in ends
           /\ \A i \in ends : i >= Len(log) - 1

\* Only the response of the last send is ever shown, and only while the
\* object has not been opened again.
ResponseOfLastSend == xhr.response # 0 => xhr.response = xhr.of /\ xhr.state \in {3, 4, 0}

\* An object that says it is sending has a request that the network still
\* owes an answer, or one of its calls is still running: it can not wait for
\* nothing.
NeverForgotten ==
    xhr.sent =>
        \/ xhr.request = xhr.of /\ [send |-> xhr.of, generation |-> xhr.generation] \in answering
        \/ \E i \in 1..Len(running) : running[i].send = xhr.of /\ running[i].generation = xhr.generation

\* A request that was cancelled owes nothing: no callback of it is left that
\* could end the request that replaced it.
OnlyOneAwaited == \A r \in answering : r.send = xhr.request

\* An XMLHttpRequest whose listeners open, send and abort it again ends each
\* send once, shows its own response and never waits for nothing.
XhrSafe ==
    /\ XhrTypeOK /\ OneEnding /\ ResponseOfLastSend /\ NeverForgotten
    /\ OnlyOneAwaited

\* Between two cancellations readyState only rises, and 4 is left for 0 only
\* by an abort.
ReadyStateRises ==
    xhr'.generation = xhr.generation =>
       xhr'.state >= xhr.state \/ (xhr.state = 4 /\ xhr'.state = 0)

\* What every step of an XMLHttpRequest keeps.
XhrSteps == [ReadyStateRises]_xhrVars
==============================================================================
