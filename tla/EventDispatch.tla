---------------------------- MODULE EventDispatch ----------------------------
(***************************************************************************)
(* Event listeners and the dispatch algorithm of js/events.rs.             *)
(*                                                                         *)
(* An event travels along its path, root to target for capturing listeners *)
(* and target to root for the others, and then to the handler attributes.  *)
(* At every target the dispatch takes a snapshot of the listener list and  *)
(* calls page code from it; page code may add and remove listeners, abort  *)
(* the signal a listener was added with, stop the event, or dispatch       *)
(* another event, so dispatches nest.                                      *)
(***************************************************************************)
EXTENDS Naturals, Sequences, SequencesExt

CONSTANTS
    Path,         \* the event path, target first
    Handled,      \* targets with a handler attribute
    Callbacks,    \* page functions
    ListenerOptions,      \* the options page code passes: capture, once, signal
    Events,       \* event objects, all of one type
    Bubbling,     \* the events that bubble
    MaxActs,      \* bound on what page code does in one outermost dispatch
    MaxListeners  \* bound on the listeners of one path

ASSUME PathAssumption == Path # <<>> /\ IsInjective(Path) /\ Handled \subseteq Range(Path)
ASSUME ListenerAssumption ==
    \A o \in ListenerOptions : DOMAIN o = {"capture", "once", "signal"}
                         /\ o.capture \in BOOLEAN /\ o.once \in BOOLEAN
ASSUME BubblingAssumption == Bubbling \subseteq Events
ASSUME DispatchBounds == MaxActs \in Nat /\ MaxListeners \in Nat \ {0}

VARIABLES
    lists,       \* the listeners of each target
    aborted,     \* the signals that are aborted
    flags,       \* of each event: dispatching, stop_propagation, stop_immediate
    dispatches,  \* the running dispatches, innermost first (inTime: the snapshot
                 \* was taken before the event was stopped)
    current,     \* window.event
    acts         \* what page code did in this outermost dispatch

edVars == <<lists, aborted, flags, dispatches, current, acts>>

EventTargets == Range(Path)
Signals == {o.signal : o \in ListenerOptions} \ {"none"}
NoSignal == "none"
Plainly == [capture |-> FALSE, once |-> FALSE, signal |-> NoSignal]

\* What a dispatch calls; a listener of a list that has a twin in a snapshot is the same
\* object unless the twin is marked removed.
Listener(callback, options) ==
    [callback |-> callback, capture |-> options.capture, once |-> options.once,
     signal |-> options.signal, removed |-> FALSE]
Nothing == Listener("none", Plainly)
Handler == Listener("handler", Plainly)

Aborted(listener) == listener.signal \in aborted
SameListener(l, m) == l.callback = m.callback /\ l.capture = m.capture

\* remove_listener and the removed flag: out of the list, and marked in the snapshots.
Without(list, gone) == SelectSeq(list, LAMBDA l : ~ \E m \in gone : SameListener(l, m))
\* Mutant: a removal does not reach the snapshots.
MarkedNowhere(running, target, gone) == running
Marked(running, target, gone) ==
    [i \in DOMAIN running |->
        IF running[i].at.target # target THEN running[i]
        ELSE [running[i] EXCEPT !.snapshot =
                [j \in DOMAIN @ |-> IF \E m \in gone : SameListener(@[j], m)
                                    THEN [@[j] EXCEPT !.removed = TRUE] ELSE @[j]]]]

-----------------------------------------------------------------------------
(* Dispatch *)

\* The stops of run_invocations: a target and whether capturing listeners run there.
Stops(event) ==
    [i \in 1..Len(Path) |-> [target |-> Path[Len(Path) + 1 - i], capturing |-> TRUE]]
    \o [i \in 1..(IF event \in Bubbling THEN Len(Path) ELSE 1) |->
            [target |-> Path[i], capturing |-> FALSE]]

\* The targets whose handler attributes run when nobody stopped the event.
HandlerStops(event) ==
    SelectSeq(IF event \in Bubbling THEN Path ELSE SubSeq(Path, 1, 1),
              LAMBDA t : t \in Handled)

Running == dispatches # <<>>
Inner == Head(dispatches)
ScriptRuns == Running => Inner.calling # Nothing
Stopped(event) == flags[event].stop

ListenerAct == ScriptRuns /\ acts < MaxActs /\ acts' = acts + 1

\* dispatchEvent; an event on its way is refused with InvalidStateError.
DispatchEvent(event) ==
    /\ ListenerAct
    /\ ~flags[event].dispatching
    /\ flags' = [flags EXCEPT ![event].dispatching = TRUE]
    /\ dispatches' = <<[event |-> event, stops |-> Stops(event), handlers |-> <<>>,
                        at |-> [target |-> Path[1], capturing |-> FALSE],
                        snapshot |-> <<>>, inTime |-> TRUE, calling |-> Nothing,
                        previous |-> current]>>
                        \o dispatches
    /\ current' = event
    /\ UNCHANGED <<lists, aborted>>

\* invoke: go to the next target unless the event was stopped.
NextStop ==
    /\ Running /\ Inner.calling = Nothing /\ Inner.snapshot = <<>> /\ Inner.stops # <<>>
    /\ LET stop  == Head(Inner.stops)
           taken == IF Stopped(Inner.event) THEN <<>> ELSE lists[stop.target]
       IN dispatches' = [dispatches EXCEPT
            ![1].stops = Tail(@), ![1].at = stop, ![1].snapshot = taken,
            ![1].inTime = ~Stopped(Inner.event)]
    /\ UNCHANGED <<lists, aborted, flags, current, acts>>

\* The listener is left out: removed meanwhile, for the other phase, or its signal aborted.
Skipped(listener, at) ==
    listener.removed \/ listener.capture # at.capturing \/ Aborted(listener)

\* One listener of the snapshot: skipped, or called; one added with "once" is removed
\* before its call, and one whose signal is aborted instead of it.
NextListener ==
    /\ Running /\ Inner.calling = Nothing /\ Inner.snapshot # <<>>
    /\ LET listener == Head(Inner.snapshot)
           at       == Inner.at
           gone     == IF /\ ~listener.removed /\ listener.capture = at.capturing
                          /\ Aborted(listener) \/ listener.once
                       THEN {listener} ELSE {}
           rest     == [dispatches EXCEPT ![1].snapshot = Tail(@),
                           ![1].calling = IF Skipped(listener, at) THEN Nothing ELSE listener]
       IN /\ dispatches' = Marked(rest, at.target, gone)
          /\ lists' = [lists EXCEPT ![at.target] = Without(@, gone)]
    /\ UNCHANGED <<aborted, flags, current, acts>>

\* The callback returns, or throws and is reported: stopImmediatePropagation ends the list.
CallReturns ==
    /\ Running /\ Inner.calling # Nothing
    /\ dispatches' = [dispatches EXCEPT ![1].calling = Nothing,
          ![1].snapshot = IF flags[Inner.event].now THEN <<>> ELSE @,
          ![1].handlers = IF Inner.calling # Handler THEN @
                          ELSE IF Stopped(Inner.event) THEN <<>> ELSE Tail(@)]
    /\ UNCHANGED <<lists, aborted, flags, current, acts>>

ListenersDone == Running /\ Inner.calling = Nothing /\ Inner.snapshot = <<>> /\ Inner.stops = <<>>

\* Handler attributes run after every listener.
StartHandlers ==
    /\ ListenersDone /\ Inner.at.target # "handlers"
    /\ ~Stopped(Inner.event) /\ HandlerStops(Inner.event) # <<>>
    /\ dispatches' = [dispatches EXCEPT ![1].at = [target |-> "handlers", capturing |-> FALSE],
                                       ![1].handlers = HandlerStops(Inner.event),
                                       ![1].calling = Handler]
    /\ UNCHANGED <<lists, aborted, flags, current, acts>>

NextHandler ==
    /\ ListenersDone /\ Inner.at.target = "handlers" /\ Inner.handlers # <<>>
    /\ dispatches' = [dispatches EXCEPT ![1].calling = Handler]
    /\ UNCHANGED <<lists, aborted, flags, current, acts>>

\* The end clears the event's flags and restores window.event.
Cleared == [dispatching |-> FALSE, stop |-> FALSE, now |-> FALSE]

DispatchEnds ==
    /\ ListenersDone /\ Inner.handlers = <<>>
    /\ \/ Inner.at.target = "handlers"
       \/ Stopped(Inner.event) \/ HandlerStops(Inner.event) = <<>>
    /\ flags' = [flags EXCEPT ![Inner.event] = Cleared]
    /\ current' = Inner.previous
    /\ dispatches' = Tail(dispatches)
    /\ acts' = IF Len(dispatches) = 1 THEN 0 ELSE acts
    /\ UNCHANGED <<lists, aborted>>

-----------------------------------------------------------------------------
(* What page code does *)

\* add_listener_parsed_in: listeners whose signal is aborted are dropped first, but the
\* comparison with the new one still looks at them.
AddListener(target, callback, options) ==
    LET new      == Listener(callback, options)
        existing == lists[target]
        stale    == {l \in Range(existing) : Aborted(l)}
        twin     == \E l \in Range(existing) : SameListener(l, new)
        kept     == Without(existing, stale)
    IN /\ ListenerAct
       /\ ~Aborted(new)
       /\ FoldLeft(LAMBDA n, t : n + Len(lists[t]), 0, Path) < MaxListeners
       /\ lists' = [lists EXCEPT ![target] = IF twin THEN kept ELSE Append(kept, new)]
       /\ dispatches' = Marked(dispatches, target, stale)
       /\ UNCHANGED <<aborted, flags, current>>

RemoveListener(target, callback, capture) ==
    /\ ListenerAct
    /\ LET gone == {l \in Range(lists[target]) : l.callback = callback /\ l.capture = capture}
       IN /\ lists' = [lists EXCEPT ![target] = Without(@, gone)]
          /\ dispatches' = Marked(dispatches, target, gone)
    /\ UNCHANGED <<aborted, flags, current>>

AbortSignal(signal) ==
    /\ ListenerAct
    /\ aborted' = aborted \cup {signal}
    /\ UNCHANGED <<lists, flags, dispatches, current>>

StopPropagation(event, now) ==
    /\ ListenerAct
    /\ flags' = [flags EXCEPT ![event].stop = TRUE, ![event].now = @ \/ now]
    /\ UNCHANGED <<lists, aborted, dispatches, current>>

\* initEvent: ignored while the event is on its way.
InitEvent(event) ==
    /\ ListenerAct
    /\ flags' = IF flags[event].dispatching THEN flags ELSE [flags EXCEPT ![event] = Cleared]
    /\ UNCHANGED <<lists, aborted, dispatches, current>>

EventInit ==
    /\ lists = [t \in EventTargets |-> <<>>]
    /\ aborted = {}
    /\ flags = [e \in Events |-> Cleared]
    /\ dispatches = <<>>
    /\ current = "undefined"
    /\ acts = 0

EventNext ==
    \/ \E e \in Events :
          \/ DispatchEvent(e) \/ InitEvent(e)
          \/ \E now \in BOOLEAN : StopPropagation(e, now)
    \/ NextStop \/ NextListener \/ CallReturns \/ StartHandlers \/ NextHandler \/ DispatchEnds
    \/ \E t \in EventTargets, c \in Callbacks, capture \in BOOLEAN :
          \/ RemoveListener(t, c, capture)
          \/ \E o \in ListenerOptions : o.capture = capture /\ AddListener(t, c, o)
    \/ \E s \in Signals : AbortSignal(s)

EventSpec == EventInit /\ [][EventNext]_edVars

-----------------------------------------------------------------------------
\* Types of the lists, the flags and the running dispatches.
EventTypeOK ==
    /\ \A t \in EventTargets : Len(lists[t]) <= MaxListeners
                               /\ \A l \in Range(lists[t]) : l.callback \in Callbacks
    /\ aborted \subseteq Signals
    /\ flags \in [Events -> [dispatching : BOOLEAN, stop : BOOLEAN, now : BOOLEAN]]
    /\ \A i \in DOMAIN dispatches : dispatches[i].event \in Events
    /\ current \in Events \cup {"undefined"}
    /\ acts \in 0..MaxActs

\* No list holds the same callback twice for one phase, and a list holds nothing that
\* is marked removed: both halves of a removal happen together.
ListsAreClean ==
    \A t \in EventTargets : \A i, j \in DOMAIN lists[t] :
        /\ SameListener(lists[t][i], lists[t][j]) => i = j
        /\ ~lists[t][i].removed

\* A snapshot entry that is not marked is still in the list: an entry removed while a
\* dispatch is under way cannot be called by it.
SnapshotsKnowRemovals ==
    \A i \in DOMAIN dispatches : \A l \in Range(dispatches[i].snapshot) :
        l.removed \/ l \in Range(lists[dispatches[i].at.target])

\* An event is marked as on its way exactly while one dispatch carries it, so it can be
\* dispatched again afterwards, stopped or not.
FlaggedWhileDispatched ==
    \A e \in Events :
        LET carrying == {i \in DOMAIN dispatches : dispatches[i].event = e}
        IN flags[e].dispatching <=> (\E i \in carrying : carrying = {i})

\* window.event is the innermost dispatch's event and undefined when none runs.
CurrentEventIsInnermost == current = IF Running THEN Inner.event ELSE "undefined"

\* Listener lists, snapshots and the marks of running dispatches agree, however
\* listeners change listeners and dispatch again.
DispatchSafe ==
    /\ EventTypeOK /\ ListsAreClean /\ SnapshotsKnowRemovals /\ FlaggedWhileDispatched
    /\ CurrentEventIsInnermost

Called == dispatches' # <<>> /\ Len(dispatches') = Len(dispatches)
            /\ Inner.calling = Nothing /\ Head(dispatches').calling \notin {Nothing, Handler}

\* A callback runs only while its listener is registered and its signal not aborted, and
\* one registered with "once" is gone by the time it runs: a dispatch nested in it, or
\* one it interrupted, never calls it again.
CallIsLive ==
    Called => LET l == Head(dispatches').calling
                  t == Inner.at.target
              IN /\ l \in Range(lists[t]) /\ ~Aborted(l)
                 /\ l.once => l \notin Range(lists'[t])

\* Once an event is stopped, no other target hears it: only the rest of the list the
\* stopping callback belongs to may still run, and after stopImmediatePropagation not
\* even that; the handler attributes run only for an event nobody stopped.
StopHolds ==
    /\ Called /\ Stopped(Inner.event) =>
          Inner.inTime /\ ~flags[Inner.event].now
    /\ (Running /\ Inner.calling = Nothing /\ dispatches' # <<>>
           /\ Len(dispatches') = Len(dispatches) /\ Head(dispatches').calling = Handler)
          => ~Stopped(Inner.event)

\* Whom a dispatch never calls.
DispatchSteps == [CallIsLive /\ StopHolds]_edVars
=============================================================================
