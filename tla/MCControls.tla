------------------------------ MODULE MCControls ------------------------------
(* Event dispatch, clicks and select controls, three parts of one document   *)
(* that are checked side by side: the first state says which one runs, the   *)
(* others stay as they begin.                                                *)
EXTENDS EventDispatch, ClickActivation, SelectControl, TLC

CONSTANTS a, b, c

VARIABLE part

TargetAndRoot == <<"target", "root">>
Some(capture, once, signal) == [capture |-> capture, once |-> once, signal |-> signal]
ThreeOptions == {Some(TRUE, FALSE, "none"), Some(FALSE, TRUE, "none"), Some(FALSE, FALSE, "signal")}

\* Two options of which no action prefers one.
OptionSymmetry == Permutations({b, c})

ControlsInit ==
    /\ part \in {"event", "click", "select"}
    /\ EventInit /\ ClickInit /\ SelectInit
    /\ part # "click" => ticked = {}

ControlsNext ==
    \/ part = "event" /\ EventNext /\ UNCHANGED <<part, clickVars, selectVars>>
    \/ part = "click" /\ ClickNext /\ UNCHANGED <<part, edVars, selectVars>>
    \/ part = "select" /\ SelectNext /\ UNCHANGED <<part, edVars, clickVars>>

ControlsSpec == ControlsInit /\ [][ControlsNext]_<<part, edVars, clickVars, selectVars>>

\* No step calls a removed listener or a stopped event's next target, activates a
\* control twice or loses the focus silently, or shows an earlier selection.
ControlsSteps == [][DispatchSteps /\ ClickSteps /\ SelectSteps]_<<edVars, clickVars, selectVars>>
=============================================================================
