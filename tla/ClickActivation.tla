--------------------------- MODULE ClickActivation ---------------------------
(***************************************************************************)
(* Clicks and focus: click(), dispatched click events, the checkbox and    *)
(* radio activation around them and the focus update steps, as             *)
(* js/bindings/focus.rs and the end of dispatch in js/events.rs run them.  *)
(*                                                                         *)
(* Every event is a point where page code runs, and page code may click,   *)
(* focus, blur, disable, set checkedness or cancel the click that runs: so *)
(* the functions below are frames of a stack, and a frame's "at" names the *)
(* event it is in or the step it takes next.                               *)
(***************************************************************************)
EXTENDS Naturals, Sequences, FiniteSets

CONSTANTS
    Radios,         \* radio buttons of one group
    Boxes,          \* checkboxes
    Label,          \* a label element
    LabelControl,   \* the control it labels
    Targets,        \* what is clicked and focused; page code checks and unchecks any control
    FocusoutMoves,  \* whether focusout listeners move the focus
    MaxClickActs    \* bound on what page code does in one task

Controls == Radios \cup Boxes
Clickable == Controls \cup {Label}
Nobody == "none"

ASSUME ControlsAssumption ==
    /\ Radios \cap Boxes = {} /\ Label \notin Controls /\ Nobody \notin Clickable
    /\ LabelControl \in Controls /\ Targets \subseteq Clickable
ASSUME ClickBounds == FocusoutMoves \in BOOLEAN /\ MaxClickActs \in Nat

VARIABLES
    ticked,            \* the controls whose checkedness is set
    focusedOn,         \* active_elements: the focused area of the document
    disabledOnes,      \* controls with a disabled attribute
    clicksInProgress,  \* nodes whose click() runs
    clickStack,        \* the running functions, innermost first
    focusTold,         \* what page code was told: the node that heard focus and no blur since
    clickActs          \* what page code did in this task

clickVars == <<ticked, focusedOn, disabledOnes, clicksInProgress, clickStack, focusTold, clickActs>>

\* What a canceled click restores (PreActivation); "other" is the group's earlier radio.
NoChange == [kind |-> "none"]
BoxWas(value) == [kind |-> "box", was |-> value]
RadioWas(other) == [kind |-> "radio", other |-> other]
PreActivations == {NoChange} \cup {BoxWas(v) : v \in BOOLEAN}
                    \cup {RadioWas(o) : o \in Radios \cup {Nobody}}

\* A frame. before and after are the checkedness around its pre-activation, budget the acts
\* page code had done by then.
Frame(fn, node) ==
    [fn |-> fn, node |-> node, at |-> "start", previous |-> NoChange, owns |-> FALSE,
     canceled |-> FALSE, before |-> {}, after |-> {}, budget |-> 0]

InPage == {"click", "input", "change", "blur", "lost", "focusout", "focus", "focusin"}
ClickTop == clickStack[1]
ClickPageRuns == clickStack # <<>> => ClickTop.at \in InPage

\* is_focusable: an input that is not disabled (the label has no tabindex).
Focusable(node) == node \in Controls \ disabledOnes

Going(at) == [clickStack EXCEPT ![1].at = at]
Entering(frame, at) == <<frame>> \o Going(at)
\* The innermost function returns; a dispatch tells its caller whether it was canceled.
Returning ==
    LET rest == Tail(clickStack) IN
    IF ClickTop.fn = "event" /\ rest # <<>> /\ rest[1].fn = "click()" /\ rest[1].at = "dispatching"
    THEN [rest EXCEPT ![1].canceled = ClickTop.canceled]
    ELSE rest

-----------------------------------------------------------------------------
(* Checkedness *)

\* set_checked: a radio that becomes checked unchecks the rest of its group.
Check(node) == IF node \in Radios THEN (ticked \ Radios) \cup {node} ELSE ticked \cup {node}

\* legacy_pre_activation: what the click will restore, and the checkedness handlers see.
Remembered(node) ==
    CASE node \in Boxes -> BoxWas(node \in ticked)
      [] node \in Radios \ ticked ->
            RadioWas(IF ticked \cap Radios = {} THEN Nobody
                     ELSE CHOOSE r \in ticked \cap Radios : TRUE)
      [] OTHER -> NoChange
PreActivated(node) ==
    IF node \in Boxes /\ node \in ticked THEN ticked \ {node}
    ELSE IF node \in Controls THEN Check(node) ELSE ticked

\* legacy_canceled_activation.
Restored(node, previous) ==
    CASE previous.kind = "box" -> IF previous.was THEN ticked \cup {node} ELSE ticked \ {node}
      [] previous.kind = "radio" -> (ticked \ {node}) \cup ({previous.other} \ {Nobody})
      [] OTHER -> ticked

\* complete_activation: the event that follows a click that was not canceled, if any. A
\* radio that was checked before the click is checked again when a handler unchecked it.
Toggles(node, previous) == previous = NoChange /\ node \in Controls \ ticked
Completed(node, previous) == IF Toggles(node, previous) THEN Check(node) ELSE ticked
CompletedAt(node, previous) ==
    IF previous # NoChange \/ Toggles(node, previous) THEN "input" ELSE "end"

-----------------------------------------------------------------------------
(* focus_node and blur_node *)

FocusNode(node, at) == clickStack' = Entering(Frame("focus", node), at)

\* The focused area is cleared before blur.
FocusStart ==
    /\ clickStack # <<>> /\ ClickTop.fn = "focus" /\ ClickTop.at = "start"
    /\ IF focusedOn = ClickTop.node
       THEN /\ clickStack' = Returning
            /\ UNCHANGED <<focusedOn, focusTold>>
       ELSE /\ focusedOn' = Nobody
            /\ clickStack' = Going(IF focusedOn = Nobody THEN "install" ELSE "blur")
            /\ focusTold' = IF focusedOn = Nobody THEN focusTold ELSE Nobody
    /\ UNCHANGED <<ticked, disabledOnes, clicksInProgress, clickActs>>

\* After the blur listeners: the steps stop when a listener moved the focus.
AfterBlur == IF focusedOn # Nobody THEN "lost" ELSE "focusout"
FocusBlurred ==
    /\ clickStack # <<>> /\ ClickTop.fn = "focus" /\ ClickTop.at = "blur"
    /\ clickStack' = Going(AfterBlur)
    /\ UNCHANGED <<ticked, focusedOn, disabledOnes, clicksInProgress, focusTold, clickActs>>

FocusGivenUp ==
    /\ clickStack # <<>> /\ ClickTop.fn = "focus" /\ ClickTop.at = "lost"
    /\ clickStack' = Returning
    /\ UNCHANGED <<ticked, focusedOn, disabledOnes, clicksInProgress, focusTold, clickActs>>

\* A target the listeners disabled is not designated.
\* Mutant: the new area is installed without its focus event.
FocusInstallSilently ==
    /\ clickStack # <<>> /\ ClickTop.fn = "focus" /\ ClickTop.at \in {"focusout", "install"}
    /\ IF Focusable(ClickTop.node)
       THEN focusedOn' = ClickTop.node /\ clickStack' = Returning
       ELSE clickStack' = Returning /\ UNCHANGED focusedOn
    /\ UNCHANGED <<ticked, disabledOnes, clicksInProgress, clickActs, focusTold>>
FocusInstall ==
    /\ clickStack # <<>> /\ ClickTop.fn = "focus" /\ ClickTop.at \in {"focusout", "install"}
    /\ IF Focusable(ClickTop.node)
       THEN /\ focusedOn' = ClickTop.node
            /\ focusTold' = ClickTop.node
            /\ clickStack' = Going("focus")
       ELSE /\ clickStack' = Returning
            /\ UNCHANGED <<focusedOn, focusTold>>
    /\ UNCHANGED <<ticked, disabledOnes, clicksInProgress, clickActs>>

FocusedIn ==
    /\ clickStack # <<>> /\ ClickTop.fn = "focus" /\ ClickTop.at \in {"focus", "focusin"}
    /\ clickStack' = IF ClickTop.at = "focus" THEN Going("focusin") ELSE Returning
    /\ UNCHANGED <<ticked, focusedOn, disabledOnes, clicksInProgress, focusTold, clickActs>>

BlurStep ==
    /\ clickStack # <<>> /\ ClickTop.fn = "blur()"
    /\ clickStack' = IF ClickTop.at = "blur" THEN Going("focusout") ELSE Returning
    /\ UNCHANGED <<ticked, focusedOn, disabledOnes, clicksInProgress, focusTold, clickActs>>

-----------------------------------------------------------------------------
(* element_click *)

\* After the guards and the mark: a focusable target is focused first.
ClickFocuses ==
    /\ clickStack # <<>> /\ ClickTop.fn \in {"click()", "webdriver"} /\ ClickTop.at = "start"
    /\ IF Focusable(ClickTop.node) THEN FocusNode(ClickTop.node, "focused")
       ELSE clickStack' = Going("focused")
    /\ UNCHANGED <<ticked, focusedOn, disabledOnes, clicksInProgress, focusTold, clickActs>>

\* Pre-activation, then the click event. A WebDriver click leaves both to the dispatch.
ClickDispatches ==
    /\ clickStack # <<>> /\ ClickTop.fn \in {"click()", "webdriver"} /\ ClickTop.at = "focused"
    /\ IF ClickTop.fn = "webdriver"
       THEN /\ clickStack' = Entering(Frame("event", ClickTop.node), "end")
            /\ UNCHANGED ticked
       ELSE /\ ticked' = PreActivated(ClickTop.node)
            /\ clickStack' =
                 <<Frame("event", ClickTop.node)>>
                 \o [clickStack EXCEPT ![1].at = "dispatching", ![1].before = ticked,
                                       ![1].after = ticked', ![1].budget = clickActs,
                                       ![1].previous = Remembered(ClickTop.node)]
    /\ UNCHANGED <<focusedOn, disabledOnes, clicksInProgress, focusTold, clickActs>>

\* The dispatch is over: complete or undo.
ClickSettles ==
    /\ clickStack # <<>> /\ ClickTop.fn = "click()" /\ ClickTop.at = "dispatching"
    /\ IF ClickTop.canceled
       THEN /\ ticked' = Restored(ClickTop.node, ClickTop.previous)
            /\ clickStack' = Going("end")
       ELSE /\ ticked' = Completed(ClickTop.node, ClickTop.previous)
            /\ clickStack' = Going(CompletedAt(ClickTop.node, ClickTop.previous))
    /\ UNCHANGED <<focusedOn, disabledOnes, clicksInProgress, focusTold, clickActs>>

\* click() ends on every path with its mark cleared.
ClickEnds ==
    /\ clickStack # <<>> /\ ClickTop.fn \in {"click()", "webdriver"} /\ ClickTop.at = "end"
    /\ clickStack' = Returning
    /\ clicksInProgress' = IF ClickTop.fn = "click()"
                           THEN clicksInProgress \ {ClickTop.node} ELSE clicksInProgress
    /\ UNCHANGED <<ticked, focusedOn, disabledOnes, focusTold, clickActs>>

\* input and change after a completed activation, whoever runs it.
CheckableEvents ==
    /\ clickStack # <<>> /\ ClickTop.fn \in {"click()", "event"} /\ ClickTop.at \in {"input", "change"}
    /\ clickStack' =
         Going(CASE ClickTop.at = "input" -> "change"
                 [] ClickTop.at = "change" /\ ClickTop.fn = "event" -> "label"
                 [] OTHER -> "end")
    /\ UNCHANGED <<ticked, focusedOn, disabledOnes, clicksInProgress, focusTold, clickActs>>

-----------------------------------------------------------------------------
(* dispatch of a click event *)

\* The dispatch runs the activation itself unless a click() of the node does.
\* Mutant: it always does.
DispatchActivatesAlways(node) == TRUE
DispatchActivates(node) == node \notin clicksInProgress
DispatchStarts ==
    /\ clickStack # <<>> /\ ClickTop.fn = "event" /\ ClickTop.at = "start"
    /\ LET owns == DispatchActivates(ClickTop.node) IN
       /\ ticked' = IF owns THEN PreActivated(ClickTop.node) ELSE ticked
       /\ clickStack' =
            [clickStack EXCEPT ![1].at = "click", ![1].owns = owns, ![1].before = ticked,
                               ![1].after = ticked', ![1].budget = clickActs,
                               ![1].previous = IF owns THEN Remembered(ClickTop.node) ELSE NoChange]
    /\ UNCHANGED <<focusedOn, disabledOnes, clicksInProgress, focusTold, clickActs>>

\* The listeners have returned.
DispatchSettles ==
    /\ clickStack # <<>> /\ ClickTop.fn = "event" /\ ClickTop.at = "click"
    /\ IF ClickTop.owns /\ ClickTop.canceled
       THEN /\ ticked' = Restored(ClickTop.node, ClickTop.previous)
            /\ clickStack' = Going("label")
       ELSE IF ClickTop.owns
       THEN /\ ticked' = Completed(ClickTop.node, ClickTop.previous)
            /\ clickStack' = Going(IF CompletedAt(ClickTop.node, ClickTop.previous) = "input"
                                   THEN "input" ELSE "label")
       ELSE /\ clickStack' = Going("label")
            /\ UNCHANGED ticked
    /\ UNCHANGED <<focusedOn, disabledOnes, clicksInProgress, focusTold, clickActs>>

\* element_click's guards: a disabled node, and one whose click() runs, do nothing.
ClickableNow(node) == node \notin disabledOnes /\ node \notin clicksInProgress

\* run_label_activation: a click on the label clicks its control.
DispatchLabels ==
    /\ clickStack # <<>> /\ ClickTop.fn = "event" /\ ClickTop.at = "label"
    /\ IF ~ClickTop.canceled /\ ClickTop.node = Label /\ ClickableNow(LabelControl)
       THEN /\ clicksInProgress' = clicksInProgress \cup {LabelControl}
            /\ clickStack' = Entering(Frame("click()", LabelControl), "done")
       ELSE /\ clickStack' = Going("done")
            /\ UNCHANGED clicksInProgress
    /\ UNCHANGED <<ticked, focusedOn, disabledOnes, focusTold, clickActs>>

DispatchReturns ==
    /\ clickStack # <<>> /\ ClickTop.fn = "event" /\ ClickTop.at = "done"
    /\ clickStack' = Returning
    /\ UNCHANGED <<ticked, focusedOn, disabledOnes, clicksInProgress, focusTold, clickActs>>

-----------------------------------------------------------------------------
(* Page code, and the WebDriver click *)

ClickAct == ClickPageRuns /\ clickActs < MaxClickActs /\ clickActs' = clickActs + 1
Pushed(frame) == clickStack' = <<frame>> \o clickStack

\* What moves the focus is called from a focusout listener of the focus update steps only
\* when the instance says so.
MovesAllowed ==
    ~FocusoutMoves /\ clickStack # <<>> => <<ClickTop.fn, ClickTop.at>> # <<"focus", "focusout">>

CallClick(node) ==
    /\ ClickAct /\ MovesAllowed /\ ClickableNow(node)
    /\ clicksInProgress' = clicksInProgress \cup {node}
    /\ Pushed(Frame("click()", node))
    /\ UNCHANGED <<ticked, focusedOn, disabledOnes, focusTold>>

DispatchClick(node) ==
    /\ ClickAct /\ MovesAllowed
    /\ Pushed(Frame("event", node))
    /\ UNCHANGED <<ticked, focusedOn, disabledOnes, clicksInProgress, focusTold>>

CallFocus(node) ==
    /\ ClickAct /\ MovesAllowed /\ Focusable(node)
    /\ Pushed(Frame("focus", node))
    /\ UNCHANGED <<ticked, focusedOn, disabledOnes, clicksInProgress, focusTold>>

CallBlur ==
    /\ ClickAct /\ MovesAllowed /\ focusedOn # Nobody
    /\ focusedOn' = Nobody
    /\ focusTold' = Nobody
    /\ Pushed([Frame("blur()", focusedOn) EXCEPT !.at = "blur"])
    /\ UNCHANGED <<ticked, disabledOnes, clicksInProgress>>

SetChecked(node, value) ==
    /\ ClickAct /\ (node \in ticked) # value
    /\ ticked' = IF value THEN Check(node) ELSE ticked \ {node}
    /\ UNCHANGED <<focusedOn, disabledOnes, clicksInProgress, clickStack, focusTold>>

ToggleDisabled(node) ==
    /\ ClickAct
    /\ disabledOnes' = IF node \in disabledOnes THEN disabledOnes \ {node}
                       ELSE disabledOnes \cup {node}
    /\ UNCHANGED <<ticked, focusedOn, clicksInProgress, clickStack, focusTold>>

\* preventDefault on the innermost click event.
PreventDefault ==
    /\ clickStack # <<>> /\ ClickTop.fn = "event" /\ ClickTop.at = "click" /\ ~ClickTop.canceled
    /\ clickStack' = [clickStack EXCEPT ![1].canceled = TRUE]
    /\ UNCHANGED <<ticked, focusedOn, disabledOnes, clicksInProgress, focusTold, clickActs>>

WebDriverClick(node) ==
    /\ clickStack = <<>> /\ clickActs = 0 /\ node \notin disabledOnes
    /\ Pushed(Frame("webdriver", node))
    /\ UNCHANGED <<ticked, focusedOn, disabledOnes, clicksInProgress, focusTold, clickActs>>

\* The task ends.
TaskOver ==
    /\ clickStack = <<>> /\ clickActs > 0
    /\ clickActs' = 0
    /\ UNCHANGED <<ticked, focusedOn, disabledOnes, clicksInProgress, clickStack, focusTold>>

ClickInit ==
    /\ ticked \in {c \in SUBSET Controls : Cardinality(c \cap Radios) <= 1}
    /\ focusedOn = Nobody
    /\ disabledOnes = {}
    /\ clicksInProgress = {}
    /\ clickStack = <<>>
    /\ focusTold = Nobody
    /\ clickActs = 0

PageActs ==
    \/ \E n \in Targets : CallClick(n) \/ DispatchClick(n) \/ WebDriverClick(n)
    \/ \E n \in Targets \cap Controls : CallFocus(n) \/ ToggleDisabled(n)
    \/ \E n \in Controls, value \in BOOLEAN : SetChecked(n, value)
    \/ CallBlur \/ PreventDefault

ClickNext ==
    \/ FocusStart \/ FocusBlurred \/ FocusGivenUp \/ FocusInstall \/ FocusedIn \/ BlurStep
    \/ ClickFocuses \/ ClickDispatches \/ ClickSettles \/ ClickEnds \/ CheckableEvents
    \/ DispatchStarts \/ DispatchSettles \/ DispatchLabels \/ DispatchReturns
    \/ PageActs \/ TaskOver

ClickSpec == ClickInit /\ [][ClickNext]_clickVars

-----------------------------------------------------------------------------
(* Properties *)

\* Type invariant.
ClickTypeOK ==
    /\ ticked \subseteq Controls /\ disabledOnes \subseteq Controls
    /\ clicksInProgress \subseteq Clickable
    /\ focusedOn \in Controls \cup {Nobody} /\ focusTold \in Controls \cup {Nobody}
    /\ clickActs \in 0..MaxClickActs
    /\ \A i \in DOMAIN clickStack :
          /\ clickStack[i].node \in Clickable
          /\ clickStack[i].previous \in PreActivations

\* A node is in clicks_in_progress exactly while one click() of it runs, whatever its
\* listeners do: nested, canceled and label clicks leave no mark behind and none of them
\* runs the same click() twice (element_click, set_click_in_progress).
MarkedWhileClicked ==
    \A n \in Clickable :
        Cardinality({i \in DOMAIN clickStack :
                        clickStack[i].fn = "click()" /\ clickStack[i].node = n})
          = IF n \in clicksInProgress THEN 1 ELSE 0

\* A click that is canceled while the checkedness is as its pre-activation left it (nested
\* clicks that were themselves undone included) restores exactly the checkedness of before
\* the click (legacy_canceled_activation undoes legacy_pre_activation).
CanceledClickRestores ==
    (/\ clickStack # <<>> /\ ClickTop.canceled /\ ClickTop.previous # NoChange
     /\ \/ ClickTop.fn = "click()" /\ ClickTop.at = "dispatching"
        \/ ClickTop.fn = "event" /\ ClickTop.at = "click" /\ clickStack'[1].at = "label"
     /\ ticked = ClickTop.after /\ Cardinality(ClickTop.before \cap Radios) <= 1)
      => ticked' = ClickTop.before

\* A click whose listeners leave the controls alone activates the control once: a checkbox is
\* toggled, a radio ends up checked, although both click() and the dispatch of its event run
\* pre-activation code (the click_in_progress test in dispatch).
ActivatesOnce ==
    (/\ clickStack # <<>> /\ ClickTop.fn = "click()" /\ ClickTop.at = "dispatching"
     /\ ~ClickTop.canceled /\ ClickTop.budget = clickActs /\ ClickTop.node \in Controls)
     => (ClickTop.node \in ticked') = (ClickTop.node \in Radios
                                         \/ ClickTop.node \notin ClickTop.before)

\* Two radios of a group are checked at once only through the undoing of a canceled click
\* whose listeners changed the group: no other path of clicks, labels, dispatched events and
\* assignments adds a second one (set_checked, legacy_pre_activation, toggle_checkedness).
SecondRadioOnlyByCancel ==
    Cardinality(ticked' \cap Radios) > 1
      => \/ ticked' \cap Radios \subseteq ticked
         \/ /\ clickStack # <<>> /\ ClickTop.canceled /\ ClickTop.previous.kind = "radio"
            /\ ticked \cap Radios # {ClickTop.node}

\* The page's picture of the focus is the document's: when no function runs, the node that
\* heard focus last and no blur since is the focused area (focus_node, blur_node).
FocusIsKnown == clickStack = <<>> => focusTold = focusedOn

\* Nested, canceled and label clicks leave no mark behind, and the page knows
\* where the focus is.
ClickSafe ==
    ClickTypeOK /\ MarkedWhileClicked /\ FocusIsKnown

\* Nothing loses the focus silently: the focused area changes only in a step that fires blur
\* on it (focus_node's "The previously focused area is cleared before the blur/focusout
\* chain").
LosesFocusWithBlur ==
    focusedOn # Nobody /\ focusedOn' # focusedOn
      => focusedOn' = Nobody /\ clickStack'[1].at = "blur"

\* What no click or change of the focus may do.
ClickSteps == [CanceledClickRestores /\ ActivatesOnce /\ SecondRadioOnlyByCancel /\ LosesFocusWithBlur]_clickVars
=============================================================================
