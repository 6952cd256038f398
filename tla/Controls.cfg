SPECIFICATION ControlsSpec
CONSTANTS
    Path <- TargetAndRoot
    Handled = {"root"}
    Callbacks = {"f", "g"}
    ListenerOptions <- ThreeOptions
    Events = {"e1", "e2"}
    Bubbling = {"e1"}
    MaxActs = 3
    MaxListeners = 2
    Radios = {"r1", "r2"}
    Boxes = {"box"}
    Label = "label"
    LabelControl = "box"
    Targets = {"r1", "box", "label"}
    FocusoutMoves = FALSE
    MaxClickActs = 2
    Options = {a, b, c}
    CanDisable = {a}
    a = a b = b c = c
SYMMETRY OptionSymmetry
INVARIANTS DispatchSafe ClickSafe 
PROPERTIES ControlsSteps
CHECK_DEADLOCK FALSE
