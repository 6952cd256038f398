SPECIFICATION DocumentSpec
CONSTANTS
    Parts = {"ranges", "elements", "xhr", "ports"}
    RangeElements = {div, span}
    Fragments = {frag}
    Texts = {txt1, txt2}
    Home = {div, frag, txt1, txt2}
    Attributed = {div}
    Origin = div
    MaxText = 1
    Customs <- TwoCustoms
    Plain = {"p"}
    HasMoveCallback = FALSE
    MovesItself = FALSE
    MaxOperations = 2
    MaxRecords = 1
    MaxSends = 3
    MaxGenerations = 5
    MaxRunning = 3
    ChildFrames = {child}
    Openers = {"main"}
    MaxEndpoints = 2
    MaxPosts = 3
    MaxDocuments = 2
SYMMETRY TextSymmetry
INVARIANTS RangesSafe CustomSafe  
 
CHECK_DEADLOCK FALSE
