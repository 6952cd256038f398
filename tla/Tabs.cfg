\* History: two child frames of settled pages. Tabs: two tabs, one name, one frame id, two
\* renderers for each tab. Exchange: one call among three notices of the server, every way the
\* exchange can go down.
CONSTANTS
    Names = {}
    MaxFrame = 2
    MaxEntry = 5
    MaxDoc = 6
    MaxUp = 2
    Env <- Calm
    MaxTab = 2
    WindowNames = {n1}
    Frames = {f1}
    Hosted = {1}
    MaxGen = 2
    NoWindowName = NoWindowName
    Callers = {c1}
    MaxCalls = 1
    LaneCap = 1
    ChunkLimit = 0
    MaxNotices = 3
    MaxTells = 0
    SubCap = 1
SPECIFICATION TabPartsSpec
INVARIANTS HistoryAligned TabsSafe NoticesContiguous
 
CHECK_DEADLOCK FALSE
