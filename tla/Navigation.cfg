CONSTANTS
    Parts = {"coordinator", "dials", "response", "load"}
    Urls = {u1, d1}
    DataUrls = {d1}
    Blank = Blank
    Calls = {c1}
    MaxEpoch = 2
    MaxEvents = 2
    MaxMounts = 2
    Fetches = {f1, f2}
    Idempotent = {f1}
    BodyLength = 2
    Depth = 1
    TabDials = 1
    GlobalDials = 2
    MaxResets = 1
    Asg = {a1}
    MaxUploads = 3
    BodyLimit = 1
    MaxChunks = 2
    TombLimit = 1
    LaneCap = 2
    Markup <- MCMarkup
    MaxDocs = 2
    MaxPage = 2
SPECIFICATION NavSpec
INVARIANTS CoordinatorSafe DialsSafe ResponsesSafe LoadSafe
 
CHECK_DEADLOCK FALSE
