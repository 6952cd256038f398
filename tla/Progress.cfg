CONSTANTS
    Urls = {u1}
    DataUrls = {}
    Blank = Blank
    Calls = {c1}
    MaxEpoch = 2
    MaxEvents = 1
    MaxMounts = 1
    Fetches = {f1, f2}
    Idempotent = {}
    BodyLength = 1
    Depth = 1
    TabDials = 1
    GlobalDials = 2
    MaxResets = 0
    Markup <- OneMarkup
    MaxDocs = 2
    MaxPage = 1
SPECIFICATION ProgressSpec
PROPERTIES NavigationSettles
CHECK_DEADLOCK FALSE
