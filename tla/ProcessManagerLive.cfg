\* Liveness, one slot and two tabs that want it.
CONSTANTS
    Procs = {p1}
    Sites = {s1}
    Tabs = {t1, t2}
    Asgs = {a1, a2}
    Fillers = {f1}
    Limit = 1
    NoticeCap = 1
    OrphanCap = 0
    SpawnCanFail = TRUE
    CanCrash = FALSE
    NoProc = NoProc
    NoSite = NoSite
    NoTab = NoTab
    NoAsg = NoAsg
SPECIFICATION FairSpec
PROPERTIES ManagerSettles
