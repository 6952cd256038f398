\* Two slots, two tabs, two sites: the spare, same-site sharing and refusals,
\* with failed spawns, crashes and aborted tabs.
CONSTANTS
    Procs = {p1, p2}
    Sites = {s1, s2}
    Tabs = {t1, t2}
    Asgs = {a1, a2}
    Fillers = {f1, f2}
    Limit = 2
    NoticeCap = 2
    OrphanCap = 0
    SpawnCanFail = TRUE
    CanCrash = TRUE
    NoProc = NoProc
    NoSite = NoSite
    NoTab = NoTab
    NoAsg = NoAsg
SPECIFICATION Spec
SYMMETRY Symmetry
INVARIANTS ManagerSafe NoShutdownUnderAssignment NoStrandedProcess
PROPERTIES SpareNeverReplaced
