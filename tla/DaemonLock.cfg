CONSTANTS
    Procs = {d1, d2, w1}
    Drivers = {w1}
    Writers = {t1}
    MaxVersion = 2
    MaxFaults = 1
    NoLock = NoLock
    NoEndpoint = NoEndpoint
SPECIFICATION FairSpec
INVARIANTS ProfileSafe
PROPERTIES AtomicSaves StartSettles
CHECK_DEADLOCK FALSE
