\* Two callers on lanes of one, chunks past the limit: two calls, or one call
\* and a notice each way.
\* Once the exchange is closed and the ids are used up nothing is left to do.
CONSTANTS
    Callers = {c1, c2}
    MaxCalls = 2
    LaneCap = 1
    ChunkLimit = 1
    MaxNotices = 1
    MaxTells = 1
    SubCap = 1
SPECIFICATION CallsSpec
SYMMETRY Symmetry
INVARIANTS ExchangeSafe
CHECK_DEADLOCK FALSE
