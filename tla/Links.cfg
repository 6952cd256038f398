\* Registry: service calls and dial workers racing releases. Child: a synchronous call and two
\* with callbacks on a lane of one. Exchange: a call and a client notice, every way it can
\* go down. Ids run out and the processes end, so the model may stop.
CONSTANTS
    MaxId = 2
    Workers = {w1, w2}
    NoId = NoId
    WaitCalls = {s1}
    CallbackCalls = {d1, d2}
    NoCall = NoCall
    Event = Event
    MaxEvents = 2
    Cap = 1
    Callers = {c1}
    MaxCalls = 1
    LaneCap = 1
    ChunkLimit = 0
    MaxNotices = 0
    MaxTells = 1
    SubCap = 1
SPECIFICATION LinksSpec
INVARIANTS  ChildSafe 
PROPERTIES LinksSettle
CHECK_DEADLOCK FALSE
