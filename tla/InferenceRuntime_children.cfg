SPECIFICATION ChildrenSpec
CONSTANTS
    Waiters = {w1, w2}
    MaxBatches = 2
    MaxJobs = 3
    Kids = {k1, k2}
    MaxChunks = 2
    MaxWritten = 3
    Apis = {api1}
    First = api1
    Operators = {}
    Engines = {e1, e2, e3}
    MaxCrashes = 0
    Callers = {c1}
    Chats = {g1}
    TTL = 2
    PROBE = 1
    None = None
INVARIANTS SlotInv NothingIsLeft
PROPERTIES CallsEnd ShutdownEnds Recovers
CHECK_DEADLOCK FALSE
