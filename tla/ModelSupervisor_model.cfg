SPECIFICATION MCSpec
CONSTANTS
    Apis = {api1, api2}
    First = api1
    Operators = {cli}
    Engines = {e1, e2, e3}
    MaxCrashes = 1
    Callers = {c1, c2}
    Chats = {g1, g2}
    TTL = 2
    PROBE = 1
    None = None
SYMMETRY Symmetric
INVARIANTS Supervised
PROPERTIES WorkingIsNotMissing ReadyIsRecent
CHECK_DEADLOCK FALSE
