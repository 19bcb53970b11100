SPECIFICATION MCSpec
CONSTANTS
    Threads = {x, y}
    Requests = {r1}
    MaxTurns = 2
    Other = Other
    None = None
    Users = {u1}
    Targets = {t1, t2}
    Calls = {c1, c2}
    MaxSessions = 2
    MaxTokens = 3
SYMMETRY Symmetric
INVARIANTS ChatInv OnlyForSession
PROPERTIES OnlyServerEnds
CHECK_DEADLOCK FALSE
