SPECIFICATION MCSpec
CONSTANTS
    Attempts = 2
    Generation = 3
    Recovery = 2
    Lease = 9
    MaxOutside = 4
    Users = {u1, u2, u3}
    Volatile = {u1}
    User = u1
    Peers = {p1}
    Requests = {r1, r2}
    Challenges = {k1, k2}
    PeerLimit = 2
    AccountLimit = 1
    CHALLENGE_CAP = 2
    Window = 2
    Second = 2
    MaxNow = 5
    None = None
SYMMETRY Symmetric
INVARIANTS LapsesOutside AttemptsCounted
PROPERTIES SessionsOfActive
CHECK_DEADLOCK FALSE
