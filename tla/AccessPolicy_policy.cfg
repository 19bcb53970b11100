SPECIFICATION Spec
CONSTANTS
    Users = {u1, u2}
    Roles = {g1}
    Documents = {d1, d2}
    Versions = {v1, v2, v3}
    Sessions = {a}
    Jobs = {j1, j2}
    None = None
    MaxRevision = 6
SYMMETRY Symmetric
INVARIANTS TypeOK ActiveVersionComplete
PROPERTIES NewerActivationWins AuthorityAtCommit AccessChangesExplained ImplementsSource
CHECK_DEADLOCK FALSE
