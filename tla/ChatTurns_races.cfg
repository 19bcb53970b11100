SPECIFICATION Spec
CONSTANTS
    Requests = {r1, r2}
    Inputs = {question, help}
    HelpInputs = {help}
    Refs = {s1}
    Sessions = {a}
    Workers = {w1, w2}
    None = None
    MaxAttempts = 2
    Lease = 2
    Window = 1
    PlansRelevance = TRUE
    MaxPolicy = 2
SYMMETRY Symmetric
INVARIANTS TypeOK OnePendingTurn BoundedModelCalls
PROPERTIES FinishedTurnsFrozen AnswersReleasedFresh ImplementsLog
CHECK_DEADLOCK FALSE
