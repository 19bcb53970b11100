SPECIFICATION MCSpec
CONSTANTS
    Requests = {r1, r2}
    Inputs = {question}
    HelpInputs = {}
    Refs = {s1}
    Sessions = {a}
    Workers = {w1, w2}
    Survivor = w1
    Contested = {r1}
    None = None
    MaxAttempts = 2
    Lease = 1
    Window = 1
    PlansRelevance = FALSE
    MaxPolicy = 1
PROPERTIES HandlersReturn ReservationsSettle
CHECK_DEADLOCK FALSE
