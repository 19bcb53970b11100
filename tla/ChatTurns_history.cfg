SPECIFICATION Spec
CONSTANTS
    Requests = {r1, r2, r3}
    Inputs = {question}
    HelpInputs = {}
    Refs = {s1, s2}
    Sessions = {a}
    Workers = {w1}
    None = None
    MaxAttempts = 2
    Lease = 1
    Window = 1
    PlansRelevance = FALSE
    MaxPolicy = 2
SYMMETRY Symmetric
INVARIANTS ClosureCoversInfluence OneStory
CHECK_DEADLOCK FALSE
