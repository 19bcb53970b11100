SPECIFICATION MCSpec
CONSTANTS
    Commands = {p, q}
    Units = 2
    Drifts = {"policy", "inputs"}
    None = None
    SummaryApart = TRUE
    Own = Own
    Foreign = Foreign
    root = root
    document = document
    grant = grant
    Keys = {root, document, grant}
    Admin = root
    FirstKeys = {root, document}
    Kind <- ThreeKinds
    Needs <- ThreeNeeds
    MaxEdits = 1
    MaxInputs = 1
    d1 = d1
    d2 = d2
    Docs = {d1, d2}
    Cases <- TrialCases
    MaxActions = 3
SYMMETRY Symmetric
INVARIANTS RecordsAreTrue
PROPERTIES RowsKept SeedsOnce
CHECK_DEADLOCK FALSE
