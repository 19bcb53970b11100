SPECIFICATION Spec
CONSTANTS
    Commands = {p, q}
    Units = 2
    Drifts = {}
    None = None
    SummaryApart = FALSE
INVARIANT AtMostOnce
