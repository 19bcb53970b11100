SPECIFICATION MCSpec
CONSTANTS
    Tasks = {t1, t2}
    old = old
    new = new
    other = other
    Sources = {old, new, other}
    DocOf <- TwoVersions
    First = {new, other}
    MaxRevision = 2
    MaxPrepared = 2
    None = None
    Refs = {a, b}
    MaxChunks = 2
    MaxTurns = 3
    max_context_tokens = 2
    max_prior_turns = 2
    MaxChanges = 1
SYMMETRY Symmetric
INVARIANTS HostInv ContextIsOfOneRevision
PROPERTIES KeepsPromise ReleaseIsCurrent
CHECK_DEADLOCK FALSE
