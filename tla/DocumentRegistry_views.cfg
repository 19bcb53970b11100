SPECIFICATION MCSpec
CONSTANTS
    Docs = {d1, d2}
    None = None
    MaxVersions = 2
    MaxUnserved = 1
    Roles = {r1, r2}
    Unknown = Unknown
    MaxRevision = 5
    Places <- AllPlaces
    Kinds <- TwoKinds
    KindOf <- KindByPlace
    PageSize = 2
SYMMETRY Symmetric
INVARIANTS ViewsBelong PagesAreWhole
PROPERTIES ChangesAreReported
