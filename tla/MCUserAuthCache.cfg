SPECIFICATION Spec
CONSTANTS
    r1 = r1
    r2 = r2
    a1 = a1
    a2 = a2
    p1 = p1
    f1 = f1
    f2 = f2
    g1 = g1
    g2 = g2
    NoOne = NoOne
    Readers = {r1, r2}
    Admins = {a1, a2}
    Profiles = {}
    Refreshers = {}
    Kinds = {"publish", "update", "delete", "hardDelete"}
    Groups = {g1}
    InitGroup = g1
    RowLock = FALSE
    VersionAttempts = 2
    RefreshAttempts = 1
    MaxFaults = 1
    MaxCrashes = 1
SYMMETRY Symmetry
INVARIANTS
    FloorIsCommitted
    NoStaleAfterPublish
    NoStaleAfterCommit
CHECK_DEADLOCK FALSE
