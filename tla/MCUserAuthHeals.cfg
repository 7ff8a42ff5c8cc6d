SPECIFICATION Spec
CONSTANTS
    r1 = r1
    r2 = r2
    a1 = a1
    a2 = a2
    p1 = p1
    f1 = f1
    f2 = f2
    g1 = g1
    g2 = g2
    NoOne = NoOne
    Readers = {}
    Admins = {a1}
    Profiles = {p1}
    Refreshers = {f1, f2}
    Kinds = {"update", "delete"}
    Groups = {g1, g2}
    InitGroup = g1
    RowLock = TRUE
    VersionAttempts = 2
    RefreshAttempts = 1
    MaxFaults = 1
    MaxCrashes = 0
INVARIANTS
    GroupRepaired
PROPERTIES
    AccessHeals
CHECK_DEADLOCK FALSE
