SPECIFICATION Spec
CONSTANTS
    c1 = c1
    c2 = c2
    c3 = c3
    n1 = n1
    n2 = n2
    Calls = {c1, c2, c3}
    Redises = {n1, n2}
    Kinds1 = {"refresh"}
    Kinds2 = {"refresh", "logout", "advance"}
    Kinds3 = {"validate"}
    MayDo <- MCMayDo
    Near3 = {n1, n2}
    Near <- MCNear
    Strangers = {c2}
    TTL = 1
    Grace = 0
    Expires = 2
    Retention = 0
    MaxClock = 2
    MaxFaults = 1
INVARIANTS
    TypeOK
PROPERTIES
    RevokedStaysOut
    RevokedWithinTTL
    TheftIsLate
    FamilySpec
CHECK_DEADLOCK FALSE
