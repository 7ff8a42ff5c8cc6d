SPECIFICATION Spec
CONSTANTS
    t1 = t1
    p1 = p1
    p2 = p2
    f1 = f1
    Tasks = {t1}
    Passes = {p1, p2}
    Fetchers = {f1}
    NoTask = NoTask
    Sources = {"wallet", "subscription", "requests", "tokens"}
    Kinds = {"suno", "video", "realtime"}
    Price = 2
    Actuals = {1, 3}
    MaxFetches = 1
    MaxFaults = 1
    MaxCrashes = 1
INVARIANTS
    TypeOK
    NeverRefundedTwice
    OwedIsMarked
    AccountsAgree
PROPERTIES
    EndIsFinal
SYMMETRY Symmetry
CHECK_DEADLOCK FALSE
