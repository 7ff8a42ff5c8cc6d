SPECIFICATION Spec
CONSTANTS
    t1 = t1
    p1 = p1
    p2 = p2
    f1 = f1
    Tasks = {t1}
    Passes = {p1, p2}
    Fetchers = {f1}
    NoTask = NoTask
    Sources = {"wallet", "subscription"}
    Kinds = {"suno", "video", "realtime"}
    Price = 2
    Actuals = {1, 3}
    MaxFetches = 1
    MaxFaults = 0
    MaxCrashes = 0
INVARIANT FailedIsRefunded
CHECK_DEADLOCK FALSE
