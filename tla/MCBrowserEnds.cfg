SPECIFICATION Spec
CONSTANTS
    t1 = t1
    t2 = t2
    s1 = s1
    s2 = s2
    Tabs = {t1, t2}
    Sids = {s1, s2}
    NoSid = NoSid
    NoTab = NoTab
    First = s1
    SignsIn = {t1}
    SignsOut = {t2}
    Asks = {}
    Locks = TRUE
    MaxFaults = 0
PROPERTIES EndedLeavesTabs TabsConverge
CHECK_DEADLOCK FALSE
