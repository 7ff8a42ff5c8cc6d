SPECIFICATION Spec
CONSTANTS
    r1 = r1
    r2 = r2
    r3 = r3
    c1 = c1
    Runners = {r1, r2}
    NoRunner = NoRunner
    Clients = {}
    MaxTasks = 1
    Legacy = {}
    PromptClaims = FALSE
    MaxCrashes = 0
    MaxFaults = 0
PROPERTIES
    EveryTaskEnds
