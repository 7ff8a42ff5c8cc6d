SPECIFICATION Spec
CONSTANTS
    r1 = r1
    r2 = r2
    r3 = r3
    c1 = c1
    Runners = {r1, r2}
    NoRunner = NoRunner
    Clients = {}
    MaxTasks = 3
    Legacy = {1, 2}
    PromptClaims = TRUE
    MaxCrashes = 0
    MaxFaults = 0
INVARIANTS
    OneRunning
    RunningRecoverable
