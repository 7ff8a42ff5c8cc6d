SPECIFICATION Spec
CONSTANTS
    r1 = r1
    r2 = r2
    r3 = r3
    Runners = {r1, r2}
    NoRunner = NoRunner
    Clients = {c1}
    c1 = c1
    MaxTasks = 2
    Legacy = {}
    PromptClaims = TRUE
    MaxCrashes = 1
    MaxFaults = 1
INVARIANTS
    OneActive
    RunsOnce
    RunningRecoverable
PROPERTIES
    TerminalStable
    LeaseNotStolen
    EveryTaskEnds
