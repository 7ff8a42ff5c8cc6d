SPECIFICATION Spec
CONSTANTS
    Modes = {"stream", "fetch"}
    MaxToolRounds = 1
    MaxGen = 3
    MaxTries = 7
INVARIANT BusyWhileWorking
CHECK_DEADLOCK FALSE
