SPECIFICATION Spec
CONSTANTS
    Modes = {"stream", "fetch"}
    MaxToolRounds = 1
    MaxGen = 3
    MaxTries = 7
INVARIANT RoundIsOfOneRequest
CHECK_DEADLOCK FALSE
