SPECIFICATION Spec
CONSTANTS
    Modes = {"stream", "fetch"}
    MaxToolRounds = 1
    MaxGen = 3
    MaxTries = 7
INVARIANTS
    TypeOK
    NoLeakedStream
    OwnText
    NoEndlessSpinner
    BusyUnlessQuiet
PROPERTIES
    GenerationEnds
CHECK_DEADLOCK FALSE
