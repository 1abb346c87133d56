SPECIFICATION Spec
CONSTANTS
    KeepTurns = 1
    Protected = 2
    Sizes = {"large"}
    MaxUtterances = 6
    MaxDisturbances = 0
CHECK_DEADLOCK FALSE
INVARIANTS
    PruningStaysInMemory
