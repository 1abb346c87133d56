SPECIFICATION Spec
CONSTANTS
    KeepTurns = 1
    Protected = 2
    Sizes = {"large"}
    MaxUtterances = 8
    MaxDisturbances = 1
CHECK_DEADLOCK FALSE
INVARIANTS
    TypeOK
    NothingForgotten
    RequestWellPaired
    RequestMatchesSession
PROPERTIES
    ContextNeverShrinks
