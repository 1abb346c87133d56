SPECIFICATION Spec
CONSTANTS
    Conns = {c1, c2}
    Posts = {d1}
    Dreams = {d1}
    Sessions = {s1}
    FirstSession = s1
    MaxLeases = 2
    MaxSays = 1
    MaxPanics = 1
    MaxSwitches = 1
SYMMETRY Symmetry
INVARIANTS
    OneWriter
    SnapshotCurrent
    ClearFindsSlotFree
    TerminalBeforeNextLease
    RunsInPublishedProject
CHECK_DEADLOCK FALSE
