SPECIFICATION Spec
CONSTANTS
    c1 = c1
    c2 = c2
    Clients <- MCClients
    Operations = {"append", "clear", "snapshot", "page"}
    Kinds = {"text"}
    Faults = {}
    TornAppends = FALSE
    PageSize = 1
    MaxEntries = 3
    MaxCrashes = 0
    MaxFaults = 0
SYMMETRY ClientSymmetry
INVARIANTS
    ReadsLeaveWriterAlive
