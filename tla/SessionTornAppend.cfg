SPECIFICATION Spec
CONSTANTS
    c1 = c1
    c2 = c2
    Clients <- OneClient
    Operations = {"append"}
    Kinds = {"text"}
    Faults = {}
    TornAppends = TRUE
    PageSize = 1
    MaxEntries = 3
    MaxCrashes = 1
    MaxFaults = 0
INVARIANTS
    AcknowledgedIsReadable
