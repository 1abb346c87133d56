SPECIFICATION HistorySpec
CONSTANTS
    c1 = c1
    c2 = c2
    Clients <- MCClients
    Operations = {"append", "compact", "clear", "snapshot"}
    Kinds = {"text", "call", "result", "title", "usage", "trace"}
    Faults = {"open", "append-rewrite", "clear-rewrite"}
    TornAppends = FALSE
    PageSize = 1
    MaxEntries = 4
    MaxCrashes = 1
    MaxFaults = 1
SYMMETRY ClientSymmetry
INVARIANTS
    JsonlMatchesMemory
    TranscriptMatchesPreserved
PROPERTIES
    CompactsWhatItSaw
    RevisionFallsByTraces
