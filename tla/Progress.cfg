SPECIFICATION ProgressSpec
CONSTANTS
    c1 = c1
    c2 = c2
    Clients <- MCClients
    Operations = {"append", "compact", "clear", "snapshot", "page"}
    Kinds = {"text"}
    Faults = {"open", "json", "newline", "append-rewrite", "compact-rewrite", "clear-rewrite"}
    TornAppends = TRUE
    PageSize = 1
    MaxEntries = 4
    MaxCrashes = 1
    MaxFaults = 1
    BgTasks = {t1}
    BgSessions = {x1, x2}
    MaxEvents = 2
    Videos = {v1}
    RpmLimit = 1
    MaxGets = 2
    MaxVersions = 3
    MaxFileEvents = 2
    EdSessions = {e1}
    NoLineYet = NoLineYet
    NoPrompt = NoPrompt
    MaxPrompts = 2
    MaxCancels = 1
    CommandKeys = {"cancel", "run"}
    MaxCommands = 3
    MaxDisturbances = 2
    QueueLimit = 2
PROPERTIES
    EveryCommandAnswered
    StoppedShellEnds
    CancelledRunEnds
    VideoEndRecorded
    EditIsReloaded
    PageReconnects
    TurnAnswered
CHECK_DEADLOCK FALSE
