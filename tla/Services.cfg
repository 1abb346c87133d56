SPECIFICATION ServicesSpec
CONSTANTS
    Nodes = {1, 2, 3, 4, 5, 6, 7}
    StartNode = 1
    NextOf <- MCNextOf
    BranchesOf <- MCBranchesOf
    GateNodes = {6}
    EndNodes = {5, 7}
    MaxSteps = 5
    MaxGraphRuns = 3
    Requests <- MCRequests
    NoRequest = NoRequest
    Decisions = {"allow", "deny"}
    LastCall = 3
    SafeCalls = {1, 2}
    ReadOnlyCalls = {1}
    EditCalls = {3}
    HarmlessCalls = {}
    DeniedCalls = {}
    AllowedCalls = {}
    HookAskCalls = {1}
    PermissionModes = {"acceptEdits", "default"}
    MaxConcurrency = 2
    BgTasks = {t1}
    BgSessions = {x1, x2}
    MaxEvents = 2
    Formats = {"anthropic", "openai", "responses", "gemini"}
    MaxAttempts = 2
    MaxRecoveries = 2
    MaxTurns = 3
    MaxText = 1
    MaxCalls = 2
    Videos = {v1}
    RpmLimit = 1
    MaxGets = 2
    MaxContents = 4
    Servers = {p1, p2}
    Chats = {k1}
    MaxReview = 4
    MaxTruncations = 3
    MaxClock = 2
    MaxDreams = 2
    Processes = {q1, q2}
    MaxTasks = 3
    MaxVersions = 3
    MaxFileEvents = 2
    VmNames = {m1}
    VmCallers = {u1, u2}
    EdSessions = {e1}
    NoLineYet = NoLineYet
    NoPrompt = NoPrompt
    MaxPrompts = 2
    MaxCancels = 1
    CommandKeys = {"cancel", "run"}
    MaxCommands = 3
    MaxDisturbances = 2
    QueueLimit = 2
    PageSessions = {w1, w2}
    MaxChanges = 1
    MaxChoices = 2
    MaxLosses = 1
    NoSession = NoSession
INVARIANTS
    ServicesTypeOK
    PredecessorsComplete
    OneBranchTaken
    UnsafeRunsAlone
    OnlyGrantedCallsRun
    ShownIsAnswerable
    EndedTaskReaped
    OnlyWholeCallsRun
    ShownTextIsKept
    ProposalsJudgedOnce
    DisplacedIsKept
    NothingReviewedTwice
    NumbersDistinct
    CommandsKeepOrder
    ShownNeverOlder
PROPERTIES
    RunKeepsPromise
    DiskKept
CHECK_DEADLOCK FALSE
