\* One call with a retry budget of 0 or 2, one of whose paths the change policy refuses.
CONSTANTS
    app = app
    test = test
    env = env
    local = local
    mine = mine
    create = create
    Absent = Absent
    Torn = Torn
    Paths <- GuardedPaths
    Unsafe <- EnvPath
    Scanned <- OnePath
    Ignored <- NoPaths
    Plans <- EnvPlans
    Tasks <- OneTask
    RetryBudgets <- ZeroOrTwo
    MaxModelCalls = 2
    MaxCommands = 3
    CustomerContents <- Mine
    MaxCalls = 1
    MaxEdits = 0
    MaxCrashes = 0
SPECIFICATION Spec
INVARIANTS
    GatesVouchForChange
    GatesSeeDraft
    FailureExplainsDraft
    WithinBudgets
    SuperstepsWithinLimit
PROPERTIES
    NoWorkPastDeadline
    CallReturns
\* A service that is not called stops.
CHECK_DEADLOCK FALSE
