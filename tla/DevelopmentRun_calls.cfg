CONSTANTS
    app = app
    test = test
    env = env
    local = local
    mine = mine
    create = create
    Absent = Absent
    Torn = Torn
    Paths <- OnePath
    Unsafe <- NoPaths
    Scanned <- OnePath
    Ignored <- NoPaths
    Plans <- AppPlan
    Tasks <- OneTask
    RetryBudgets <- NoRetry
    MaxModelCalls = 1
    MaxCommands = 2
    CustomerContents <- Mine
    MaxCalls = 3
    MaxEdits = 0
    MaxCrashes = 1
SPECIFICATION Spec
INVARIANTS
    ApprovalBeforeWork
PROPERTIES
    RecordIsPinned
CHECK_DEADLOCK FALSE
