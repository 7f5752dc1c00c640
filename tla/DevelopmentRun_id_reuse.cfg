CONSTANTS
    app = app
    test = test
    env = env
    local = local
    mine = mine
    create = create
    Absent = Absent
    Torn = Torn
    Paths <- OnePath
    Unsafe <- NoPaths
    Scanned <- OnePath
    Ignored <- NoPaths
    Plans <- AppPlan
    Tasks <- OneTask
    RetryBudgets <- UpToOneRetry
    MaxModelCalls = 1
    MaxCommands = 2
    CustomerContents <- Mine
    MaxCalls = 2
    MaxEdits = 0
    MaxCrashes = 0
SPECIFICATION Spec
INVARIANTS
    ReuseFailsClosed
CHECK_DEADLOCK FALSE
