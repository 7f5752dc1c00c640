\* Two calls of an id, with an edit and a crash anywhere and a scanned file that
\* .gitignore names.
CONSTANTS
    app = app
    test = test
    env = env
    local = local
    mine = mine
    create = create
    Absent = Absent
    Torn = Torn
    Paths <- LocalPaths
    Unsafe <- NoPaths
    Scanned <- LocalPaths
    Ignored <- LocalPath
    Plans <- AppPlan
    Tasks <- OneTask
    RetryBudgets <- NoRetry
    MaxModelCalls = 1
    MaxCommands = 2
    CustomerContents <- Mine
    MaxCalls = 2
    MaxEdits = 1
    MaxCrashes = 1
SPECIFICATION Spec
INVARIANTS
    AuthorityFollowsCall
    StagesAccountedFor
    OutcomeMatchesRepository
PROPERTIES
    DecisionMeetsPendingRun
CHECK_DEADLOCK FALSE
