\* Three overlapping calls of run() and resume().
CONSTANTS
    a = a
    b = b
    c = c
    one = one
    two = two
    repo = repo
    other = other
    file = file
    None = None
    Calls = {a, b, c}
    Services = {one, two}
    Repositories = {repo, other}
    Files = {file}
    Requests <- MCRequests
SPECIFICATION Spec
INVARIANTS
    RegistryFollowsCalls
    WorkingStageStays
    CleanWhenQuiet
    OwnServiceIsEnough
    SequentialCallsKeepFiles
\* Every call ends.
CHECK_DEADLOCK FALSE
