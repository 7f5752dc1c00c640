\* Calls of /learn for a project and one of its modules, and one development run.
CONSTANTS
    a = a
    b = b
    f = f
    g = g
    h = h
    empty = empty
    before = before
    after = after
    project = project
    module = module
    NoModule = NoModule
    NoTree = NoTree
    NoScope = NoScope
    Trees <- AllTrees
    Files <- TreeFiles
    Paths <- AllPaths
    Symbols = {f, g, h}
    Lines = {1, 2, 3}
    Extracted <- AllExtracted
    Scopes <- BothScopes
    Documents <- Guide
    Deletions <- GuideGoes
    MaxLearns = 2
    MaxEdits = 1
    BatchSize = 2
    ExampleLimit = 2
SPECIFICATION Spec
INVARIANTS
    IndexIsOfLiveCalls
    UndisturbedLearnAgrees
PROPERTIES
    OtherScopesKept
    ExamplesFillLimit
