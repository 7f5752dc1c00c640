\* Two learning runs and one development run; two edits come anywhere between their steps.
CONSTANTS
    NoState = NoState
    Files <- Paths
    Learnable <- SourcePaths
    Target <- NewPath
    Beside <- NewTest
    ModuleOf <- Modules
    ConstantTexts <- Texts
    MinimumEvidence = 3
    Repositories <- MCRepositories
    Edits <- Changes
    ParserVersions <- Versions
    Tasks <- MCTasks
    MaxLearns = 2
    MaxEdits = 2
    MaxRuns = 1
SPECIFICATION Spec
INVARIANTS
    GeneratedComplies
    ComplianceEnforcesContext
PROPERTIES
    ActiveIsShared
    SavedAgrees
    PublishingKeepsRules
\* The bounds on learning runs, edits and development runs end every behaviour.
CHECK_DEADLOCK FALSE
