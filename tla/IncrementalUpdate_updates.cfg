\* Full and incremental runs over three files.
CONSTANTS
    service = service
    other = other
    plain = plain
    conventions = conventions
    deviations = deviations
    Nothing = Nothing
    Absent = Absent
    Paths <- ThreePaths
    Contents <- ThreeContents
    Observed <- ObservedIn
    Graphs <- Shapes
SPECIFICATION Spec
INVARIANTS
    AnalysisIsExact
    DependentsRecomputed
    StoreIsCurrent
PROPERTIES
    UpdateKeepsUp
    AnalysisEnds
