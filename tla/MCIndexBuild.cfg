SPECIFICATION Spec
CONSTANTS
    Paths <- MCPaths
    Contents <- MCContents
    Absent <- MCAbsent
    Grams <- MCGrams
    GramsOf <- MCGramsOf
    Queries <- MCQueries
    Hits <- MCHits
    Plan <- MCPlan
    Unreadable = {}
    MaxEdits = 2
    MaxBuilds = 2
    MaxFaults = 1
INVARIANTS TypeOK BuildsAgree ManifestIsLast
PROPERTIES BuildRepairs ImplementsPublishedIndex
CHECK_DEADLOCK FALSE
