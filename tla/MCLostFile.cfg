SPECIFICATION SearchSpec
CONSTANTS
    Paths <- MCPaths
    Contents <- MCContents
    Absent <- MCAbsent
    Grams <- MCGrams
    GramsOf <- MCGramsOf
    Queries <- MCQueries
    Hits <- MCHits
    Plan <- MCPlan
    Unreadable = {}
    MaxEdits = 1
    MaxBuilds = 1
    MaxFaults = 0
    MaxSearches = 1
INVARIANT GuaranteesNoFalseNegatives

CHECK_DEADLOCK FALSE
