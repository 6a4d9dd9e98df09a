SPECIFICATION SearchSpec
CONSTANTS
    Paths <- MCPaths
    Contents <- MCContents
    Absent <- MCAbsent
    Grams <- MCGrams
    GramsOf <- MCGramsOf
    Queries <- MCQueries
    Hits <- MCHits
    Plan <- MCPlan
    Unreadable = {}
    MaxEdits = 1
    MaxBuilds = 2
    MaxFaults = 1
    MaxSearches = 1
INVARIANT NoSilentLoss

CHECK_DEADLOCK FALSE
