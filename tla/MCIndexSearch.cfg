SPECIFICATION SearchSpec
CONSTANTS
    Paths <- MCPaths
    Contents <- MCContents
    Absent <- MCAbsent
    Grams <- MCGrams
    GramsOf <- MCGramsOf
    Queries <- MCQueries
    Hits <- MCHits
    Plan <- MCPlan
    Unreadable = {}
    MaxEdits = 1
    MaxBuilds = 2
    MaxFaults = 1
    MaxSearches = 1
INVARIANTS SearchTypeOK NoFalseNegatives FoundIsVerified ScanIsExact ViewOfOneBuild
PROPERTY SearchEnds

CHECK_DEADLOCK FALSE
