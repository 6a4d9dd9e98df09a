SPECIFICATION Spec
CONSTANTS
    Paths <- MCPaths
    Contents <- MCContents
    Absent <- MCAbsent
    Grams <- MCGrams
    GramsOf <- MCGramsOf
    Queries <- MCTwoQueries
    Hits <- MCTwoHits
    Plan <- MCTwoPlans
    MaxMoves = 1
    Conflicting = {1}
    Quotable = {2}
INVARIANTS TypeOK OverlayMirrorsReads ReadYourWrites OnlyMatches
PROPERTY SearchEnds
CHECK_DEADLOCK FALSE
