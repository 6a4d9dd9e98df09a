SPECIFICATION Spec
CONSTANTS
    Paths <- MCPaths
    Contents <- MCContents
    Absent <- MCAbsent
    Grams <- MCGrams
    GramsOf <- MCGramsOf
    Queries <- MCQueries
    Hits <- MCHits
    Plan <- MCPlan
    NoCommit = NoCommit
    NoIndex = NoIndex
    MaxMoves = 3
    MaxCommands = 2
INVARIANTS TypeOK HonestIndexEndsFresh AlwaysHonest EndsFresh
CHECK_DEADLOCK FALSE
