SPECIFICATION Spec
CONSTANTS
    GroupBits = 3
    WordBytes = 2
    MaxShift = 9
    Threshold = 2
    FileCount = 255
    Hole = Hole
    Indexes <- MCIndexes
    Plans <- MCPlans
INVARIANTS TypeOK CandidatesAreExact ListsAreCanonical OnlyWholeIndexesOpen BlocksDecode
PROPERTY LookupAdvances
