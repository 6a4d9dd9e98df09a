SPECIFICATION Spec
CONSTANTS
    Bytes = {"a", "b"}
    MaxLength = 5
    MinWeight = 0
    MaxWeight = 4
INVARIANTS TypeOK StackShapesGrams CoversEveryByte CoveringSavesNoLookup ComputesCovering DistinctWeightsAreCovered
PROPERTY Terminates
CHECK_DEADLOCK FALSE
