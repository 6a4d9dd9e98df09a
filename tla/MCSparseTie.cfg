SPECIFICATION Spec
CONSTANTS
    Bytes = {"a", "b"}
    MaxLength = 4
    MinWeight = 1
    MaxWeight = 2
INVARIANT CoveringIsIndexed
CHECK_DEADLOCK FALSE
