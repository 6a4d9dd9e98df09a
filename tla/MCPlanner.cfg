SPECIFICATION Spec
CONSTANTS
    Atoms <- MCAtoms
    Runs <- MCRuns
    Quantifiers = {"", "*"}
    MaxPieces = 2
    MaxBranches = 2
    MaxRepeats = 2
    Weightings <- MCWeightings
    Overrides = {"Auto", "ForceTrigram", "ForceSparse"}
INVARIANTS TypeOK SplitsAtTopLevel PlainIsSound DiagnosticsMatchPlan
CHECK_DEADLOCK FALSE
