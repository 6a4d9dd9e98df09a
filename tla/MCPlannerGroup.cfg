SPECIFICATION Spec
CONSTANTS
    Atoms <- MCLetterAtoms
    Runs <- MCGroupAtoms
    Quantifiers = {""}
    MaxPieces = 2
    MaxBranches = 1
    MaxRepeats = 2
    Weightings <- MCWeightings
    Overrides = {"Auto"}
INVARIANT NeverLosesAMatch
CHECK_DEADLOCK FALSE
