SPECIFICATION Spec
CONSTANTS
    Names <- MCNames
    Percents <- MCPercents
    Tables <- MCTables
    Mapping <- MCMapping
    MaxReports = 2
INVARIANTS TypeOK ChangesKeepTheirNames VerdictIsDue
CHECK_DEADLOCK FALSE
