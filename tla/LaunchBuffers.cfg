SPECIFICATION Spec
CONSTANTS
    Reqs <- MCReqs
    Modes <- MCModes
INVARIANTS
    ResultsOwn
    TablesOwn
    PacksCleanly
    RowsPadded
CHECK_DEADLOCK FALSE
