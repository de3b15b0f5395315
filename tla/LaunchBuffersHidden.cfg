SPECIFICATION Spec
CONSTANTS
    Reqs <- MCReqs
    Modes <- HiddenModes
INVARIANTS
    ResultsOwn
CHECK_DEADLOCK FALSE
