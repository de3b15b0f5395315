SPECIFICATION FairSpec
CONSTANTS
    Reqs <- MCReqs
    Gen <- MCGen
    Stages = 3
INVARIANTS
    Placed
    PendingDrained
    OneForwardOut
    ColumnsContiguous
PROPERTIES
    Alternates
    AllServed
CHECK_DEADLOCK FALSE
