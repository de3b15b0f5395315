SPECIFICATION Spec
CONSTANTS
    Setups <- EvictingSetups
    Reqs <- MCReqs
    Limit <- MCLimit
    Width <- MCWidth
    MaxIns = 2
    EvictBatch = 4
    CapBatch = 3
INVARIANT LiveNotEvicted
CHECK_DEADLOCK FALSE
