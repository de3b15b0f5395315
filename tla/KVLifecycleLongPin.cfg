SPECIFICATION Spec
CONSTANTS
    Setups <- LongPinSetups
    Reqs <- MCReqs
    Limit <- MCLimit
    Width <- MCWidth
    MaxIns = 2
    EvictBatch = 4
    CapBatch = 3
INVARIANT CacheServesItsTokens
CHECK_DEADLOCK FALSE
