SPECIFICATION Spec
CONSTANTS
    Setups <- MCSetups
    Reqs <- MCReqs
    Limit <- MCLimit
    Width <- MCWidth
    MaxIns = 3
    EvictBatch = 4
    CapBatch = 3
INVARIANTS
    ResourcesAccounted
    PromptKVIntact
    CacheServesItsTokens
    LiveNotEvicted
PROPERTIES
    CapKeepsUp
CHECK_DEADLOCK FALSE
