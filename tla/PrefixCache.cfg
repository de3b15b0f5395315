SPECIFICATION Spec
CONSTANTS
    s1 = s1
    s2 = s2
    s3 = s3
    s4 = s4
    c1 = c1
    c2 = c2
    Prompts <- MCPrompts
    Clients <- MCClients
    Slots <- MCSlots
    MaxClock = 4
SYMMETRY Symmetry
INVARIANTS
    HeldStaysCached
    LockCountsHolders
    BookkeepingExact
    SlotsConserved
PROPERTIES
    EvictDelivers
    ImplementsLRU
CHECK_DEADLOCK FALSE
