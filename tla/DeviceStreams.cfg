SPECIFICATION SSpec
CONSTANTS
    Reqs <- MCReqs
    Gen <- MCGen
    Stages = 2
    Overlaps = {TRUE, FALSE}
    Leases = {l1, l2, l3}
    Blocks = {b1, b2, b3}
    Ring = 5
INVARIANTS
    BeamsOrdered
    ResultsOrdered
    PinsOrdered
    RingNotLapped
SYMMETRY Interchangeable
CHECK_DEADLOCK FALSE
