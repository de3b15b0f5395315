SPECIFICATION FairSpec
CONSTANTS
    NoOption = NoOption
    None = NoOption
    Cmds <- MCCmds
    MaxCount = 3
INVARIANTS
    ConfiguredByCmd
    WakeCovers
PROPERTIES
    StartWorks
    StopWorks
    AutoStops
