SPECIFICATION Spec
CONSTANTS
    Sizes <- MCSizes
    Base = 1
    Catalogs <- MCCatalogs
    LogProbs <- MCLogProbs
    Configs <- MCConfigs
    Boundary = TRUE
    StopTokens = {4}
INVARIANTS
    TablesFollowCatalog
    RowsFollowTokens
    FrontierSound
    EveryItemServed
PROPERTIES
    KeepsBest
CHECK_DEADLOCK FALSE
