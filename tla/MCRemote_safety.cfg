SPECIFICATION Spec
CONSTANTS
    ka = ka
    kb = kb
    kc = kc
    Paths <- MCPaths
    MinPrefixBlocks = 1
    StoreEvicts = TRUE
    MaxIO = 4
    MaxLives = 2
SYMMETRY Symmetry
INVARIANTS
    CatalogBacked
    SavedCatalogBacked
    InflightOwned
    MissingExplained
    LatestSaveWins
    ExitKeepsWrites
