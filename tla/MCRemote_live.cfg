SPECIFICATION FairSpec
CONSTANTS
    ka = ka
    kb = kb
    kc = kc
    Paths <- MCPaths
    MinPrefixBlocks = 1
    StoreEvicts = TRUE
    MaxIO = 4
    MaxLives = 1
PROPERTY EngineReturns
