SPECIFICATION FairSpec
CONSTANTS
    Size = 4
    MaxWrites = 4
INVARIANTS
    Lockstep
PROPERTIES
    EveryRankExits
CHECK_DEADLOCK FALSE
