SPECIFICATION FairSpec
CONSTANTS
    Pages = {1, 2}
    Cost <- MCCost
    Limits = {1, 2, 3}
    MaxVersion = 3
    MaxEvents = 3
INVARIANTS
    WithinLimit
    CacheCurrent
    BatchOwned
    NoRecompilation
    NoStrandedResult
PROPERTIES
    ImplementsService
    ServedWhenAwake
    StopReturnsUnlessWakeLost
CHECK_DEADLOCK FALSE
