SPECIFICATION FairSpec
CONSTANTS
    Pages <- MCPages
    Rasterizers = {r1, r2}
    Threads = 3
    AuxThreads = 1
    Buckets = 1
    Hundred = 2
INVARIANTS
    PermitCovered
    RasterizerExclusive
    ReturnsWhenDone
PROPERTY RenderReturns
CHECK_DEADLOCK FALSE
