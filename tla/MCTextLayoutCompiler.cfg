SPECIFICATION TextFairSpec
CONSTANTS
    Pages <- MCPages
    MaxVersion = 4
INVARIANTS
    TextTypeOK
    EventBelongsToFuture
    LazyAgrees
PROPERTY IndexingEnds
CHECK_DEADLOCK FALSE
