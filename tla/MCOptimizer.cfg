SPECIFICATION ToolSpec
CONSTANTS
    Files <- MCFiles
    Documents <- MCDocuments
    FlagSets <- MCFlagSets
    MaxGeneration <- MCMaxGeneration
INVARIANTS
    MeaningPreserved
    Delivered
    DiskKept
PROPERTY TerminatesIfUnusedRemoved
CHECK_DEADLOCK FALSE
