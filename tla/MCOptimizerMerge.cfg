SPECIFICATION ToolSpec
CONSTANTS
    Files <- MCFiles
    Documents <- MCDocuments
    FlagSets <- MCFlagSets
    MaxGeneration <- MCMaxGeneration
PROPERTY Terminates
CHECK_DEADLOCK FALSE
