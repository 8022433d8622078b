SPECIFICATION FairSpec
CONSTANTS
    Pages = {1, 2}
    Cost <- MCCost
    Limits = {2}
    MaxVersion = 2
    MaxEvents = 2
PROPERTY StopReturns
CHECK_DEADLOCK FALSE
