SPECIFICATION Spec
CONSTANTS
    Files = {"two", "one"}
    Counts <- MCCounts
    PageLists <- MCPageLists
    Outlines <- MCOutlines
    Workspaces <- MCWorkspaces
    MaxSteps = 2
    MaxRows = 3
    MaxChanges = 2
    MaxOperations = 4
INVARIANTS Resolvable DropIsSplice SplitsPartition
PROPERTIES PagesKept ImplementsTimeline
CHECK_DEADLOCK FALSE
