SPECIFICATION PreviewSpec
CONSTANTS
    RowCount = 2
    Items = {"a1", "a2", "i1"}
    Documents = {"doc"}
    Images = {"img"}
    SourceOf <- MCSourceOf
    Broken <- MCBroken
    Sizes = {"s1", "s2"}
    MaxBatch = 1
    NoItem = "none"
    Versions = {1, 2}
    MaxEvents = 3
INVARIANTS LiveContext PendingIsServed
PROPERTIES EventuallyShown Rests
CHECK_DEADLOCK FALSE
