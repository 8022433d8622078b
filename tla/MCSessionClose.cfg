SPECIFICATION Spec
CONSTANTS
    Files = {"f", "g"}
    Contents = {"a", "b"}
    None = "none"
    Limits <- MCLimits
    MaxChanges = 3
    MaxForeign = 1
INVARIANT NotClosedWhileReading
CHECK_DEADLOCK FALSE
