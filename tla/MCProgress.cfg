SPECIFICATION Spec
CONSTANTS
    Workers = {w1, w2, w3}
    StepCount = 5
    Hundred = 3
SYMMETRY Symmetry
INVARIANTS
    EmittedOnce
    NothingLost
PROPERTY Monotone
CHECK_DEADLOCK FALSE
