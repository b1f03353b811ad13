CONSTANTS
    CellId = {c1, c2, c3}
    MaxPatches = 2
    WindowSeconds = 2
    MaxTracked = 2
    TicksPerSecond = 2
    MaxClock = 8
    MaxAllowed = 6
SYMMETRY MCSymmetry
SPECIFICATION Spec
INVARIANTS
    TableConsistent
    NoWindowOverspent
    RetryAfterIsExact
PROPERTIES
    NeverTooStrict
CHECK_DEADLOCK FALSE
