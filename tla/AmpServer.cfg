CONSTANTS
    Null = Null
    NoCell = NoCell
    CellId = {c1, c2}
    Agents = {a1}
    MaxTime = 3
    Lifetimes = {0}
    Bodies = {100, 980}
    Policies <- MCPolicies
    ArchiveStaleDays = 1
    RetentionDays = 1
    MaxCellSize = 1000
    MaxDigits = 2
    MaxPatches = 0
    WindowSeconds = 1
    MaxTracked = 1
    TicksPerSecond = 1
    Patches <- MCPatches
    PurgeRetention = TRUE
SYMMETRY MCSymmetry
SPECIFICATION Spec
INVARIANTS
    TypeOK
    StampsTellStatusAge
PROPERTIES
    ImplementsLifecycle
CHECK_DEADLOCK FALSE
