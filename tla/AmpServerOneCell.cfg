CONSTANTS
    Null = Null
    NoCell = NoCell
    CellId = {c1}
    Agents = {a1, a2}
    MaxTime = 4
    Lifetimes <- MCLifetimes
    Bodies = {100}
    Policies <- MCTwoPolicies
    ArchiveStaleDays = 2
    RetentionDays = 2
    MaxCellSize = 1000
    MaxDigits = 1
    MaxPatches = 1
    WindowSeconds = 1
    MaxTracked = 1
    TicksPerSecond = 1
    Patches <- MCPatches
    PurgeRetention = TRUE
SPECIFICATION FairSpec
INVARIANTS
    CountersOnlyForLiveCells
PROPERTIES
    EngineArchivesOnlyLongStale
    DueCellsAreServed
    DeletedIsPurged
CHECK_DEADLOCK FALSE
