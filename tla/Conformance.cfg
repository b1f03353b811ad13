CONSTANTS
    Vectors <- MCVectors
    Steps = 3
    Probes = 3
SPECIFICATION Spec
INVARIANTS
    TypeOK
    EveryCaseIsReportedOnce
    ExitTellsTheOutcome
    GapsCannotRot
CHECK_DEADLOCK FALSE
