CONSTANTS
    CellId = {c1, c2, c3, c4, c5}
    Limit = 1
    ScanBatch = 2
    ScanCeiling = 4
    SharedStore = TRUE
    Reorders = TRUE
    MaxChanges = 2
SYMMETRY MCSymmetry
SPECIFICATION Spec
INVARIANTS
    TypeOK
    PageIsWindow
    MissedOnlyAsOthersLeft
    RepeatedOnlyAsOthersCame
CHECK_DEADLOCK FALSE
