CONSTANTS
    Null = Null
    NoCell = NoCell
    Agents = {a1}
    MaxTime = 1
    Lifetimes <- NoSet
    Bodies <- NoSet
    Policies <- NoSet
    ArchiveStaleDays = 0
    RetentionDays = 1
    MaxCellSize = 200
    Texts = {"short", "long"}
    TextBytes <- MCTextBytes
    MetaKeys = {"k", "l"}
    MetaValues = {v}
    MetaBytes <- MCMetaBytes
    Ratios = {10, 50, 100}
    Rates = {0, 1}
    MaxCount = 1
    MaxDigits = 2
    DigitsOf <- MCDigitsOf
    LifetimeOf <- MCLifetimeOf
    Sources = {"s"}
    Requests <- MCRequests
SPECIFICATION Spec
PROPERTIES
    UnsentScoringIsKept
CHECK_DEADLOCK FALSE
