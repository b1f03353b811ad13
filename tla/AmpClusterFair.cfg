CONSTANTS
    Null = Null
    NoCell = NoCell
    Nothing = Nothing
    CellId = {c1, c2}
    Servers = {p1, p2}
    McpServers = {}
    Agents = {a1}
    MaxTime = 2
    Lifetimes <- BelowThreshold
    Bodies = {100}
    Policies <- MCPolicies
    ArchiveStaleDays = 0
    RetentionDays = 2
    MaxCellSize = 1000
    MaxDigits = 1
    CallTime = 1
    MaxCrashes = 0
    Patches <- Archive
    PurgeRetention = TRUE
SPECIFICATION MCFairSpec
PROPERTIES
    DeletedLeaves
CHECK_DEADLOCK FALSE
