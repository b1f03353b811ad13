CONSTANTS
    Null = Null
    NoCell = NoCell
    Nothing = Nothing
    CellId = {c1}
    Servers = {p1, p2}
    McpServers = {}
    Agents = {a1}
    MaxTime = 3
    Lifetimes = {0}
    Bodies = {100}
    Policies <- MCPolicies
    ArchiveStaleDays = 1
    RetentionDays = 1
    MaxCellSize = 1000
    MaxDigits = 1
    CallTime = 0
    MaxCrashes = 1
    Patches = {}
    PurgeRetention = TRUE
SPECIFICATION Spec
PROPERTIES
    DeletedIsTerminal
CHECK_DEADLOCK FALSE
