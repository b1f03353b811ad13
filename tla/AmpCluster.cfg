CONSTANTS
    Null = Null
    NoCell = NoCell
    Nothing = Nothing
    CellId = {c1}
    \* Each of the two may act as either kind: two servers, or one and an MCP server.
    Servers = {p1, p2}
    McpServers = {p1, p2}
    Agents = {a1}
    MaxTime = 4
    Lifetimes = {0}
    Bodies = {100}
    Policies <- MCPolicies
    ArchiveStaleDays = 1
    RetentionDays = 3
    MaxCellSize = 1000
    MaxDigits = 1
    CallTime = 1
    MaxCrashes = 1
    Patches <- Archive
    PurgeRetention = TRUE
SYMMETRY MCSymmetry
SPECIFICATION Spec
INVARIANTS
    TypeOK
PROPERTIES
    PurgedForGood
    PurgesOnlyAfterRetention
CHECK_DEADLOCK FALSE
