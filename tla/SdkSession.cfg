CONSTANTS
    me = me
    other = other
    k1 = k1
    k2 = k2
    NoAgent = NoAgent
    EmptyAgent = EmptyAgent
    NoKey = NoKey
    Placeholder = Placeholder
    Unset = Unset
    Malformed = Malformed
    Agents <- MCAgents
    Keys <- MCKeys
    CreatedAt <- MCCreatedAt
    KeyFiles <- MCKeyFiles
    Me = me
    ApiKey = k1
    LifecycleEnabled = TRUE
    MaxCells = 2
    MAX_PAGE_SIZE = 2
    HISTORY_PAGE = 2
    CLEAR_PAGE = 3
    MaxFaults = 2
SPECIFICATION FairSpec
INVARIANTS
    TypeOK
    LoopRunsOverOpenStorage
    ReturnedForgetIsForgotten
    RefusedForgetIsForgotten
    
PROPERTIES
    CreatorsAreChecked
    ForgetGetsThrough
CHECK_DEADLOCK FALSE
