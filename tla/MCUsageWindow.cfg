SPECIFICATION UsageSpec
CONSTANTS
    UserIDs = {"u"}
    Resources = {"net", "cpu"}
    NoQuota = NoQuota
    Window = 3
    MaxRecords = 2
    MaxDays = 5
    Limits = {0, 2}
    MaxTracked = 4
CHECK_DEADLOCK FALSE
INVARIANTS
    PruningIsInvisible
