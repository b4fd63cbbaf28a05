SPECIFICATION GatewaySpec
CONSTANTS
    s1 = s1
    s2 = s2
    e1 = e1
    e2 = e2
    h1 = h1
    Sessions = {s1, s2}
    Enders = {e1, e2}
    MaxConcurrent = 1
    Hosts = {h1}
    NoHost = NoHost
    Descriptions <- MCDescriptions
    Loads <- MCLoads
    Regions = {"eu"}
    Classes = {"basic", "gaming"}
    Jobs = {1, 2, 3}
    NoJob = NoJob
    Asks <- MCAsks
    MaxFailed = 3
    Ids = {1}
    NoSession = NoSession
    People = {"ann", "root"}
    Admins = {"root"}
    Nobody = Nobody
    Orders <- MCOrders
    NewStates = {"active", "failed"}
    MaxEntries = 3
    MaxLinks = 1
CHECK_DEADLOCK FALSE
INVARIANTS
    LimiterAndMapExact
    IndexesAgree
    OneFate
    SessionsAccountable
PROPERTIES
    QueueIsServed
    EndedLeaves
