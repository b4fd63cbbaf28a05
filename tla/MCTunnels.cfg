SPECIFICATION TunnelsSpec
CONSTANTS
    Slots = {"s"}
    BaseDelays <- MCBaseDelays
    MaxDelay = 5
    MaxAttempt = 3
    Word = 12
    MaxLingering = 2
    Addresses = {"a"}
    MaxDialled = 4
    MaxSweeps = 2
    Frames <- MCFrames
    Protocols = {"tcp", "udp"}
    maxFrame = 3
    maxMessage = 2
    maxControl = 1
    maxDatagram = 1
    MaxTaken = 4
    MaxSent = 1
    Clients = {"p", "q"}
    MaxMessages = 2
    MaxPosted = 4
    MaxSwept = 1
    TailHosts = {"x", "y"}
    Forget = 2
    MaxRestarts = 1
    MaxMapped = 2
CHECK_DEADLOCK FALSE
INVARIANTS
    BetweenAttempts
    SocketsTracked
    MessagesWhole
    WaiterHasAll
    MappingKept
PROPERTIES
    AlwaysReconnects
    StopsAll
    StaysListed
    WaitsEnd
