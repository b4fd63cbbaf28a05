SPECIFICATION StoresSpec
CONSTANTS
    Transfers = {t1, t2, t3}
    Sizes = {1, 2}
    MaxConcurrentTransfers = 2
    SessionIds = {s1, s2}
    StateSizes = {1, 3}
    MaxSize = 5
    MaxSaves = 5
    BufferSize = 5
    MaxBytes = 14
    SessionIDs = {"s"}
    FrameWriters = {"v", "w"}
    MaxFrames = 2
    MaxRecordings = 2
    UserIDs = {"u"}
    Resources = {"net", "cpu"}
    NoQuota = NoQuota
    Window = 3
    MaxRecords = 2
    MaxDays = 5
    Limits = {0, 2}
    MaxTracked = 3
    Moderators = {"mo", "root"}
    RuleAdmins = {"root"}
    NumShared = 1
    MaxRules = 3
    SecurityGroups = {"g"}
    RuleLists <- MCRuleLists
    VMs = {"vm"}
    NoRule = NoRule
    NoGroup = NoGroup
    Names = {"g", "h"}
    NoName = "-"
    Lookers = {"k", "l", "m"}
    MaxEntries = 1
    MaxMoves = 1
    Requests = {"q", "r"}
    Keys = {"i", "u"}
    KeysOf <- MCKeysOf
    Rate = 1
    Burst = 2
    StaleAfter = 3
    MaxLag = 1
    MaxClock = 4
    MaxBuckets = 3
    Outputs <- MCOutputs
    MaxRead = 16
    MaxCarry = 3
    MTU = 2
    SeqSpace = 4
    MaxLate = 1
    FilePaths = {"p"}
    FileCalls = {1, 2, 3}
    NoCall = 0
    BodySizes = {1, 3}
    MaxUploadSize = 2
CHECK_DEADLOCK FALSE
INVARIANTS
    UsedSizeSound
    PruningKeepsBills
    NamesSound
    RateKept
    StreamSound
    FilesWhole
PROPERTIES
    EndsOnce
    ImplementsQueue
    RecordingSound
    RulesKept
    UnitsWhole
