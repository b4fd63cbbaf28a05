SPECIFICATION MCSpec
CONSTANTS
    u1 = u1
    u2 = u2
    t1 = t1
    t2 = t2
    f1 = f1
    f2 = f2
    Uids <- MCUids
    Emails = {"admin", "a@b"}
    AdminEmail = "admin"
    Passwords = {"pw1", "pw2"}
    Tokens <- MCTokens
    Writers = {1}
    NoOne = NoOne
    NoUser = NoUser
    NoPassword = NoPassword
    Owner = u1
    Paths <- MCPaths
    NoFile = NoFile
    i1 = i1
    i2 = i2
    Uploads <- MCUploads
    VMs = {"v1", "v2"}
    NoVM = NoVM
    Metrics <- MCMetrics
    Reviewers = {"a1", "a2"}
    Reports = {"r1"}
    Suggestions = {"ban"}
    Domains = {"d1", "d2"}
    MaxThreats = 2
    MaxSize = 2
    Quota = 3
    MaxUploads = 3
    MaxUsed = 9
    MaxChanges = 3
    MaxFailures = 0
    MaxRestarts = 0
SYMMETRY MCSymmetry
CHECK_DEADLOCK FALSE
PROPERTIES
    OverwriteChargedByDelta
