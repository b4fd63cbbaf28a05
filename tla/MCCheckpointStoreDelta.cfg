SPECIFICATION CheckpointSpec
CONSTANTS
    s1 = s1
    s2 = s2
    s3 = s3
    SessionIds <- MCSessionIds
    StateSizes <- MCSizes
    MaxSize = 5
    MaxSaves = 4
SYMMETRY MCSymmetry
CHECK_DEADLOCK FALSE
INVARIANTS
    UsedSizeExact
