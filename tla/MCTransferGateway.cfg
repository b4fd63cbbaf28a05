SPECIFICATION GatewaySpec
CONSTANTS
    Transfers = {t1, t2, t3, t4}
    Sizes = {1, 2}
    MaxConcurrentTransfers = 2
CHECK_DEADLOCK FALSE
PROPERTIES
    FullLimiterDrains
