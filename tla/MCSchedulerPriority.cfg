SPECIFICATION Spec
CONSTANTS
    HostIds = {h1}
    Offers <- OneOffer
    Reports <- SteadyReports
    Requests <- PriorityRequests
    Steady = {}
    MaxQueueSize = 2
    MaxRequests = 2
PROPERTIES PriorityRespected
CHECK_DEADLOCK FALSE
