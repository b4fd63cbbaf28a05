SPECIFICATION Spec
CONSTANTS
    HostIds = {h1, h2}
    Offers <- MCOffers
    Reports <- MCReports
    Requests <- MCRequests
    Steady = {h1}
    MaxQueueSize = 2
    MaxRequests = 2
CHECK_DEADLOCK FALSE
INVARIANTS
    TypeOK
    LeasesAccounted
PROPERTIES
    NoOvertaking
    FittingRequestServed
    OverdueLeaseReleased
    ImplementsLifecycle
