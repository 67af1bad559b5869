CONSTANTS
    None = None
    Triggers <- MCTriggers
    Deliveries <- NoDelivery
    Requests <- MCRequests
    KeptPerApp = 2
    KeptInNamespace = 3
    BuildQuota = 4
    JobQuota = 2
    MaxBuilds = 3
    MaxNow = 1
    MaxDeaths = 0
SPECIFICATION Spec
PROPERTY EveryBuildEnds
CHECK_DEADLOCK FALSE
