CONSTANTS
    None = None
    Triggers <- MCTriggers
    Deliveries <- MCDeliveries
    Requests <- MCRequests
    KeptPerApp = 1
    KeptInNamespace = 1
    BuildQuota = 3
    JobQuota = 2
    MaxBuilds = 3
    MaxNow = 2
    MaxDeaths = 1
SPECIFICATION Spec
INVARIANT SucceededIsPushed
 
 
CHECK_DEADLOCK FALSE
