CONSTANTS
    w1 = w1
    w2 = w2
    n1 = n1
    n2 = n2
    Writers = {w1}
    Asks <- OneDeploy
    Nodes = {n1, n2}
    Troubles = {"refused", "late", "restart"}
    LossyPush = TRUE
    After = 0
    MaxNow = 1
    MaxHandover = 1
    None = None
SPECIFICATION FairSpec
PROPERTIES
    LedgerSpec
    OpenRecordsAreAnswered
    LandedIsRecorded
CHECK_DEADLOCK FALSE
