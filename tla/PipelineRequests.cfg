CONSTANTS
    w1 = w1
    w2 = w2
    n1 = n1
    n2 = n2
    Writers = {w1, w2}
    Asks <- TwoRequests
    Nodes = {n1}
    Troubles = {"late"}
    LossyPush = FALSE
    After = 0
    MaxNow = 1
    MaxHandover = 0
    None = None
SPECIFICATION Spec
INVARIANTS
    AnswersAreEarned
    EveryCommitHasItsRecord
    EveryCommitBuildsOnTheLast
    AcceptedIsPushed
CHECK_DEADLOCK FALSE
