\* One worker, no failure: the carrier delivers.
SPECIFICATION FairSpec
CONSTANTS
    w1 = w1
    w2 = w2
    caller = caller
    canceller = canceller
    NoWorker = NoWorker
    Workers <- OneWorker
    Callers <- Nobody
    Cancellers <- Nobody
    Labels <- TwoLabels
    LockMayExpire = FALSE
    Revises = FALSE
    SharedId = FALSE
    MaxJobs = 1
    MaxFaults = 0
    MaxCopies = 1
PROPERTY DeliveredNotScheduled
