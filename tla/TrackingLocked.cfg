\* Two workers, a lock that outlives every poll, a failure, a cancellation.
SPECIFICATION FairSpec
CONSTANTS
    w1 = w1
    w2 = w2
    caller = caller
    canceller = canceller
    NoWorker = NoWorker
    Workers <- TwoWorkers
    Callers <- Nobody
    Cancellers <- OneCanceller
    Labels <- ThreeLabels
    LockMayExpire = FALSE
    Revises = FALSE
    SharedId = FALSE
    MaxJobs = 1
    MaxFaults = 1
    MaxCopies = 1
INVARIANTS
    OneWorkerAtATime
    OneRowPerId
PROPERTIES
    StatusNeverRegresses
    LockIsReleased
    FinalStageRecorded
CHECK_DEADLOCK FALSE
