\* One worker and one trackShipment request overlap; the carrier may reword
\* its event, and the lock may run out.
SPECIFICATION Spec
CONSTANTS
    w1 = w1
    w2 = w2
    caller = caller
    canceller = canceller
    NoWorker = NoWorker
    Workers <- OneWorker
    Callers <- OneCaller
    Cancellers <- Nobody
    Labels <- TwoLabels
    LockMayExpire = TRUE
    Revises = TRUE
    SharedId = FALSE
    MaxJobs = 1
    MaxFaults = 2
    MaxCopies = 1
INVARIANTS
    TypeOK
    NothingForgotten
