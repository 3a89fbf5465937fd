\* One worker, no failure: FedEx, whose events share one id.
SPECIFICATION Spec
CONSTANTS
    w1 = w1
    w2 = w2
    caller = caller
    canceller = canceller
    NoWorker = NoWorker
    Workers <- OneWorker
    Callers <- Nobody
    Cancellers <- Nobody
    Labels <- ThreeLabels
    LockMayExpire = FALSE
    Revises = FALSE
    SharedId = TRUE
    MaxJobs = 1
    MaxFaults = 0
    MaxCopies = 2
INVARIANT NothingForgotten
