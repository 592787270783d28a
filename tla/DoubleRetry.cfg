SPECIFICATION Spec
CONSTANTS
    Workers = {w1}
    NoWorker = NoWorker
    MaxInstances = 3
    MaxRoots = 1
    MaxRetry = 1
    RetryOn = {"failed"}
    Backoff = FALSE
    Outcomes = {"success", "failed"}
    Creators = {trigger}
    Retrier = retrier
    Reporters = {r1, r2}
    Cancellers = {}
    Faults = {"report_timeout"}
SYMMETRY MCSymmetry
INVARIANT AtMostOneRetry
