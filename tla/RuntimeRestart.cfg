SPECIFICATION Spec
CONSTANTS
    Workers = {w1, w2}
    NoWorker = NoWorker
    MaxInstances = 3
    MaxRoots = 1
    MaxRetry = 2
    RetryOn = {"failed", "timeout"}
    Backoff = TRUE
    Outcomes = {"success", "failed", "timeout"}
    Creators = {trigger}
    Retrier = retrier
    Reporters = {r1, r2}
    Cancellers = {}
    Faults = {"no_worker", "dispatch_error", "report_loss", "db", "crash", "evict"}
SYMMETRY MCSymmetry
INVARIANT AtMostOneRetry
INVARIANT ExecutedOnce
PROPERTY SettledStable
PROPERTY ImplementsChain
