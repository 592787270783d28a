SPECIFICATION Spec
CONSTANTS
    Workers = {w1}
    NoWorker = NoWorker
    MaxInstances = 2
    MaxRoots = 1
    MaxRetry = 1
    RetryOn = {"failed"}
    Backoff = FALSE
    Outcomes = {"success", "failed"}
    Creators = {trigger}
    Retrier = retrier
    Reporters = {r1}
    Cancellers = {c1}
    Faults = {"no_worker", "dispatch_error", "dispatch_timeout", "report_timeout", "cancel", "cancel_loss", "crash", "worker_crash", "evict"}
SYMMETRY MCSymmetry
INVARIANT RetryJustified
INVARIANT ResultJustified
