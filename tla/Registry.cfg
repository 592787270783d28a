SPECIFICATION LiveSpec
CONSTANTS
    Workers = {w1}
    NoWorker = NoWorker
    w1 = w1
    j1 = j1
    MaxConcurrency = 2
    Jobs = {j1, j2}
    Pickers = 2
    Eligible <- MCEligible
    Strategy = "least_loaded"
    RRCycle = 1
    Faults = {"dispatch_error", "db", "cancel", "heartbeat_loss", "worker_crash", "crash"}
    Schedulers = {s1, s2}
    Nobody = Nobody
    Backend = "etcd"
    LeaderFaults = {"crash", "backend_error", "cancel", "session_loss"}
PROPERTY RowFollowsWorker
PROPERTY LoadSettles
PROPERTY SomeoneLeads
