SPECIFICATION MCSpec
CONSTANTS
    Schedulers = {s1, s2, s3, s4}
    Nobody = Nobody
    Backend = "etcd"
    LeaderFaults = {"crash", "backend_error", "cancel", "session_loss"}
    Tasks = {t1}
    WheelSize = 3
    Phases = {0, 2}
    MaxTime = 5
    Horizon = 4
    Overdue = 1
    MaxItems = 3
    Drops = TRUE
    Names = {"n1", "n2"}
    Scheds = {"s1", "s2"}
    TaskOf <- OwnTask
    Nodes = {"w1", "w2"}
    MaxRows = 2
    MaxVersion = 2
    LastTime = 1
    Null = Null
    Processes = {q1, q2}
    MaxStarts = 2
    Crashes = TRUE
    Unread = TRUE
    Workers = {w1, w2}
    NoWorker = NoWorker
    MaxConcurrency = 1
    Jobs = {j1}
    Pickers = 2
    Eligible <- EveryWorker
    RRCycle = 2
    Strategy = "round_robin"
    Faults = {"heartbeat_loss", "worker_crash"}
    Publishers = {e1, e2}
    EventTasks = {1, 2}
    TotalShards <- ShardCounts
    MaxClock = 1
    PublishFaults = {"db", "no_worker", "dispatch_error", "dispatch_timeout"}
INVARIANT GuardKeepsRPM
CHECK_DEADLOCK FALSE
