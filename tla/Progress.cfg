SPECIFICATION PartSpec
CONSTANTS
    t1 = t1
    t2 = t2
    t3 = t3
    w1 = w1
    NoWorker = NoWorker
    trigger = trigger
    retrier = retrier
    r2 = r2
    NoTask = NoTask
    Tasks = {t1, t2}
    Cron = {t2}
    MaxRuns = 5
    RedLine = 2
    Api = {}
    Ops = {}
    Reporters = {r1}
    Upstream <- Chain
    Features = {"cache", "no_worker", "dispatch_error"}
INVARIANT TypeOK
INVARIANT DependencyGate
INVARIANT PendingBounded
PROPERTY OneRunPerTrigger
PROPERTY LoopRunsDueTasks
PROPERTY ResultArrives
PROPERTY FailedRunsAgain
