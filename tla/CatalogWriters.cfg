SPECIFICATION SceneSpec
CONSTANTS
    t1 = t1
    t2 = t2
    t3 = t3
    a1 = a1
    NoTask = NoTask
    Tasks = {t1, t2}
    Cron = {t1}
    MaxRuns = 2
    RedLine = 2
    Api = {a1, a2}
    Ops = {"create", "pause", "resume", "trigger", "update", "delete", "tools"}
    Reporters = {r1}
    Upstream <- Chain
    Features = {"cache", "engine", "no_worker", "dispatch_error", "retry", "db", "crash"}
ACTION_CONSTRAINT SceneStep
PROPERTY PauseHolds
