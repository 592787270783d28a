SPECIFICATION FairSpec
CONSTANTS
    t1 = t1
    t2 = t2
    t3 = t3
    NoTask = NoTask
    Tasks = {t1, t2, t3}
    Cron = {t3}
    MaxRuns = 3
    RedLine = 4
    Api = {}
    Ops = {}
    Reporters = {r1}
    Upstream <- Join
    Features = {}
PROPERTY AdvancedTaskRuns
