SPECIFICATION FairSpec
CONSTANTS
    Ids = {i1}
    Kinds = {"shell", "http"}
    Sandboxed = TRUE
    MaxRuns = 2
    None = None
    Own = own
    Flushers = {own}
    Faults = {{"loss", "evict"}, {"loss", "crash", "disk"}, {"cancel", "children", "evict"}, {"loss", "mkdir", "cleanup"}, {"evict", "crash"}}
INVARIANT OnceAtATime
INVARIANT NothingLeft
INVARIANT CancelReaches
INVARIANT ReportKept
PROPERTY ReportDelivered
